-------------------------- MODULE SupervisorProofs --------------------------
(***************************************************************************)
(* Proofs about the plugin supervisor, for every crash policy and any      *)
(* number of install directories.                                          *)
(*                                                                         *)
(* BelowThreshold is not inductive: a loop that enters its first load must *)
(* be known to start with an empty tracker.  The histories need more: the  *)
(* tracker, pruned, IS the window of crashes (WindowKept), and every load  *)
(* attempt still in the window except the one under way is older than a    *)
(* crash of its own that is in the window too (Paired), so the attempts    *)
(* outnumber the crashes by one at most.                                   *)
(***************************************************************************)
EXTENDS Supervisor, FiniteSetTheorems, SequenceTheorems, WellFoundedInduction,
        TLAPS

\* Ages do not increase along a history.
OldestFirst(h) == \A i, j \in 1 .. Len(h) : i < j => h[j] <= h[i]

\* The load attempts, but for the `open' ones, each have a crash of their own
\* that happened later; matched from the youngest back.
Paired(happened, begun, open) ==
    /\ Len(begun) <= Len(happened) + open
    /\ \A j \in 1 .. Len(begun) - open :
          happened[j + (Len(happened) + open - Len(begun))] <= begun[j]

Open(at) == IF at \in {"loading", "running", "cleanup"} THEN 1 ELSE 0

WindowKept ==
    \A d \in Dirs : OldestFirst(tracker[d]) /\ crashes[d] = Prune(tracker[d])

EachStartCrashed ==
    \A d \in Dirs :
        /\ OldestFirst(starts[d])
        /\ pc[d] # "exited" => Paired(crashes[d], starts[d], Open(pc[d]))

Fresh ==
    \A d \in Dirs : pc[d] = "starting" => tracker[d] = <<>> /\ starts[d] = <<>>

IInv ==
    /\ TypeOK
    /\ DeadLetteredStaysDown
    /\ BelowThreshold
    /\ WindowKept
    /\ EachStartCrashed
    /\ Fresh
    /\ RestartStormBounded

-----------------------------------------------------------------------------
(***************************************************************************)
(* Induction over the naturals, with sets in place of predicates.          *)
(***************************************************************************)

\* A set of naturals that is not empty has a least element.
LEMMA LeastNatural ==
    ASSUME NEW T \in SUBSET Nat, T # {}
    PROVE  \E least \in T : \A k \in T : least <= k
<1> DEFINE Below == OpToRel(<, Nat)
<1>1. \E least \in T : \A k \in T : <<k, least>> \notin Below
  <2>1. IsWellFoundedOn(Below, Nat)
    BY NatLessThanWellFounded
  <2> HIDE DEF Below
  <2> QED BY <2>1, WFMin
<1>2. Below = { ss \in Nat \X Nat : ss[1] < ss[2] }
  BY Zenon DEF OpToRel
<1> HIDE DEF Below
<1>3. ASSUME NEW k \in Nat, NEW m \in Nat, k < m PROVE <<k, m>> \in Below
  BY <1>2, <1>3
<1>4. PICK least \in T : \A k \in T : <<k, least>> \notin Below
  BY <1>1
<1>5. ASSUME NEW k \in T PROVE least <= k
  <2>1. least \in Nat /\ k \in Nat /\ <<k, least>> \notin Below
    BY <1>4
  <2>2. ~ (k < least)
    BY <2>1, <1>3
  <2> QED BY <2>1, <2>2
<1> QED BY <1>4, <1>5

\* A set with zero and the successor of each of its members holds them all.
LEMMA EveryNatural ==
    ASSUME NEW S \in SUBSET Nat, 0 \in S, \A n \in S : n + 1 \in S
    PROVE  Nat \subseteq S
<1> SUFFICES ASSUME Nat \ S # {} PROVE FALSE
  OBVIOUS
<1>1. PICK least \in Nat \ S : \A k \in Nat \ S : least <= k
  BY LeastNatural
<1>2. least # 0 /\ least - 1 \in Nat
  OBVIOUS
<1> QED BY <1>1, <1>2

-----------------------------------------------------------------------------
(***************************************************************************)
(* The doubling of the back-off.                                           *)
(***************************************************************************)

Doubles(f, n) == f[0] = 1 /\ \A k \in 1 .. n : f[k] = 2 * f[k - 1]

\* Every initial segment of the naturals carries such a function.
LEMMA DoublingExists ==
    \A n \in Nat : \E f \in [0 .. n -> Nat] : Doubles(f, n)
<1> DEFINE S == { n \in Nat : \E f \in [0 .. n -> Nat] : Doubles(f, n) }
<1>1. 0 \in S
  <2>1. [k \in 0 .. 0 |-> 1] \in [0 .. 0 -> Nat]
    OBVIOUS
  <2>2. Doubles([k \in 0 .. 0 |-> 1], 0)
    BY DEF Doubles
  <2> QED BY <2>1, <2>2
<1>2. ASSUME NEW n \in S PROVE n + 1 \in S
  <2>1. PICK f \in [0 .. n -> Nat] : Doubles(f, n)
    OBVIOUS
  <2> DEFINE g == [k \in 0 .. n + 1 |-> IF k <= n THEN f[k] ELSE 2 * f[n]]
  <2>2. g \in [0 .. n + 1 -> Nat]
    OBVIOUS
  <2>3. \A k \in 1 .. n + 1 : g[k] = 2 * g[k - 1]
    BY <2>1 DEF Doubles
  <2>4. Doubles(g, n + 1)
    BY <2>1, <2>3 DEF Doubles
  <2> HIDE DEF g
  <2> QED BY <2>2, <2>4
<1> HIDE DEF S
<1>3. Nat \subseteq S
  BY <1>1, <1>2, EveryNatural DEF S
<1> QED BY <1>3 DEF S

\* Two of them agree where both are defined.
LEMMA DoublingUnique ==
    ASSUME NEW n \in Nat, NEW m \in Nat,
           NEW f \in [0 .. n -> Nat], NEW g \in [0 .. m -> Nat],
           Doubles(f, n), Doubles(g, m)
    PROVE  \A k \in Nat : k <= n /\ k <= m => f[k] = g[k]
<1> DEFINE S == { k \in Nat : k <= n /\ k <= m => f[k] = g[k] }
<1>1. 0 \in S
  BY DEF Doubles
<1>2. ASSUME NEW k \in S PROVE k + 1 \in S
  <2> SUFFICES ASSUME k + 1 <= n, k + 1 <= m PROVE f[k + 1] = g[k + 1]
    OBVIOUS
  <2>1. f[k] = g[k]
    OBVIOUS
  <2> QED BY <2>1 DEF Doubles
<1>3. Nat \subseteq S
  BY <1>1, <1>2, EveryNatural
<1> QED BY <1>3

\* The recursive definition defines a function, and its values are naturals.
LEMMA PowerOfTwoType ==
    /\ PowerOfTwo = [k \in Nat |-> IF k = 0 THEN 1 ELSE 2 * PowerOfTwo[k - 1]]
    /\ PowerOfTwo \in [Nat -> Nat]
<1> DEFINE Part(n) == CHOOSE f \in [0 .. n -> Nat] : Doubles(f, n)
           whole == [n \in Nat |-> Part(n)[n]]
<1>1. ASSUME NEW n \in Nat PROVE Part(n) \in [0 .. n -> Nat] /\ Doubles(Part(n), n)
  BY DoublingExists
<1>2. ASSUME NEW n \in Nat PROVE whole[n] \in Nat /\ whole[n] = Part(n)[n]
  BY <1>1
<1> HIDE DEF Part
<1>3. whole[0] = 1
  BY <1>1, <1>2 DEF Doubles
<1>4. ASSUME NEW n \in Nat, n # 0 PROVE whole[n] = 2 * whole[n - 1]
  <2>1. n - 1 \in Nat /\ n - 1 <= n /\ n \in 1 .. n
    BY <1>4
  <2>2. Part(n)[n] = 2 * Part(n)[n - 1]
    BY <2>1, <1>1 DEF Doubles
  <2>3. Part(n - 1) \in [0 .. n - 1 -> Nat] /\ Doubles(Part(n - 1), n - 1)
    BY <2>1, <1>1
  <2>4. Part(n) \in [0 .. n -> Nat] /\ Doubles(Part(n), n)
    BY <1>1
  <2>5. \A k \in Nat : k <= n /\ k <= n - 1 => Part(n)[k] = Part(n - 1)[k]
    BY <2>1, <2>3, <2>4, DoublingUnique
  <2> QED BY <2>1, <2>2, <2>5, <1>2
<1>5. whole = [k \in Nat |-> IF k = 0 THEN 1 ELSE 2 * whole[k - 1]]
  BY <1>3, <1>4
<1> HIDE DEF whole
<1>6. PowerOfTwo = [k \in Nat |-> IF k = 0 THEN 1 ELSE 2 * PowerOfTwo[k - 1]]
  BY <1>5 DEF PowerOfTwo
<1> DEFINE S == { k \in Nat : PowerOfTwo[k] \in Nat }
<1>7. 0 \in S
  BY <1>6
<1>8. ASSUME NEW k \in S PROVE k + 1 \in S
  <2>1. k + 1 \in Nat /\ k + 1 # 0 /\ (k + 1) - 1 = k
    OBVIOUS
  <2>2. PowerOfTwo[k + 1] = 2 * PowerOfTwo[k]
    BY <1>6, <2>1
  <2> QED BY <2>1, <2>2
<1>9. Nat \subseteq S
  BY <1>7, <1>8, EveryNatural
<1> QED BY <1>6, <1>9
-----------------------------------------------------------------------------
(***************************************************************************)
(* Histories.                                                              *)
(***************************************************************************)

LEMMA FunctionIsSeq ==
    ASSUME NEW S, NEW n \in Nat, NEW f \in [1 .. n -> S]
    PROVE  f \in Seq(S) /\ Len(f) = n
<1>1. f \in Seq(S)
  BY SeqDef
<1>2. Len(f) \in Nat /\ 1 .. Len(f) = 1 .. n
  BY <1>1, LenProperties
<1> QED BY <1>1, <1>2

\* What is at least `bound' old is a prefix of a history.
LEMMA PrefixCount ==
    ASSUME NEW h \in Seq(Nat), OldestFirst(h), NEW bound \in Nat,
           NEW n, n = Cardinality({ i \in 1 .. Len(h) : h[i] >= bound })
    PROVE  /\ n \in 0 .. Len(h)
           /\ \A i \in 1 .. Len(h) : h[i] >= bound <=> i <= n
<1> DEFINE old == { i \in 1 .. Len(h) : h[i] >= bound }
           young == { i \in 1 .. Len(h) : ~(h[i] >= bound) }
<1>0. Len(h) \in Nat /\ \A i \in 1 .. Len(h) : h[i] \in Nat
  OBVIOUS
<1>1. \E m \in 0 .. Len(h) : old = 1 .. m
  <2>1. CASE young = {}
    BY <2>1, <1>0
  <2>2. CASE young # {}
    <3>1. young \in SUBSET Nat
      BY <1>0
    <3>2. PICK least \in young : \A k \in young : least <= k
      BY <2>2, <3>1, LeastNatural
    <3>3. least - 1 \in 0 .. Len(h)
      BY <3>2, <1>0
    <3>4. ASSUME NEW i \in 1 .. Len(h) PROVE h[i] >= bound <=> i <= least - 1
      <4>1. CASE i < least
        BY <4>1, <3>2, <1>0
      <4>2. CASE i = least
        BY <4>2, <3>2, <1>0
      <4>3. CASE least < i
        <5>1. least \in 1 .. Len(h) /\ ~(h[least] >= bound)
          BY <3>2
        <5>2. h[i] <= h[least]
          BY <4>3, <5>1 DEF OldestFirst
        <5> QED BY <4>3, <5>1, <5>2, <1>0
      <4> QED BY <4>1, <4>2, <4>3, <3>2, <1>0
    <3>5. old = 1 .. least - 1
      BY <3>3, <3>4, <1>0
    <3> QED BY <3>3, <3>5
  <2> QED BY <2>1, <2>2
<1>2. PICK m \in 0 .. Len(h) : old = 1 .. m
  BY <1>1
<1>3. m \in Nat /\ Cardinality(1 .. m) = m
  <2>1. m \in Nat
    BY <1>0
  <2>2. Cardinality(1 .. m) = IF 1 > m THEN 0 ELSE m - 1 + 1
    BY <2>1, FS_Interval
  <2> QED BY <2>1, <2>2
<1>4. n = m
  BY <1>2, <1>3
<1>5. \A i \in 1 .. Len(h) : h[i] >= bound <=> i \in 1 .. m
  BY <1>2
<1>6. ASSUME NEW i \in 1 .. Len(h) PROVE h[i] >= bound <=> i <= n
  BY <1>0, <1>3, <1>4, <1>5
<1> QED BY <1>0, <1>4, <1>6

\* Pruning keeps the suffix of the records inside the window.
LEMMA PruneSuffix ==
    ASSUME NEW records \in Seq(Age), OldestFirst(records),
           NEW n, n = Cardinality(Stale(records))
    PROVE  /\ n \in 0 .. Len(records)
           /\ \A i \in 1 .. Len(records) : records[i] > Window <=> i <= n
           /\ Prune(records) \in Seq(0 .. Window)
           /\ Len(Prune(records)) = Len(records) - n
           /\ \A i \in 1 .. Len(records) - n : Prune(records)[i] = records[i + n]
           /\ OldestFirst(Prune(records))
<1>0. Window \in Nat /\ Len(records) \in Nat
  BY PolicyAssumption
<1>1. records \in Seq(Nat)
  BY <1>0 DEF Age
<1>2. \A i \in 1 .. Len(records) : records[i] \in Nat /\ records[i] \in Age
  BY <1>1
<1>3. Stale(records) = { i \in 1 .. Len(records) : records[i] >= Window + 1 }
  BY <1>0, <1>2 DEF Stale
<1>4. /\ n \in Nat
      /\ n \in 0 .. Len(records)
      /\ \A i \in 1 .. Len(records) : records[i] >= Window + 1 <=> i <= n
  <2>1. n = Cardinality({ i \in 1 .. Len(records) : records[i] >= Window + 1 })
    BY <1>3
  <2>2. Window + 1 \in Nat
    BY <1>0
  <2>3. /\ n \in 0 .. Len(records)
        /\ \A i \in 1 .. Len(records) : records[i] >= Window + 1 <=> i <= n
    BY <1>1, <2>1, <2>2, PrefixCount
  <2> QED BY <2>3, <1>0
<1>5. \A i \in 1 .. Len(records) : records[i] > Window <=> i <= n
  BY <1>0, <1>2, <1>4
<1>6. \A i \in n + 1 .. Len(records) : records[i] \in 0 .. Window
  BY <1>0, <1>2, <1>4, <1>5
<1>7. /\ Prune(records) \in Seq(0 .. Window)
      /\ Len(Prune(records)) = Len(records) - n
      /\ \A i \in 1 .. Len(records) - n : Prune(records)[i] = records[i + n]
  BY <1>0, <1>4, <1>6, SubSeqProperties DEF Prune
<1>8. OldestFirst(Prune(records))
  <2> SUFFICES ASSUME NEW i \in 1 .. Len(records) - n,
                      NEW j \in 1 .. Len(records) - n, i < j
               PROVE  Prune(records)[j] <= Prune(records)[i]
    BY <1>7 DEF OldestFirst
  <2>1. i + n \in 1 .. Len(records) /\ j + n \in 1 .. Len(records) /\ i + n < j + n
    BY <1>0, <1>4
  <2>2. records[j + n] <= records[i + n]
    BY <2>1 DEF OldestFirst
  <2> QED BY <2>2, <1>7
<1> QED BY <1>4, <1>5, <1>7, <1>8

\* A recorded crash: the window, and the new crash at its end.
LEMMA RecordWindow ==
    ASSUME NEW records \in Seq(Age), OldestFirst(records)
    PROVE  /\ Record(records) = Noted(Prune(records))
           /\ Record(records) \in Seq(Age)
           /\ Noted(Prune(records)) \in Seq(0 .. Window)
           /\ OldestFirst(Record(records))
           /\ Prune(Record(records)) = Record(records)
<1> DEFINE kept == Prune(records)
           after == Noted(kept)
<1>0. Window \in Nat
  BY PolicyAssumption
<1>1. kept \in Seq(0 .. Window) /\ OldestFirst(kept)
  BY PruneSuffix
<1>2. Record(records) = after
  BY DEF Record, Noted
<1> HIDE DEF kept
<1>3. /\ after \in Seq(0 .. Window)
      /\ Len(after) = Len(kept) + 1
      /\ \A i \in 1 .. Len(kept) : after[i] = kept[i]
      /\ after[Len(kept) + 1] = 0
  BY <1>0, <1>1, AppendProperties DEF Noted
<1>4. Len(kept) \in Nat /\ \A i \in 1 .. Len(kept) : kept[i] \in 0 .. Window
  BY <1>0, <1>1
<1> HIDE DEF after
<1>5. OldestFirst(after)
  <2> SUFFICES ASSUME NEW i \in 1 .. Len(after), NEW j \in 1 .. Len(after), i < j
               PROVE  after[j] <= after[i]
    BY DEF OldestFirst
  <2>1. i \in 1 .. Len(kept) /\ after[i] = kept[i] /\ kept[i] \in 0 .. Window
    BY <1>3, <1>4
  <2>2. CASE j = Len(kept) + 1
    BY <2>1, <2>2, <1>3
  <2>3. CASE j # Len(kept) + 1
    BY <2>1, <2>3, <1>1, <1>3, <1>4 DEF OldestFirst
  <2> QED BY <2>2, <2>3
<1>6. after \in Seq(Age)
  BY <1>0, <1>3 DEF Age
<1>7. Prune(after) = after
  <2> DEFINE n == Cardinality(Stale(after))
  <2>1. Stale(after) = {}
    BY <1>0, <1>3 DEF Stale
  <2>2. n = 0
    BY <2>1, FS_EmptySet
  <2> HIDE DEF n
  <2>3. /\ Prune(after) \in Seq(0 .. Window)
        /\ Len(Prune(after)) = Len(after) - n
        /\ \A i \in 1 .. Len(after) - n : Prune(after)[i] = after[i + n]
    BY <1>5, <1>6, PruneSuffix DEF n
  <2>4. Len(Prune(after)) = Len(after)
    BY <1>3, <2>2, <2>3
  <2>5. \A i \in 1 .. Len(after) : Prune(after)[i] = after[i]
    BY <1>3, <2>2, <2>3
  <2> QED BY <1>3, <2>3, <2>4, <2>5, SeqEqual
<1> QED BY <1>2, <1>3, <1>5, <1>6, <1>7 DEF after, kept

\* A tick on a history: what reached the end of the window leaves, the rest
\* ages.
LEMMA ShiftedSuffix ==
    ASSUME NEW h \in Seq(0 .. Window), OldestFirst(h),
           NEW n, n = Cardinality(Leaving(h))
    PROVE  /\ n \in 0 .. Len(h)
           /\ \A i \in 1 .. Len(h) : h[i] >= Window <=> i <= n
           /\ Shifted(h) \in Seq(0 .. Window)
           /\ Len(Shifted(h)) = Len(h) - n
           /\ \A i \in 1 .. Len(h) - n : Shifted(h)[i] = h[i + n] + 1
           /\ OldestFirst(Shifted(h))
<1>0. Window \in Nat /\ Len(h) \in Nat
  BY PolicyAssumption
<1>1. h \in Seq(Nat) /\ \A i \in 1 .. Len(h) : h[i] \in 0 .. Window
  BY <1>0
<1>2. /\ n \in Nat
      /\ n \in 0 .. Len(h)
      /\ \A i \in 1 .. Len(h) : h[i] >= Window <=> i <= n
  <2>1. /\ n \in 0 .. Len(h)
        /\ \A i \in 1 .. Len(h) : h[i] >= Window <=> i <= n
    BY <1>0, <1>1, PrefixCount DEF Leaving
  <2> QED BY <2>1, <1>0
<1>3. \A i \in 1 .. Len(h) - n :
        i + n \in 1 .. Len(h) /\ h[i + n] + 1 \in 0 .. Window
  <2> SUFFICES ASSUME NEW i \in 1 .. Len(h) - n
               PROVE  i + n \in 1 .. Len(h) /\ h[i + n] + 1 \in 0 .. Window
    OBVIOUS
  <2>1. i + n \in 1 .. Len(h) /\ ~(i + n <= n)
    BY <1>0, <1>2
  <2>2. h[i + n] \in 0 .. Window /\ ~(h[i + n] >= Window)
    BY <2>1, <1>1, <1>2
  <2> QED BY <2>1, <2>2, <1>0
<1>4. Shifted(h) = [i \in 1 .. Len(h) - n |-> h[i + n] + 1]
  BY DEF Shifted
<1>5. /\ Shifted(h) \in Seq(0 .. Window)
      /\ Len(Shifted(h)) = Len(h) - n
      /\ \A i \in 1 .. Len(h) - n : Shifted(h)[i] = h[i + n] + 1
  <2>1. Len(h) - n \in Nat
    BY <1>0, <1>2
  <2>2. Shifted(h) \in [1 .. Len(h) - n -> 0 .. Window]
    BY <1>3, <1>4
  <2>3. Shifted(h) \in Seq(0 .. Window) /\ Len(Shifted(h)) = Len(h) - n
    BY <2>1, <2>2, FunctionIsSeq
  <2> QED BY <2>3, <1>4
<1>6. OldestFirst(Shifted(h))
  <2> SUFFICES ASSUME NEW i \in 1 .. Len(h) - n, NEW j \in 1 .. Len(h) - n, i < j
               PROVE  Shifted(h)[j] <= Shifted(h)[i]
    BY <1>5 DEF OldestFirst
  <2>1. i + n \in 1 .. Len(h) /\ j + n \in 1 .. Len(h) /\ i + n < j + n
    BY <1>0, <1>2
  <2>2. h[j + n] <= h[i + n] /\ h[j + n] \in 0 .. Window /\ h[i + n] \in 0 .. Window
    BY <2>1, <1>1 DEF OldestFirst
  <2>3. Shifted(h)[i] = h[i + n] + 1 /\ Shifted(h)[j] = h[j + n] + 1
    BY <1>5
  <2> QED BY <2>2, <2>3, <1>0
<1> QED BY <1>2, <1>5, <1>6

\* A tick on the records is a tick on the window they keep.
LEMMA AgedWindow ==
    ASSUME NEW records \in Seq(Age), OldestFirst(records)
    PROVE  /\ Aged(records) \in Seq(Age)
           /\ Len(Aged(records)) = Len(records)
           /\ OldestFirst(Aged(records))
           /\ Prune(Aged(records)) = Shifted(Prune(records))
<1> DEFINE old == Aged(records)
           gone == Cardinality(Stale(records))
           go == Cardinality(Stale(old))
           kept == Prune(records)
           leave == Cardinality(Leaving(kept))
<1>0. /\ Window \in Nat
      /\ Len(records) \in Nat
      /\ \A i \in 1 .. Len(records) : records[i] \in 0 .. Window + 1
  BY PolicyAssumption DEF Age
<1>1. /\ old \in Seq(Age)
      /\ Len(old) = Len(records)
      /\ \A i \in 1 .. Len(records) :
            old[i] = IF records[i] > Window THEN records[i] ELSE records[i] + 1
  <2>1. \A i \in 1 .. Len(records) : Older(records[i]) \in Age
    BY <1>0 DEF Older, Age
  <2> QED BY <2>1, <1>0 DEF Aged, Older
<1> HIDE DEF old
<1>2. OldestFirst(old)
  BY <1>0, <1>1 DEF OldestFirst
<1>3. /\ gone \in 0 .. Len(records)
      /\ \A i \in 1 .. Len(records) : records[i] > Window <=> i <= gone
      /\ kept \in Seq(0 .. Window)
      /\ Len(kept) = Len(records) - gone
      /\ \A i \in 1 .. Len(records) - gone : kept[i] = records[i + gone]
      /\ OldestFirst(kept)
  BY PruneSuffix
<1>4. /\ go \in 0 .. Len(old)
      /\ \A i \in 1 .. Len(old) : old[i] > Window <=> i <= go
      /\ Prune(old) \in Seq(0 .. Window)
      /\ Len(Prune(old)) = Len(old) - go
      /\ \A i \in 1 .. Len(old) - go : Prune(old)[i] = old[i + go]
  BY <1>1, <1>2, PruneSuffix
<1> HIDE DEF gone, go, kept
<1>5. /\ leave \in 0 .. Len(kept)
      /\ \A i \in 1 .. Len(kept) : kept[i] >= Window <=> i <= leave
      /\ Shifted(kept) \in Seq(0 .. Window)
      /\ Len(Shifted(kept)) = Len(kept) - leave
      /\ \A i \in 1 .. Len(kept) - leave : Shifted(kept)[i] = kept[i + leave] + 1
  BY <1>3, ShiftedSuffix
<1> HIDE DEF leave
<1>6. \A i \in 1 .. Len(records) : i <= go <=> records[i] >= Window
  <2> SUFFICES ASSUME NEW i \in 1 .. Len(records)
               PROVE  i <= go <=> records[i] >= Window
    OBVIOUS
  <2>1. old[i] > Window <=> i <= go
    BY <1>1, <1>4
  <2>2. old[i] = IF records[i] > Window THEN records[i] ELSE records[i] + 1
    BY <1>1
  <2>3. records[i] \in Nat
    BY <1>0
  <2> QED BY <2>1, <2>2, <2>3, <1>0
<1>7. \A i \in 1 .. Len(records) : records[i] >= Window <=> i <= gone + leave
  <2> SUFFICES ASSUME NEW i \in 1 .. Len(records)
               PROVE  records[i] >= Window <=> i <= gone + leave
    OBVIOUS
  <2>1. CASE i <= gone
    BY <2>1, <1>0, <1>3, <1>5
  <2>2. CASE i > gone
    <3>1. i - gone \in 1 .. Len(kept) /\ kept[i - gone] = records[i]
      BY <2>2, <1>0, <1>3
    <3> QED BY <3>1, <1>0, <1>3, <1>5
  <2> QED BY <2>1, <2>2, <1>3
<1>8. go = gone + leave
  <2>1. gone + leave \in 0 .. Len(records)
    BY <1>0, <1>3, <1>5
  <2>2. \A i \in 1 .. Len(records) : i <= go <=> i <= gone + leave
    BY <1>6, <1>7
  <2>3. ~(go < gone + leave)
    BY <2>1, <2>2, <1>0, <1>1, <1>4
  <2>4. ~(gone + leave < go)
    BY <2>1, <2>2, <1>0, <1>1, <1>4
  <2> QED BY <2>1, <2>3, <2>4, <1>1, <1>4
<1>9. Len(Prune(old)) = Len(Shifted(kept))
  BY <1>0, <1>1, <1>3, <1>4, <1>5, <1>8
<1>10. ASSUME NEW i \in 1 .. Len(Prune(old))
       PROVE  Prune(old)[i] = Shifted(kept)[i]
  <2>1. i + go \in 1 .. Len(records) /\ ~(i + go <= gone)
    BY <1>0, <1>1, <1>4, <1>3, <1>5, <1>8
  <2>2. Prune(old)[i] = old[i + go] /\ old[i + go] = records[i + go] + 1
    BY <2>1, <1>0, <1>1, <1>3, <1>4
  <2>3. i \in 1 .. Len(kept) - leave /\ i + leave \in 1 .. Len(records) - gone
    BY <1>0, <1>3, <1>5, <1>9
  <2>4. Shifted(kept)[i] = kept[i + leave] + 1 /\ kept[i + leave] = records[i + leave + gone]
    BY <2>3, <1>3, <1>5
  <2>5. i + leave + gone = i + go
    BY <1>3, <1>5, <1>8
  <2> QED BY <2>2, <2>4, <2>5
<1>11. Prune(old) = Shifted(kept)
  BY <1>4, <1>5, <1>9, <1>10, SeqEqual
<1> QED BY <1>1, <1>2, <1>11 DEF old, kept

\* A new event is the youngest of its history.
LEMMA NotedType ==
    ASSUME NEW h \in Seq(0 .. Window), OldestFirst(h)
    PROVE  /\ Noted(h) \in Seq(0 .. Window)
           /\ Len(Noted(h)) = Len(h) + 1
           /\ \A i \in 1 .. Len(h) : Noted(h)[i] = h[i]
           /\ Noted(h)[Len(h) + 1] = 0
           /\ OldestFirst(Noted(h))
<1>0. Window \in Nat /\ Len(h) \in Nat /\ \A i \in 1 .. Len(h) : h[i] \in 0 .. Window
  BY PolicyAssumption
<1>1. /\ Noted(h) \in Seq(0 .. Window)
      /\ Len(Noted(h)) = Len(h) + 1
      /\ \A i \in 1 .. Len(h) : Noted(h)[i] = h[i]
      /\ Noted(h)[Len(h) + 1] = 0
  BY <1>0, AppendProperties DEF Noted
<1>2. OldestFirst(Noted(h))
  <2> SUFFICES ASSUME NEW i \in 1 .. Len(h) + 1, NEW j \in 1 .. Len(h) + 1, i < j
               PROVE  Noted(h)[j] <= Noted(h)[i]
    BY <1>1 DEF OldestFirst
  <2>1. i \in 1 .. Len(h) /\ h[i] \in 0 .. Window
    BY <1>0
  <2>2. CASE j = Len(h) + 1
    BY <2>1, <2>2, <1>1
  <2>3. CASE j # Len(h) + 1
    <3>1. j \in 1 .. Len(h)
      BY <2>3, <1>0
    <3> QED BY <2>1, <3>1, <1>1 DEF OldestFirst
  <2> QED BY <2>2, <2>3
<1> QED BY <1>1, <1>2

\* What holds of a history with nothing on it.
EmptyHistory ==
    /\ Prune(<<>>) = <<>>
    /\ OldestFirst(<<>>)
    /\ Paired(<<>>, <<>>, 0)
    /\ Len(<<>>) = 0

LEMMA EmptyRecords ==
    EmptyHistory /\ Aged(<<>>) = <<>> /\ Shifted(<<>>) = <<>>
<1>1. <<>> \in Seq(Age) /\ Len(<<>>) = 0 /\ 1 .. 0 = {}
  BY EmptySeq
<1>2. Stale(<<>>) = {} /\ Leaving(<<>>) = {}
  BY <1>1 DEF Stale, Leaving
<1>3. Cardinality({}) = 0
  BY FS_EmptySet
<1>4. Prune(<<>>) = <<>>
  BY <1>1, <1>2, <1>3, SubSeqEmpty DEF Prune
<1>5. OldestFirst(<<>>) /\ Paired(<<>>, <<>>, 0)
  BY <1>1 DEF OldestFirst, Paired
<1>6. Aged(<<>>) = <<>> /\ Shifted(<<>>) = <<>>
  <2>1. Aged(<<>>) \in Seq(Age) /\ Len(Aged(<<>>)) = 0
    BY <1>1, <1>5, AgedWindow
  <2>2. <<>> \in Seq(0 .. Window)
    BY EmptySeq
  <2>3. Shifted(<<>>) \in Seq(0 .. Window) /\ Len(Shifted(<<>>)) = 0 - 0
    BY <1>1, <1>2, <1>3, <1>5, <2>2, ShiftedSuffix
  <2> QED BY <2>1, <2>3, EmptySeq
<1> QED BY <1>1, <1>4, <1>5, <1>6 DEF EmptyHistory

-----------------------------------------------------------------------------
(***************************************************************************)
(* Attempts and crashes, side by side.                                     *)
(***************************************************************************)

\* A load attempt opens.
LEMMA PairedOnStart ==
    ASSUME NEW happened \in Seq(0 .. Window), NEW begun \in Seq(0 .. Window),
           OldestFirst(begun), Paired(happened, begun, 0)
    PROVE  Paired(happened, Noted(begun), 1)
<1>1. /\ Len(happened) \in Nat /\ Len(begun) \in Nat
      /\ Len(Noted(begun)) = Len(begun) + 1
      /\ \A i \in 1 .. Len(begun) : Noted(begun)[i] = begun[i]
  BY NotedType
<1>2. Len(happened) + 1 - Len(Noted(begun)) = Len(happened) + 0 - Len(begun)
  BY <1>1
<1> QED BY <1>1, <1>2 DEF Paired

\* Its crash closes it.
LEMMA PairedOnCrash ==
    ASSUME NEW happened \in Seq(0 .. Window), NEW begun \in Seq(0 .. Window),
           OldestFirst(happened), Paired(happened, begun, 1)
    PROVE  Paired(Noted(happened), begun, 0)
<1>0. /\ Len(happened) \in Nat /\ Len(begun) \in Nat
      /\ \A j \in 1 .. Len(begun) : begun[j] \in 0 .. Window
  BY PolicyAssumption
<1>1. /\ Len(Noted(happened)) = Len(happened) + 1
      /\ \A i \in 1 .. Len(happened) : Noted(happened)[i] = happened[i]
      /\ Noted(happened)[Len(happened) + 1] = 0
  BY NotedType
<1>2. Len(begun) <= Len(happened) + 1
  BY DEF Paired
<1>3. ASSUME NEW j \in 1 .. Len(begun)
      PROVE  Noted(happened)[j + (Len(happened) + 1 - Len(begun))] <= begun[j]
  <2>1. CASE j = Len(begun)
    <3>1. j + (Len(happened) + 1 - Len(begun)) = Len(happened) + 1
      BY <2>1, <1>0
    <3> QED BY <3>1, <1>0, <1>1, PolicyAssumption
  <2>2. CASE j # Len(begun)
    <3>1. j \in 1 .. Len(begun) - 1
      BY <2>2, <1>0
    <3>2. happened[j + (Len(happened) + 1 - Len(begun))] <= begun[j]
      BY <3>1 DEF Paired
    <3>3. j + (Len(happened) + 1 - Len(begun)) \in 1 .. Len(happened)
      BY <3>1, <1>0, <1>2
    <3> QED BY <3>2, <3>3, <1>1
  <2> QED BY <2>1, <2>2
<1>4. Len(Noted(happened)) + 0 - Len(begun) = Len(happened) + 1 - Len(begun)
  BY <1>0, <1>1
<1>5. Len(begun) - 0 = Len(begun) /\ Len(begun) <= Len(Noted(happened)) + 0
  BY <1>0, <1>1, <1>2
<1> QED BY <1>3, <1>4, <1>5 DEF Paired

\* A crash never leaves the window before the attempt it ended.
LEMMA PairedOnTick ==
    ASSUME NEW happened \in Seq(0 .. Window), NEW begun \in Seq(0 .. Window),
           OldestFirst(happened), OldestFirst(begun),
           NEW open \in {0, 1}, Paired(happened, begun, open)
    PROVE  Paired(Shifted(happened), Shifted(begun), open)
<1> DEFINE a == Cardinality(Leaving(happened))
           b == Cardinality(Leaving(begun))
           ahead == Len(happened) + open - Len(begun)
<1>0. /\ Window \in Nat /\ open \in Nat
      /\ Len(happened) \in Nat /\ Len(begun) \in Nat
      /\ \A j \in 1 .. Len(happened) : happened[j] \in 0 .. Window
      /\ \A j \in 1 .. Len(begun) : begun[j] \in 0 .. Window
  BY PolicyAssumption
<1>1. /\ a \in 0 .. Len(happened)
      /\ \A i \in 1 .. Len(happened) : happened[i] >= Window <=> i <= a
      /\ Len(Shifted(happened)) = Len(happened) - a
      /\ \A i \in 1 .. Len(happened) - a : Shifted(happened)[i] = happened[i + a] + 1
  BY ShiftedSuffix
<1>2. /\ b \in 0 .. Len(begun)
      /\ \A i \in 1 .. Len(begun) : begun[i] >= Window <=> i <= b
      /\ Len(Shifted(begun)) = Len(begun) - b
      /\ \A i \in 1 .. Len(begun) - b : Shifted(begun)[i] = begun[i + b] + 1
  BY ShiftedSuffix
<1> HIDE DEF a, b
<1>3. \A j \in 1 .. Len(begun) - open : happened[j + ahead] <= begun[j]
  BY <1>0 DEF Paired
<1>4. /\ a \in Nat /\ a <= Len(happened)
      /\ b \in Nat /\ b <= Len(begun)
      /\ ahead \in Nat /\ ahead = Len(happened) + open - Len(begun)
  BY <1>0, <1>1, <1>2 DEF Paired
<1> HIDE DEF ahead
<1>5. a <= b + ahead
  <2> SUFFICES ASSUME a > b + ahead PROVE FALSE
    BY <1>4
  <2> DEFINE c == b + 1
  <2>1. c = b + 1 /\ c \in Nat
    BY <1>4
  <2> HIDE DEF c
  <2>2. CASE c > Len(begun) - open
    BY <2>1, <2>2, <1>0, <1>4
  <2>3. CASE c <= Len(begun) - open
    <3>1. c \in 1 .. Len(begun) - open /\ c \in 1 .. Len(begun)
      BY <2>1, <2>3, <1>0, <1>4
    <3>2. c + ahead \in 1 .. Len(happened) /\ c + ahead <= a
      <4>1. c + ahead <= a /\ c + ahead >= 1
        BY <2>1, <1>4
      <4> QED BY <4>1, <2>1, <1>0, <1>4
    <3>3. happened[c + ahead] >= Window
      BY <3>2, <1>1
    <3>4. happened[c + ahead] <= begun[c]
      BY <3>1, <2>1, <1>0, <1>3
    <3>5. begun[c] \in 0 .. Window /\ happened[c + ahead] \in 0 .. Window
      BY <3>1, <3>2, <1>0
    <3>6. begun[c] >= Window
      BY <3>3, <3>4, <3>5, <1>0
    <3>7. c <= b
      BY <3>1, <3>6, <1>2
    <3> QED BY <2>1, <3>7, <1>4
  <2> QED BY <2>1, <2>2, <2>3, <1>0, <1>4
<1>6. Len(Shifted(begun)) <= Len(Shifted(happened)) + open
  BY <1>0, <1>1, <1>2, <1>4, <1>5
<1>7. ASSUME NEW j \in 1 .. Len(Shifted(begun)) - open
      PROVE  Shifted(happened)[j + (Len(Shifted(happened)) + open - Len(Shifted(begun)))]
                <= Shifted(begun)[j]
  <2> DEFINE k == j + (Len(Shifted(happened)) + open - Len(Shifted(begun)))
             q == j + b
  <2>1. /\ j \in 1 .. Len(begun) - b
        /\ q \in 1 .. Len(begun) - open
        /\ q \in 1 .. Len(begun)
    BY <1>0, <1>2, <1>4
  <2>2. k \in Int /\ k + a = q + ahead
    BY <1>0, <1>1, <1>2, <1>4
  <2> HIDE DEF k
  <2>3. k \in 1 .. Len(happened) - a
    <3>1. k >= 1
      BY <2>1, <2>2, <1>4, <1>5
    <3>2. k + a <= Len(happened)
      BY <2>1, <2>2, <1>0, <1>4
    <3> QED BY <3>1, <3>2, <2>2, <1>0, <1>4
  <2>4. k + a \in 1 .. Len(happened)
    BY <2>3, <1>0, <1>4
  <2>5. Shifted(begun)[j] = begun[q] + 1
    BY <2>1, <1>2
  <2> HIDE DEF q
  <2>6. Shifted(happened)[k] = happened[k + a] + 1
    BY <2>3, <1>1
  <2>7. happened[q + ahead] <= begun[q]
    BY <2>1, <1>0, <1>3
  <2>8. begun[q] \in Nat /\ happened[k + a] \in Nat
    <3>1. begun[q] \in 0 .. Window
      BY <2>1, <1>0
    <3>2. happened[k + a] \in 0 .. Window
      BY <2>4, <1>0
    <3> QED BY <3>1, <3>2, <1>0
  <2>9. Shifted(happened)[k] <= Shifted(begun)[j]
    BY <2>2, <2>5, <2>6, <2>7, <2>8
  <2> QED BY <2>9 DEF k
<1> QED BY <1>6, <1>7 DEF Paired

-----------------------------------------------------------------------------
(***************************************************************************)
(* The back-off.                                                           *)
(***************************************************************************)

\* A back-off never exceeds the cap.
LEMMA BackoffType ==
    ASSUME NEW count \in Nat
    PROVE  Backoff(count) \in 0 .. BackoffCap
<1> DEFINE shift == IF count = 0 THEN 0 ELSE IF count - 1 < 30 THEN count - 1 ELSE 30
           delay == BackoffBase * PowerOfTwo[shift]
<1>1. shift \in Nat
  OBVIOUS
<1> HIDE DEF shift
<1>2. PowerOfTwo[shift] \in Nat
  BY <1>1, PowerOfTwoType
<1>3. delay \in Nat
  BY <1>2, PolicyAssumption
<1> HIDE DEF delay
<1>4. Capped(delay) \in 0 .. BackoffCap
  BY <1>3, PolicyAssumption DEF Capped
<1> QED BY <1>4 DEF Backoff, shift, delay

\* Short of the clamp of its exponent the back-off is the exponential itself.
LEMMA BackoffExponential ==
    ASSUME NEW n \in 1 .. 31
    PROVE  Backoff(n) = ContractBackoff(n)
<1>1. n # 0 /\ n - 1 \in Nat /\ (n - 1 < 30 \/ n - 1 = 30)
  OBVIOUS
<1>2. Backoff(n) = Capped(BackoffBase * PowerOfTwo[n - 1])
  BY <1>1 DEF Backoff
<1> DEFINE delay == BackoffBase * PowerOfTwo[n - 1]
<1>3. PowerOfTwo[n - 1] \in Nat
  BY <1>1, PowerOfTwoType
<1>4. delay \in Nat
  BY <1>3, PolicyAssumption
<1>5. ContractBackoff(n) = IF delay > BackoffCap THEN BackoffCap ELSE delay
  BY DEF ContractBackoff
<1> HIDE DEF delay
<1>6. Capped(delay) = IF delay > BackoffCap THEN BackoffCap ELSE delay
  BY <1>4, PolicyAssumption DEF Capped
<1> QED BY <1>2, <1>5, <1>6 DEF delay

-----------------------------------------------------------------------------
(***************************************************************************)
(* A recorded crash either ends the loop or leaves the tracker below the   *)
(* threshold, and only an ended loop has its directory marked.             *)
(***************************************************************************)
LEMMA OnCrashStep ==
    ASSUME IInv, NEW d \in Dirs, pc[d] \in {"loading", "cleanup"},
           OnCrash(d), UNCHANGED starts, outcome' \in [Dirs -> {"clean", "crash"}]
    PROVE  IInv'
<1> DEFINE after == Record(tracker[d])
<1>0. /\ pc \in [Dirs -> Points] /\ tracker \in [Dirs -> Seq(Age)]
      /\ wait \in [Dirs -> 0 .. BackoffCap] /\ marker \in [Dirs -> BOOLEAN]
      /\ crashes \in [Dirs -> Seq(0 .. Window)]
      /\ starts \in [Dirs -> Seq(0 .. Window)]
  BY DEF IInv, TypeOK
<1>1. /\ OldestFirst(tracker[d])
      /\ crashes[d] = Prune(tracker[d])
      /\ tracker[d] \in Seq(Age)
  BY <1>0 DEF IInv, WindowKept
<1>2. /\ after = Noted(crashes[d])
      /\ after \in Seq(Age)
      /\ Noted(crashes[d]) \in Seq(0 .. Window)
      /\ OldestFirst(after)
      /\ Prune(after) = after
  BY <1>1, RecordWindow
<1>3. Len(after) \in Nat
  BY <1>2
<1>4. /\ tracker' = [tracker EXCEPT ![d] = after]
      /\ crashes' = [crashes EXCEPT ![d] = Noted(@)]
      /\ starts' = starts
  BY DEF OnCrash
<1>5. \/ pc' = [pc EXCEPT ![d] = "exited"] /\ wait' = wait
      \/ /\ pc' = [pc EXCEPT ![d] = "backoff"]
         /\ Len(after) < MaxInWindow
         /\ wait' = [wait EXCEPT ![d] = Backoff(Len(after))]
         /\ marker' = marker
  BY <1>3, PolicyAssumption DEF OnCrash, DeadLetters
<1>6. \E written \in BOOLEAN : marker' = [marker EXCEPT ![d] = @ \/ written]
  <2>1. marker' = marker => marker' = [marker EXCEPT ![d] = @ \/ FALSE]
    BY <1>0
  <2> QED BY <2>1 DEF OnCrash
<1> HIDE DEF after
<1>7. TypeOK'
  <2>1. tracker' \in [Dirs -> Seq(Age)] /\ crashes' \in [Dirs -> Seq(0 .. Window)]
    BY <1>0, <1>2, <1>4
  <2>2. pc' \in [Dirs -> Points]
    BY <1>0, <1>5 DEF Points
  <2>3. marker' \in [Dirs -> BOOLEAN]
    BY <1>0, <1>6
  <2>4. wait' \in [Dirs -> 0 .. BackoffCap]
    <3>1. Backoff(Len(after)) \in 0 .. BackoffCap
      BY <1>3, BackoffType
    <3> QED BY <3>1, <1>0, <1>5
  <2> QED BY <2>1, <2>2, <2>3, <2>4, <1>0, <1>4 DEF TypeOK
<1>8. ASSUME NEW e \in Dirs, e # d
      PROVE  /\ pc'[e] = pc[e] /\ tracker'[e] = tracker[e]
             /\ marker'[e] = marker[e] /\ crashes'[e] = crashes[e]
  BY <1>0, <1>4, <1>5, <1>6, <1>8
<1>9. /\ tracker'[d] = after /\ crashes'[d] = after
      /\ \/ pc'[d] = "exited"
         \/ pc'[d] = "backoff" /\ Len(after) < MaxInWindow /\ marker'[d] = marker[d]
  BY <1>0, <1>2, <1>4, <1>5
<1>10. DeadLetteredStaysDown' /\ BelowThreshold'
  BY <1>8, <1>9 DEF IInv, DeadLetteredStaysDown, BelowThreshold
<1>11. WindowKept'
  BY <1>2, <1>8, <1>9 DEF IInv, WindowKept
<1>12. Fresh'
  BY <1>4, <1>8, <1>9 DEF IInv, Fresh
<1>13. RestartStormBounded'
  BY <1>4 DEF IInv, RestartStormBounded
<1>14. EachStartCrashed'
  <2>1. Paired(crashes[d], starts[d], 1) /\ OldestFirst(crashes[d])
    <3>1. OldestFirst(crashes[d])
      BY <1>1, PruneSuffix
    <3> QED BY <3>1 DEF IInv, EachStartCrashed, Open
  <2>2. Paired(Noted(crashes[d]), starts[d], 0)
    BY <2>1, <1>0, PairedOnCrash
  <2>3. pc'[d] = "exited" \/ Paired(crashes'[d], starts'[d], Open(pc'[d]))
    BY <2>2, <1>2, <1>4, <1>9 DEF Open
  <2> QED BY <2>3, <1>4, <1>8 DEF IInv, EachStartCrashed
<1> QED BY <1>7, <1>10, <1>11, <1>12, <1>13, <1>14 DEF IInv

\* A load attempt goes on the record, and the threshold left room for it.
LEMMA StartLoadStep ==
    ASSUME IInv, NEW d \in Dirs, StartLoad(d), ~marker[d] \/ pc[d] = "backoff",
           pc[d] \in {"starting", "backoff"},
           UNCHANGED <<outcome, tracker, wait, marker, crashes>>
    PROVE  IInv'
<1>0. /\ pc \in [Dirs -> Points] /\ tracker \in [Dirs -> Seq(Age)]
      /\ marker \in [Dirs -> BOOLEAN]
      /\ crashes \in [Dirs -> Seq(0 .. Window)]
      /\ starts \in [Dirs -> Seq(0 .. Window)]
      /\ MaxInWindow \in Nat \ {0}
  BY PolicyAssumption DEF IInv, TypeOK
<1>1. /\ pc' = [pc EXCEPT ![d] = "loading"]
      /\ starts' = [starts EXCEPT ![d] = Noted(@)]
      /\ tracker' = tracker /\ marker' = marker /\ crashes' = crashes
  BY DEF StartLoad
<1>2. /\ OldestFirst(starts[d])
      /\ Paired(crashes[d], starts[d], 0)
      /\ OldestFirst(tracker[d])
      /\ crashes[d] = Prune(tracker[d])
  BY DEF IInv, EachStartCrashed, Open, WindowKept
<1>3. /\ Noted(starts[d]) \in Seq(0 .. Window)
      /\ Len(Noted(starts[d])) = Len(starts[d]) + 1
      /\ OldestFirst(Noted(starts[d]))
  BY <1>0, <1>2, NotedType
<1>4. Len(tracker[d]) < MaxInWindow
  <2>1. CASE pc[d] = "starting"
    BY <2>1, <1>0 DEF IInv, Fresh
  <2>2. CASE pc[d] = "backoff"
    BY <2>2 DEF IInv, BelowThreshold
  <2> QED BY <2>1, <2>2
<1>5. TypeOK'
  BY <1>0, <1>1, <1>3 DEF IInv, TypeOK, Points
<1>6. DeadLetteredStaysDown'
  BY <1>0, <1>1 DEF IInv, DeadLetteredStaysDown
<1>7. BelowThreshold'
  BY <1>0, <1>1, <1>4 DEF IInv, BelowThreshold
<1>8. WindowKept' /\ Fresh'
  BY <1>0, <1>1 DEF IInv, WindowKept, Fresh
<1>9. RestartStormBounded'
  <2>1. Len(crashes[d]) <= Len(tracker[d])
    <3> DEFINE n == Cardinality(Stale(tracker[d]))
    <3>1. n \in 0 .. Len(tracker[d]) /\ Len(Prune(tracker[d])) = Len(tracker[d]) - n
      BY <1>0, <1>2, PruneSuffix
    <3> HIDE DEF n
    <3>2. Len(tracker[d]) \in Nat
      BY <1>0
    <3> QED BY <3>1, <3>2, <1>2
  <2>2. Len(starts[d]) <= Len(crashes[d])
    BY <1>0, <1>2 DEF Paired
  <2>3. Len(starts[d]) \in Nat /\ Len(crashes[d]) \in Nat /\ Len(tracker[d]) \in Nat
    BY <1>0
  <2>4. Len(Noted(starts[d])) <= MaxInWindow
    BY <2>1, <2>2, <2>3, <1>0, <1>3, <1>4
  <2> QED BY <2>4, <1>0, <1>1 DEF IInv, RestartStormBounded
<1>10. EachStartCrashed'
  <2>1. Paired(crashes[d], Noted(starts[d]), 1)
    BY <1>0, <1>2, PairedOnStart
  <2>2. /\ starts'[d] = Noted(starts[d]) /\ pc'[d] = "loading"
        /\ \A e \in Dirs : e # d => starts'[e] = starts[e] /\ pc'[e] = pc[e]
    BY <1>0, <1>1
  <2>3. Paired(crashes'[d], starts'[d], Open(pc'[d]))
    BY <2>1, <2>2, <1>1 DEF Open
  <2> QED BY <2>2, <2>3, <1>1, <1>3 DEF IInv, EachStartCrashed
<1> QED BY <1>5, <1>6, <1>7, <1>8, <1>9, <1>10 DEF IInv

-----------------------------------------------------------------------------
\* The initial states: nothing is on record.
LEMMA Initially == Init => IInv
<1> SUFFICES ASSUME Init PROVE IInv
  OBVIOUS
<1>0. /\ Window \in Nat /\ MaxInWindow \in Nat \ {0} /\ BackoffCap \in Nat
      /\ <<>> \in Seq(Age) /\ <<>> \in Seq(0 .. Window)
  BY PolicyAssumption, EmptySeq
<1>1. EmptyHistory
  BY EmptyRecords
<1>2. TypeOK
  BY <1>0 DEF Init, TypeOK, Points, Nothing
<1>3. DeadLetteredStaysDown /\ BelowThreshold /\ Fresh
  BY DEF Init, DeadLetteredStaysDown, BelowThreshold, Fresh, Nothing
<1>4. WindowKept /\ EachStartCrashed /\ RestartStormBounded
  BY <1>0, <1>1 DEF Init, WindowKept, EachStartCrashed, RestartStormBounded, Open,
                    Nothing, EmptyHistory
<1> QED BY <1>2, <1>3, <1>4 DEF IInv

\* Time passing.
LEMMA TickStep == IInv /\ Tick => IInv'
<1> SUFFICES ASSUME IInv, Tick PROVE IInv'
  OBVIOUS
<1>0. /\ pc \in [Dirs -> Points] /\ tracker \in [Dirs -> Seq(Age)]
      /\ wait \in [Dirs -> 0 .. BackoffCap]
      /\ crashes \in [Dirs -> Seq(0 .. Window)]
      /\ starts \in [Dirs -> Seq(0 .. Window)]
      /\ MaxInWindow \in Nat /\ BackoffCap \in Nat
  BY PolicyAssumption DEF IInv, TypeOK
<1>1. /\ pc' = pc /\ marker' = marker /\ outcome' = outcome
      /\ tracker' = [d \in Dirs |-> Aged(tracker[d])]
      /\ crashes' = [d \in Dirs |-> Shifted(crashes[d])]
      /\ starts' = [d \in Dirs |-> Shifted(starts[d])]
      /\ wait' = [d \in Dirs |-> IF wait[d] = 0 THEN 0 ELSE wait[d] - 1]
  BY DEF Tick
<1>2. ASSUME NEW d \in Dirs
      PROVE  /\ Aged(tracker[d]) \in Seq(Age)
             /\ Len(Aged(tracker[d])) = Len(tracker[d])
             /\ OldestFirst(Aged(tracker[d]))
             /\ Prune(Aged(tracker[d])) = Shifted(crashes[d])
             /\ OldestFirst(crashes[d])
  <2>1. OldestFirst(tracker[d]) /\ crashes[d] = Prune(tracker[d])
    BY DEF IInv, WindowKept
  <2>2. OldestFirst(crashes[d])
    BY <2>1, <1>0, PruneSuffix
  <2> QED BY <2>1, <2>2, <1>0, AgedWindow
<1>3. ASSUME NEW h \in Seq(0 .. Window), OldestFirst(h)
      PROVE  /\ Shifted(h) \in Seq(0 .. Window)
             /\ OldestFirst(Shifted(h))
             /\ Len(Shifted(h)) <= Len(h)
             /\ Len(Shifted(h)) \in Nat /\ Len(h) \in Nat
  <2> DEFINE n == Cardinality(Leaving(h))
  <2>1. n \in 0 .. Len(h) /\ Len(Shifted(h)) = Len(h) - n
    BY <1>3, ShiftedSuffix
  <2> HIDE DEF n
  <2>2. Len(h) \in Nat
    OBVIOUS
  <2> QED BY <2>1, <2>2, <1>3, ShiftedSuffix
<1>4. \A d \in Dirs : OldestFirst(starts[d]) /\ OldestFirst(crashes[d])
  BY <1>2 DEF IInv, EachStartCrashed
<1>5. TypeOK'
  <2>1. \A d \in Dirs : Shifted(crashes[d]) \in Seq(0 .. Window)
                        /\ Shifted(starts[d]) \in Seq(0 .. Window)
    BY <1>0, <1>3, <1>4
  <2>2. \A d \in Dirs :
          (IF wait[d] = 0 THEN 0 ELSE wait[d] - 1) \in 0 .. BackoffCap
    BY <1>0
  <2>3. wait' \in [Dirs -> 0 .. BackoffCap]
    BY <2>2, <1>1
  <2>4. tracker' \in [Dirs -> Seq(Age)]
    BY <1>1, <1>2
  <2>5. crashes' \in [Dirs -> Seq(0 .. Window)] /\ starts' \in [Dirs -> Seq(0 .. Window)]
    BY <2>1, <1>1
  <2> QED BY <2>3, <2>4, <2>5, <1>1 DEF IInv, TypeOK
<1>6. DeadLetteredStaysDown' /\ BelowThreshold'
  BY <1>1, <1>2 DEF IInv, DeadLetteredStaysDown, BelowThreshold
<1>7. WindowKept'
  BY <1>1, <1>2 DEF WindowKept
<1>8. Fresh'
  <2>1. Aged(<<>>) = <<>> /\ Shifted(<<>>) = <<>>
    BY EmptyRecords
  <2> QED BY <2>1, <1>1 DEF IInv, Fresh
<1>9. RestartStormBounded'
  BY <1>0, <1>1, <1>3, <1>4 DEF IInv, RestartStormBounded
<1>10. EachStartCrashed'
  <2> SUFFICES ASSUME NEW d \in Dirs
               PROVE  /\ OldestFirst(Shifted(starts[d]))
                      /\ pc[d] # "exited" =>
                            Paired(Shifted(crashes[d]), Shifted(starts[d]), Open(pc[d]))
    BY <1>1 DEF EachStartCrashed, Open
  <2>1. OldestFirst(Shifted(starts[d]))
    BY <1>0, <1>3, <1>4
  <2>2. Open(pc[d]) \in {0, 1}
    BY DEF Open
  <2>3. pc[d] # "exited" => Paired(crashes[d], starts[d], Open(pc[d]))
    BY DEF IInv, EachStartCrashed
  <2> HIDE DEF Open
  <2> QED BY <2>1, <2>2, <2>3, <1>0, <1>4, PairedOnTick
<1> QED BY <1>5, <1>6, <1>7, <1>8, <1>9, <1>10 DEF IInv

\* A step that moves a loop without touching what is recorded, and without
\* ending or beginning an attempt.
LEMMA QuietStep ==
    ASSUME IInv, UNCHANGED <<tracker, wait, crashes, starts>>,
           outcome' \in [Dirs -> {"clean", "crash"}],
           pc' \in [Dirs -> Points],
           \A d \in Dirs : \/ pc'[d] = pc[d]
                           \/ pc'[d] = "exited"
                           \/ /\ pc[d] \in {"loading", "running"}
                              /\ pc'[d] \in {"running", "cleanup"},
           marker' \in [Dirs -> BOOLEAN],
           \A d \in Dirs : marker'[d] => marker[d]
    PROVE  IInv'
<1>1. TypeOK'
  BY DEF IInv, TypeOK
<1>2. DeadLetteredStaysDown' /\ BelowThreshold' /\ Fresh' /\ RestartStormBounded'
  BY DEF IInv, DeadLetteredStaysDown, BelowThreshold, Fresh, RestartStormBounded
<1>3. WindowKept'
  BY DEF IInv, WindowKept
<1>4. EachStartCrashed'
  BY DEF IInv, EachStartCrashed, Open
<1> QED BY <1>1, <1>2, <1>3, <1>4 DEF IInv

\* The host comes back: nothing is on record.
LEMMA RestartStep == IInv /\ HostRestart => IInv'
<1> SUFFICES ASSUME IInv, HostRestart PROVE IInv'
  OBVIOUS
<1>0. /\ Window \in Nat /\ MaxInWindow \in Nat \ {0} /\ BackoffCap \in Nat
      /\ <<>> \in Seq(Age) /\ <<>> \in Seq(0 .. Window)
  BY PolicyAssumption, EmptySeq
<1>1. EmptyHistory
  BY EmptyRecords
<1>2. PICK found \in SUBSET Dirs :
          pc' = [d \in Dirs |-> IF d \in found THEN "starting" ELSE "exited"]
  BY DEF HostRestart
<1>3. /\ tracker' = [d \in Dirs |-> <<>>]
      /\ wait' = [d \in Dirs |-> 0]
      /\ crashes' = [d \in Dirs |-> <<>>]
      /\ starts' = [d \in Dirs |-> <<>>]
      /\ outcome' = outcome /\ marker' = marker
  BY DEF HostRestart, Nothing
<1>4. TypeOK'
  BY <1>0, <1>2, <1>3 DEF IInv, TypeOK, Points
<1>5. DeadLetteredStaysDown' /\ BelowThreshold' /\ Fresh'
  BY <1>2, <1>3 DEF DeadLetteredStaysDown, BelowThreshold, Fresh
<1>6. WindowKept' /\ RestartStormBounded' /\ EachStartCrashed'
  BY <1>0, <1>1, <1>2, <1>3
     DEF WindowKept, EachStartCrashed, RestartStormBounded, Open, EmptyHistory
<1> QED BY <1>4, <1>5, <1>6 DEF IInv

\* Every step of the specification preserves the invariant.
LEMMA Inductive == IInv /\ [Next]_vars => IInv'
<1> SUFFICES ASSUME IInv, [Next]_vars PROVE IInv'
  OBVIOUS
<1>0. /\ pc \in [Dirs -> Points] /\ outcome \in [Dirs -> {"clean", "crash"}]
      /\ marker \in [Dirs -> BOOLEAN]
  BY DEF IInv, TypeOK
<1>1. ASSUME NEW d \in Dirs, Enter(d) PROVE IInv'
  <2>1. CASE marker[d] /\ pc' = [pc EXCEPT ![d] = "exited"] /\ UNCHANGED starts
    BY <2>1, <1>0, <1>1, QuietStep DEF Enter, Points
  <2>2. CASE ~marker[d] /\ StartLoad(d)
    BY <2>2, <1>1, StartLoadStep DEF Enter
  <2> QED BY <2>1, <2>2, <1>1 DEF Enter
<1>2. ASSUME NEW d \in Dirs, LoadOk(d) PROVE IInv'
  BY <1>0, <1>2, QuietStep DEF LoadOk, Points
<1>3. ASSUME NEW d \in Dirs, LoadFails(d) PROVE IInv'
  BY <1>0, <1>3, OnCrashStep DEF LoadFails
<1>4. ASSUME NEW d \in Dirs, CleanExit(d) PROVE IInv'
  BY <1>0, <1>4, QuietStep DEF CleanExit, Points
<1>5. ASSUME NEW d \in Dirs, CrashExit(d) PROVE IInv'
  BY <1>0, <1>5, OnCrashStep DEF CrashExit
<1>6. ASSUME NEW d \in Dirs, WakeUp(d) PROVE IInv'
  BY <1>6, StartLoadStep DEF WakeUp
<1>7. ASSUME NEW d \in Dirs, NEW how \in {"clean", "crash"}, TaskEnds(d, how)
      PROVE  IInv'
  BY <1>0, <1>7, QuietStep DEF TaskEnds, Points
<1>8. CASE Tick
  BY <1>8, TickStep
<1>9. ASSUME NEW d \in Dirs, ClearMarker(d) PROVE IInv'
  BY <1>0, <1>9, QuietStep DEF ClearMarker
<1>10. CASE HostRestart
  BY <1>10, RestartStep
<1>11. CASE UNCHANGED vars
  BY <1>0, <1>11, QuietStep DEF vars
<1> QED
  BY <1>1, <1>2, <1>3, <1>4, <1>5, <1>6, <1>7, <1>8, <1>9, <1>10, <1>11
     DEF Next, Supervise

-----------------------------------------------------------------------------
(***************************************************************************)
(* A dead-lettered directory is never supervised, for any number of        *)
(* directories and any crash policy (`supervise', the marker check).       *)
(***************************************************************************)
THEOREM DeadLetterHolds == Spec => []DeadLetteredStaysDown
<1>1. IInv => DeadLetteredStaysDown
  BY DEF IInv
<1> QED BY <1>1, Initially, Inductive, PTL DEF Spec

(***************************************************************************)
(* A loop that goes on is below the crash threshold, for any window,       *)
(* threshold and back-off (`CrashTracker::record').                        *)
(***************************************************************************)
THEOREM ThresholdHolds == Spec => []BelowThreshold
<1>1. IInv => BelowThreshold
  BY DEF IInv
<1> QED BY <1>1, Initially, Inductive, PTL DEF Spec

(***************************************************************************)
(* Every state is well typed; in particular a sleep never exceeds the cap  *)
(* (`backoff'), and no record outlives its window by more than a tick.     *)
(***************************************************************************)
THEOREM SupervisorTypes == Spec => []TypeOK
<1>1. IInv => TypeOK
  BY DEF IInv
<1> QED BY <1>1, Initially, Inductive, PTL DEF Spec

(***************************************************************************)
(* No restart storm, for any policy: a window never sees more load         *)
(* attempts than the threshold (`supervise' with `on_crash').              *)
(***************************************************************************)
THEOREM NoRestartStorm == Spec => []RestartStormBounded
<1>1. IInv => RestartStormBounded
  BY DEF IInv
<1> QED BY <1>1, Initially, Inductive, PTL DEF Spec

-----------------------------------------------------------------------------
\* A crash is decided on the window as it is, however lazily it is pruned.
LEMMA DecisionStep ==
    ASSUME MaxInWindow <= 32, IInv, [Next]_vars, NEW d \in Dirs
    PROVE  DecidedByContract(d)
<1> DEFINE n == Len(crashes'[d])
<1> SUFFICES ASSUME crashes'[d] = Noted(crashes[d]), CrashDecided(d)
             PROVE  /\ pc'[d] = "exited" <=> n >= MaxInWindow
                    /\ pc'[d] = "backoff" => wait'[d] = ContractBackoff(n)
  BY DEF DecidedByContract
<1>0. /\ pc \in [Dirs -> Points] /\ tracker \in [Dirs -> Seq(Age)]
      /\ wait \in [Dirs -> 0 .. BackoffCap] /\ outcome \in [Dirs -> {"clean", "crash"}]
      /\ crashes \in [Dirs -> Seq(0 .. Window)]
  BY DEF IInv, TypeOK
<1>1. /\ OldestFirst(tracker[d]) /\ crashes[d] = Prune(tracker[d])
      /\ tracker[d] \in Seq(Age) /\ crashes[d] \in Seq(0 .. Window)
  BY <1>0 DEF IInv, WindowKept
<1>2. Record(tracker[d]) = Noted(crashes[d])
  BY <1>1, RecordWindow
<1>3. n \in Nat \ {0} /\ n = Len(Record(tracker[d])) /\ Noted(crashes[d]) # crashes[d]
  <2>1. OldestFirst(crashes[d])
    BY <1>1, PruneSuffix
  <2>2. Len(Noted(crashes[d])) = Len(crashes[d]) + 1 /\ Len(crashes[d]) \in Nat
    BY <2>1, <1>1, NotedType
  <2> QED BY <2>2, <1>2
<1>4. pc[d] \in {"loading", "cleanup"} /\ pc'[d] \in {"backoff", "exited"}
  BY DEF CrashDecided
<1>5. OnCrash(d)
  <2>1. crashes'[d] # crashes[d]
    BY <1>3
  <2>2. ~ UNCHANGED crashes
    BY <2>1
  <2>3. ASSUME NEW e \in Dirs, e # d, OnCrash(e) PROVE FALSE
    <3>1. crashes'[d] = crashes[d]
      BY <2>3, <1>0 DEF OnCrash
    <3> QED BY <3>1, <2>1
  <2>4. ~ Tick
    BY <1>4 DEF Tick
  <2>5. ~ HostRestart
    <3>1. ASSUME HostRestart PROVE crashes'[d] = <<>>
      BY <3>1 DEF HostRestart, Nothing
    <3> QED BY <3>1, <1>2, <1>3
  <2> QED
    BY <2>2, <2>3, <2>4, <2>5
       DEF Next, Supervise, Enter, LoadOk, LoadFails, CleanExit, CrashExit, WakeUp,
           TaskEnds, ClearMarker, vars
<1> HIDE DEF n
<1>6. \/ /\ n >= MaxInWindow
         /\ pc'[d] = "exited"
      \/ /\ ~(n >= MaxInWindow)
         /\ pc'[d] = "backoff"
         /\ wait'[d] = Backoff(n)
  BY <1>0, <1>3, <1>5 DEF OnCrash, DeadLetters
<1>7. ~(n >= MaxInWindow) => n \in 1 .. 31
  <2>1. n \in Nat /\ n # 0
    BY <1>3
  <2>2. MaxInWindow \in Nat /\ MaxInWindow <= 32
    BY PolicyAssumption
  <2> QED BY <2>1, <2>2
<1> QED BY <1>6, <1>7, BackoffExponential

(***************************************************************************)
(* `record' decides by its contract although it prunes only when a crash   *)
(* happens, for every policy whose threshold keeps the exponent under the  *)
(* clamp of `backoff' (the shipped one is 5): a plugin is given up exactly *)
(* when the window holds MaxInWindow crashes, and sleeps the capped        *)
(* exponential of their number otherwise.                                  *)
(***************************************************************************)
THEOREM ContractHolds ==
    ASSUME MaxInWindow <= 32
    PROVE  Spec => DecisionMatchesContract
<1>1. IInv /\ [Next]_vars => [\A d \in Dirs : DecidedByContract(d)]_vars
  BY DecisionStep
<1> QED BY <1>1, Initially, Inductive, PTL DEF Spec, DecisionMatchesContract

=============================================================================
