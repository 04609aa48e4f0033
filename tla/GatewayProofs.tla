--------------------------- MODULE GatewayProofs ---------------------------
(***************************************************************************)
(* Proofs about the gateway: the WebSocket of a panel, GatewayStream, for  *)
(* any subjects, batches and buffers; then its requests and the panel's    *)
(* reconnections, Panel, for any clients, keys and documents.              *)
(*                                                                         *)
(* NothingMissed is about the end of the replay, and what makes it true is *)
(* the order in which things are read.  What the replay does not deliver   *)
(* must be on the subscription (Covered); the messages that only the       *)
(* replay can deliver are older than those on the subscription (Before),   *)
(* so it delivers them first; and the count was taken when they were all   *)
(* there, so that it does not stop before them (Counted).                  *)
(*                                                                         *)
(* TrustEnds rests on when an answer was asked for: the document in it was *)
(* published then or later (Asked), and a fetch ends by its timeout, so    *)
(* the document stored is behind by one timeout at most (Trusted), whoever *)
(* stores last.  It stays for one lifetime more.                           *)
(***************************************************************************)
EXTENDS Panel, GatewayStream, FiniteSetTheorems, SequenceTheorems,
        WellFoundedInduction, TLAPS

-----------------------------------------------------------------------------
(***************************************************************************)
(* The stream.                                                             *)
(***************************************************************************)
Reading == stage \in {"replay", "count", "fetch", "batch"}
Fetching == stage \in {"fetch", "batch"}

Ascending(seq) == \A i, j \in 1 .. Len(seq) : i < j => seq[i] < seq[j]

\* The stream holds the last message of each subject, if it holds one.
Newest == \A n \in stream, m \in Messages : log[m] = log[n] => m <= n

\* In what order messages are read and shown.
Order ==
    /\ Ascending(inbox) /\ Ascending(out)
    /\ stage \in {"connecting", "replay", "count"} => out = << >>
    /\ stage = "connecting" => inbox = << >>
    /\ stage = "live" => out = << >>
    /\ Fetching => \A i \in 1 .. Len(out) : out[i] <= cursor
    /\ stage = "count" => cursor = 0
    /\ stage = "connecting" \/ Reading => \A s \in Subjects : view[s] = 0
    /\ stage = "send" => \A i \in 1 .. Len(out) : view[log[out[i]]] < out[i]
    /\ stage = "batch" /\ left = 0 => got_any
    /\ stage \in {"connecting", "replay", "count", "fetch"} => left = 0

\* What arrived of a subject is followed by what is retained of it; so is
\* what was replayed, unless it is that itself, and what is shown.
Followed ==
    /\ \A h, n \in Messages :
          InSeq(h, inbox) /\ n \in Matching /\ log[n] = log[h] => InSeq(n, inbox)
    /\ \A h, n \in Messages :
          InSeq(h, out) /\ n \in Matching /\ log[n] = log[h] /\ n # h => InSeq(n, inbox)
    /\ \A h, n \in Messages :
          InSeq(h, inbox) /\ InSeq(n, out) /\ log[n] = log[h] /\ n > h => InSeq(n, inbox)
    /\ \A h \in Messages :
          InSeq(h, inbox) /\ view[log[h]] > h => InSeq(view[log[h]], inbox)

\* The messages that only the replay can deliver.
Old == { n \in Matching : ~InSeq(n, inbox) }

Before == Reading => \A m \in Old, h \in Messages : InSeq(h, inbox) => m < h

Covered == Fetching => \A n \in Old : n > cursor \/ InSeq(n, out)

Counted ==
    Fetching => Len(out) + Cardinality({ n \in Old : n > cursor }) <= target

Complete == Followed /\ Before /\ Covered /\ Counted /\ NothingMissed

StreamInv ==
    /\ StreamTypeOK /\ Newest /\ Order
    /\ Subscribed /\ ~excused => Complete

\* What is in a sequence after one more, and after one less.
LEMMA InAppend ==
    ASSUME NEW S, NEW seq \in Seq(S), NEW x, NEW n
    PROVE  InSeq(n, Append(seq, x)) <=> InSeq(n, seq) \/ n = x
  <1> DEFINE longer == Append(seq, x)
  <1>1. /\ Len(longer) = Len(seq) + 1 /\ Len(seq) \in Nat
        /\ \A i \in 1 .. Len(seq) : longer[i] = seq[i]
        /\ longer[Len(seq) + 1] = x
    OBVIOUS
  <1> HIDE DEF longer
  <1>2. ASSUME InSeq(n, longer) PROVE InSeq(n, seq) \/ n = x
    <2>1. PICK i \in 1 .. Len(longer) : longer[i] = n
      BY <1>2 DEF InSeq
    <2>2. i \in 1 .. Len(seq) \/ i = Len(seq) + 1
      BY <1>1, <2>1
    <2> QED BY <1>1, <2>1, <2>2 DEF InSeq
  <1>3. ASSUME InSeq(n, seq) PROVE InSeq(n, longer)
    <2>1. PICK i \in 1 .. Len(seq) : seq[i] = n
      BY <1>3 DEF InSeq
    <2>2. i \in 1 .. Len(longer) /\ longer[i] = n
      BY <1>1, <2>1
    <2> QED BY <2>2 DEF InSeq
  <1>4. ASSUME n = x PROVE InSeq(n, longer)
    <2>1. Len(seq) + 1 \in 1 .. Len(longer) /\ longer[Len(seq) + 1] = n
      BY <1>1, <1>4
    <2> QED BY <2>1 DEF InSeq
  <1>5. InSeq(n, longer) <=> InSeq(n, seq) \/ n = x
    BY <1>2, <1>3, <1>4
  <1> QED BY <1>5 DEF longer

LEMMA InTail ==
    ASSUME NEW S, NEW seq \in Seq(S), seq # << >>, NEW n
    PROVE  /\ InSeq(n, Tail(seq)) => InSeq(n, seq)
           /\ InSeq(n, seq) /\ n # Head(seq) => InSeq(n, Tail(seq))
           /\ InSeq(Head(seq), seq) /\ Head(seq) \in S /\ Head(seq) = seq[1]
           /\ Tail(seq) \in Seq(S) /\ Len(Tail(seq)) = Len(seq) - 1 /\ Len(seq) >= 1
  <1>1. /\ Tail(seq) \in Seq(S) /\ Len(Tail(seq)) = Len(seq) - 1 /\ Len(seq) \in Nat \ {0}
        /\ Head(seq) = seq[1] /\ seq[1] \in S
        /\ \A i \in 1 .. Len(seq) - 1 : Tail(seq)[i] = seq[i + 1]
    BY EmptySeq, HeadTailProperties
  <1> DEFINE rest == Tail(seq)
            k == Len(seq)
  <1>2. rest = Tail(seq) /\ k = Len(seq) /\ k \in Nat \ {0} /\ Len(rest) = k - 1
    BY <1>1
  <1> HIDE DEF rest, k
  <1>3. ASSUME InSeq(n, rest) PROVE InSeq(n, seq)
    <2>1. PICK i \in 1 .. k - 1 : rest[i] = n
      BY <1>2, <1>3 DEF InSeq
    <2>2. i + 1 \in 1 .. k /\ seq[i + 1] = n
      BY <1>1, <1>2, <2>1
    <2> QED BY <1>2, <2>2 DEF InSeq
  <1>4. ASSUME InSeq(n, seq), n # Head(seq) PROVE InSeq(n, rest)
    <2>1. PICK i \in 1 .. k : seq[i] = n
      BY <1>2, <1>4 DEF InSeq
    <2>2. i # 1
      BY <1>1, <1>4, <2>1
    <2>3. i - 1 \in 1 .. k - 1 /\ (i - 1) + 1 = i
      BY <1>2, <2>1, <2>2
    <2>4. rest[i - 1] = n
      BY <1>1, <1>2, <2>1, <2>3
    <2> QED BY <1>2, <2>3, <2>4 DEF InSeq
  <1>5. InSeq(Head(seq), seq) /\ k >= 1
    <2>1. 1 \in 1 .. k /\ k >= 1
      BY <1>2
    <2> QED BY <1>1, <1>2, <2>1 DEF InSeq
  <1> QED BY <1>1, <1>2, <1>3, <1>4, <1>5

\* Order survives at both ends of a sequence.
LEMMA AscendingAppend ==
    ASSUME NEW seq \in Seq(Nat), NEW x \in Nat, Ascending(seq),
           \A i \in 1 .. Len(seq) : seq[i] < x
    PROVE  Ascending(Append(seq, x))
  <1> DEFINE longer == Append(seq, x)
            k == Len(seq)
  <1>1. /\ Len(longer) = k + 1 /\ k \in Nat
        /\ \A i \in 1 .. k : longer[i] = seq[i]
        /\ longer[k + 1] = x
    OBVIOUS
  <1>2. \A i \in 1 .. k : seq[i] < x
    OBVIOUS
  <1>3. \A i, j \in 1 .. k : i < j => seq[i] < seq[j]
    BY DEF Ascending
  <1> HIDE DEF longer, k
  <1>4. ASSUME NEW i \in 1 .. k + 1, NEW j \in 1 .. k + 1, i < j PROVE longer[i] < longer[j]
    <2>1. i \in 1 .. k
      BY <1>1, <1>4
    <2>2. CASE j \in 1 .. k
      BY <1>1, <1>3, <1>4, <2>1, <2>2
    <2>3. CASE j = k + 1
      BY <1>1, <1>2, <2>1, <2>3
    <2> QED BY <1>1, <2>2, <2>3
  <1>5. Ascending(longer)
    BY <1>1, <1>4 DEF Ascending
  <1> QED BY <1>5 DEF longer

LEMMA AscendingTail ==
    ASSUME NEW seq \in Seq(Nat), seq # << >>, Ascending(seq)
    PROVE  /\ Ascending(Tail(seq))
           /\ \A n \in Nat : InSeq(n, Tail(seq)) => Head(seq) < n
  <1>1. /\ Tail(seq) \in Seq(Nat) /\ Len(Tail(seq)) = Len(seq) - 1 /\ Len(seq) \in Nat \ {0}
        /\ Head(seq) = seq[1]
        /\ \A i \in 1 .. Len(seq) - 1 : Tail(seq)[i] = seq[i + 1]
    BY EmptySeq, HeadTailProperties
  <1> DEFINE rest == Tail(seq)
            k == Len(seq)
  <1>2. /\ rest = Tail(seq) /\ k \in Nat \ {0} /\ Len(rest) = k - 1
        /\ \A i \in 1 .. k - 1 : rest[i] = seq[i + 1]
        /\ \A i, j \in 1 .. k : i < j => seq[i] < seq[j]
    BY <1>1 DEF Ascending
  <1> HIDE DEF rest, k
  <1>3. ASSUME NEW i \in 1 .. k - 1, NEW j \in 1 .. k - 1, i < j PROVE rest[i] < rest[j]
    <2>1. i + 1 \in 1 .. k /\ j + 1 \in 1 .. k /\ i + 1 < j + 1
      BY <1>2, <1>3
    <2> QED BY <1>2, <2>1
  <1>4. ASSUME NEW n \in Nat, InSeq(n, rest) PROVE Head(seq) < n
    <2>1. PICK i \in 1 .. k - 1 : rest[i] = n
      BY <1>2, <1>4 DEF InSeq
    <2>2. 1 \in 1 .. k /\ i + 1 \in 1 .. k /\ 1 < i + 1
      BY <1>2, <2>1
    <2> QED BY <1>1, <1>2, <2>1, <2>2
  <1>5. Ascending(rest)
    BY <1>2, <1>3 DEF Ascending
  <1> QED BY <1>2, <1>4, <1>5

\* The message that Publish adds is the last one; the others stay.
LEMMA Published1 ==
    ASSUME StreamTypeOK, NEW s \in Subjects, Publish(s)
    PROVE  /\ log' \in Seq(Subjects) /\ Len(log') = Len(log) + 1 /\ Len(log) \in Nat
           /\ Messages' = Messages \cup {Len(log) + 1}
           /\ \A m \in Messages : m \in Nat /\ log'[m] = log[m] /\ m < Len(log) + 1
           /\ log'[Len(log) + 1] = s
           /\ stream' = { m \in stream : log[m] # s } \cup {Len(log) + 1}
  <1> DEFINE k == Len(log)
  <1>1. log \in Seq(Subjects) /\ log' = Append(log, s) /\ k \in Nat
    BY DEF StreamTypeOK, Publish
  <1>2. /\ log' \in Seq(Subjects) /\ Len(log') = k + 1
        /\ \A m \in 1 .. k : log'[m] = log[m]
        /\ log'[k + 1] = s
    BY <1>1
  <1>3. stream' = { m \in stream : log[m] # s } \cup {k + 1}
    BY DEF Publish
  <1>4. Messages = 1 .. k /\ Messages' = 1 .. Len(log')
    BY DEF Messages
  <1> HIDE DEF k
  <1>5. /\ 1 .. k + 1 = (1 .. k) \cup {k + 1}
        /\ \A m \in 1 .. k : m \in Nat /\ m < k + 1
    BY <1>1
  <1>6. Messages' = Messages \cup {k + 1}
    BY <1>2, <1>4, <1>5
  <1> QED BY <1>1, <1>2, <1>3, <1>4, <1>5, <1>6 DEF k

LEMMA PublishTypes ==
    ASSUME StreamTypeOK, NEW s \in Subjects, Publish(s)
    PROVE  StreamTypeOK'
  <1> DEFINE new == Len(log) + 1
  <1>0. /\ log' \in Seq(Subjects) /\ Len(log') = new
        /\ Messages' = Messages \cup {new}
        /\ \A m \in Messages : m \in Nat /\ log'[m] = log[m] /\ m < new
        /\ log'[new] = s /\ Len(log) \in Nat /\ new \in Nat
        /\ stream' = { m \in stream : log[m] # s } \cup {new}
    BY Published1
  <1>1. /\ stream \subseteq Messages /\ inbox \in Seq(Messages) /\ out \in Seq(Messages)
        /\ Len(inbox) <= Buffer /\ Buffer \in Nat /\ Len(inbox) \in Nat
        /\ \A m, n \in stream : log[m] = log[n] => m = n
    BY StreamAssumption DEF StreamTypeOK
  <1>2. UNCHANGED <<stage, topics, cursor, target, left, got_any, out, view, purges>>
    BY DEF Publish, replay
  <1>3. inbox' = inbox \/ (inbox' = Append(inbox, new) /\ Len(inbox) < Buffer)
    BY DEF Publish
  <1>4. excused' \in BOOLEAN
    BY DEF Publish, StreamTypeOK
  <1>5. Messages \subseteq Messages' /\ new \in Messages'
    BY <1>0
  <1> HIDE DEF new
  <1>6. stream' \subseteq Messages' /\ \A m, n \in stream' : log'[m] = log'[n] => m = n
    BY <1>0, <1>1
  <1>7. inbox \in Seq(Messages') /\ out \in Seq(Messages')
    BY <1>1, <1>5
  <1>8. inbox' \in Seq(Messages') /\ Len(inbox') <= Buffer
    BY <1>1, <1>3, <1>5, <1>7
  <1>9. cursor \in 0 .. Len(log') /\ view \in [Subjects -> 0 .. Len(log')]
    <2>1. cursor \in 0 .. Len(log) /\ view \in [Subjects -> 0 .. Len(log)]
      BY DEF StreamTypeOK
    <2>2. \A m \in 0 .. Len(log) : m \in 0 .. Len(log')
      BY <1>0 DEF new
    <2> QED BY <2>1, <2>2
  <1> QED BY <1>0, <1>2, <1>4, <1>6, <1>7, <1>8, <1>9 DEF StreamTypeOK

\* The least of some messages, as the server delivers it.
LEMMA Least ==
    ASSUME NEW S \in SUBSET Nat, S # {}
    PROVE  Min(S) \in S /\ \A m \in S : Min(S) <= m
  <1>1. \E n \in S : \A m \in S : n <= m
    <2> DEFINE Below == OpToRel(<, Nat)
    <2>1. \A m, n \in Nat : m < n => <<m, n>> \in Below
      <3>1. Below = { pair \in Nat \X Nat : pair[1] < pair[2] }
        BY Zenon DEF OpToRel
      <3> QED BY <3>1
    <2>2. IsWellFoundedOn(Below, Nat)
      BY NatLessThanWellFounded
    <2> HIDE DEF Below
    <2>3. PICK n \in S : \A m \in S : <<m, n>> \notin Below
      BY <2>2, WFMin
    <2>4. ASSUME NEW m \in S PROVE n <= m
      <3>1. n \in Nat /\ m \in Nat /\ ~ (m < n)
        BY <2>1, <2>3
      <3> QED BY <3>1
    <2> QED BY <2>3, <2>4
  <1> QED BY <1>1 DEF Min

\* The sets and sequences of messages that the types give.
LEMMA StreamFacts ==
    ASSUME StreamTypeOK
    PROVE  /\ Messages \subseteq Nat /\ Messages \subseteq 0 .. Len(log)
           /\ Matching \subseteq Messages /\ Matching \subseteq stream /\ stream \subseteq Messages
           /\ Old \subseteq Matching /\ Ahead \subseteq Matching
           /\ inbox \in Seq(Messages) /\ out \in Seq(Messages)
           /\ Len(inbox) \in Nat /\ Len(out) \in Nat /\ Len(log) \in Nat
           /\ \A n \in Messages : log[n] \in Subjects
           /\ \A n : InSeq(n, inbox) \/ InSeq(n, out) => n \in Messages
           /\ IsFiniteSet(Messages)
  <1>1. /\ log \in Seq(Subjects) /\ Len(log) \in Nat /\ stream \subseteq Messages
        /\ inbox \in Seq(Messages) /\ out \in Seq(Messages)
    BY DEF StreamTypeOK
  <1>2. /\ Messages \subseteq Nat /\ Messages \subseteq 0 .. Len(log)
        /\ \A n \in Messages : log[n] \in Subjects
    BY <1>1 DEF Messages
  <1>3. Matching \subseteq stream /\ Old \subseteq Matching /\ Ahead \subseteq Matching
    BY DEF Matching, Old, Ahead
  <1>4. \A n : InSeq(n, inbox) \/ InSeq(n, out) => n \in Messages
    BY <1>1 DEF InSeq
  <1>5. IsFiniteSet(Messages)
    BY <1>1, FS_Interval DEF Messages
  <1> QED BY <1>1, <1>2, <1>3, <1>4, <1>5

LEMMA HandlerTypes ==
    ASSUME StreamTypeOK, Order, Handler
    PROVE  StreamTypeOK'
  <1>0. /\ Messages \subseteq Nat /\ Messages \subseteq 0 .. Len(log)
        /\ Matching \subseteq Messages /\ Ahead \subseteq Matching
        /\ inbox \in Seq(Messages) /\ out \in Seq(Messages)
        /\ Len(inbox) \in Nat /\ Len(out) \in Nat /\ Len(log) \in Nat
        /\ \A n \in Messages : log[n] \in Subjects
        /\ << >> \in Seq(Messages) /\ Len(<< >>) = 0
        /\ BatchSize \in Nat \ {0} /\ HardCap \in Nat /\ Buffer \in Nat
        /\ target \in 0 .. HardCap /\ left \in 0 .. BatchSize
    BY StreamFacts, StreamAssumption, EmptySeq DEF StreamTypeOK
  <1>1. CASE Subscribe \/ Refuse \/ GoLive \/ FetchDone
    <2>1. topics' \subseteq Subjects
      BY <1>1 DEF Subscribe, Refuse, GoLive, FetchDone, Filters, StreamTypeOK
    <2> QED BY <1>1, <2>1
            DEF Subscribe, Refuse, GoLive, FetchDone, StreamTypeOK, Messages, Stages, replay
  <1>2. CASE ReplayFails
    BY <1>0, <1>2 DEF ReplayFails, StreamTypeOK, Messages, Stages, replay
  <1>3. CASE LastState
    <2>1. out' \in Seq(Messages)
      <3>1. \A n \in Matching : <<n>> \in Seq(Messages)
        BY <1>0
      <3>2. out' = << >> \/ \E n \in Matching : out' = <<n>>
        BY <1>3 DEF LastState
      <3> QED BY <1>0, <3>1, <3>2
    <2> QED BY <1>3, <2>1 DEF LastState, StreamTypeOK, Messages, Stages, replay
  <1>4. CASE CreateConsumer
    BY <1>0, <1>4 DEF CreateConsumer, StreamTypeOK, Messages, Stages
  <1>5. CASE CountPending
    <2>1. Cardinality(Matching) \in Nat
      BY <1>0, StreamFacts, FS_Subset, FS_CardinalityType
    <2>2. target' \in 0 .. HardCap
      BY <1>0, <1>5, <2>1 DEF CountPending, Smaller
    <2>3. Len(out) + left <= target'
      BY <1>0, <1>5, <2>2 DEF CountPending, Order
    <2>4. excused' \in BOOLEAN
      BY <1>5 DEF CountPending, StreamTypeOK
    <2> QED BY <1>5, <2>2, <2>3, <2>4 DEF CountPending, StreamTypeOK, Messages, Stages
  <1>6. CASE FetchBatch
    <2>1. left' \in 0 .. BatchSize /\ Len(out) + left' <= target
      BY <1>0, <1>6 DEF FetchBatch, Smaller
    <2> QED BY <1>6, <2>1 DEF FetchBatch, StreamTypeOK, Messages, Stages
  <1>7. CASE Receive
    <2>1. cursor' \in Messages
      BY <1>0, <1>7, Least DEF Receive
    <2>2. out' \in Seq(Messages) /\ Len(out') = Len(out) + 1
      BY <1>0, <1>7, <2>1 DEF Receive
    <2>3. left' \in 0 .. BatchSize /\ Len(out') + left' <= target
      BY <1>0, <1>7, <2>2 DEF Receive, StreamTypeOK
    <2>4. cursor' \in 0 .. Len(log)
      BY <1>0, <2>1
    <2> QED BY <1>7, <2>2, <2>3, <2>4 DEF Receive, StreamTypeOK, Messages, Stages
  <1>8. CASE EndBatch
    <2>1. left' \in 0 .. BatchSize /\ Len(out) + left' <= target
      BY <1>0, <1>8 DEF EndBatch, StreamTypeOK
    <2> QED BY <1>8, <2>1 DEF EndBatch, StreamTypeOK, Messages, Stages
  <1>9. CASE SendReplay
    <2>1. /\ Head(out) \in Messages /\ Tail(out) \in Seq(Messages)
          /\ Head(out) \in 0 .. Len(log)
      BY <1>0, <1>9, InTail DEF SendReplay
    <2>2. view' \in [Subjects -> 0 .. Len(log)]
      BY <1>9, <2>1 DEF SendReplay, Shows, StreamTypeOK
    <2> QED BY <1>9, <2>1, <2>2 DEF SendReplay, StreamTypeOK, Messages, Stages, replay
  <1>10. CASE SendLive
    <2>1. /\ Head(inbox) \in Messages /\ Tail(inbox) \in Seq(Messages)
          /\ Head(inbox) \in 0 .. Len(log) /\ Len(Tail(inbox)) = Len(inbox) - 1
      BY <1>0, <1>10, InTail DEF SendLive
    <2>2. view' \in [Subjects -> 0 .. Len(log)]
      BY <1>10, <2>1 DEF SendLive, Shows, StreamTypeOK
    <2>3. Len(inbox') <= Buffer
      BY <1>0, <1>10, <2>1 DEF SendLive, StreamTypeOK
    <2> QED BY <1>10, <2>1, <2>2, <2>3 DEF SendLive, StreamTypeOK, Messages, Stages, replay
  <1> QED BY <1>1, <1>2, <1>3, <1>4, <1>5, <1>6, <1>7, <1>8, <1>9, <1>10 DEF Handler

LEMMA StreamTypeStep ==
    ASSUME StreamTypeOK, Order, StreamNext
    PROVE  StreamTypeOK'
  <1>1. CASE Purge
    BY <1>1, StreamAssumption DEF Purge, StreamTypeOK, Messages, replay
  <1>2. CASE Close
    BY <1>2 DEF Close, StreamTypeOK, Messages, Stages, replay
  <1> QED BY <1>1, <1>2, PublishTypes, HandlerTypes DEF StreamNext

\* The stream is only written by the bus.
LEMMA NewestStep ==
    ASSUME StreamTypeOK, Newest, StreamNext
    PROVE  Newest'
  <1>1. ASSUME NEW s \in Subjects, Publish(s) PROVE Newest'
    <2> SUFFICES ASSUME NEW n \in stream', NEW m \in Messages', log'[m] = log'[n]
                 PROVE  m <= n
      BY DEF Newest
    <2> DEFINE new == Len(log) + 1
    <2>1. /\ Messages' = Messages \cup {new} /\ new \in Nat
          /\ \A i \in Messages : i \in Nat /\ log'[i] = log[i] /\ i < new
          /\ log'[new] = s /\ stream' = { i \in stream : log[i] # s } \cup {new}
          /\ stream \subseteq Messages
      <3>1. stream \subseteq Messages /\ new \in Nat
        BY StreamFacts
      <3> HIDE DEF new
      <3> QED BY <1>1, <3>1, Published1 DEF new
    <2> HIDE DEF new
    <2>2. CASE n = new
      BY <2>1, <2>2
    <2>3. CASE n \in stream /\ log[n] # s
      <3>1. m \in Messages /\ log[m] = log[n]
        BY <2>1, <2>3
      <3> QED BY <2>3, <3>1 DEF Newest
    <2> QED BY <2>1, <2>2, <2>3
  <1>2. CASE Purge
    BY <1>2 DEF Purge, Newest
  <1>3. CASE Handler \/ Close
    BY <1>3 DEF Newest, Messages, Close, Handler, Subscribe, Refuse, LastState, CreateConsumer,
                CountPending, FetchBatch, Receive, EndBatch, FetchDone, ReplayFails, SendReplay,
                GoLive, SendLive
  <1> QED BY <1>1, <1>2, <1>3 DEF StreamNext

\* Order step by step.
LEMMA OrderStep ==
    ASSUME StreamTypeOK, Order, StreamNext
    PROVE  Order'
  <1>0. /\ Messages \subseteq Nat /\ Matching \subseteq Messages /\ Ahead \subseteq Matching
        /\ inbox \in Seq(Messages) /\ out \in Seq(Messages)
        /\ inbox \in Seq(Nat) /\ out \in Seq(Nat)
        /\ Len(inbox) \in Nat /\ Len(out) \in Nat /\ Len(log) \in Nat
        /\ \A n \in Messages : log[n] \in Subjects
        /\ cursor \in Nat /\ left \in Nat /\ BatchSize \in Nat \ {0}
        /\ view \in [Subjects -> Nat] /\ target \in Nat
        /\ Ascending(<< >>)
    <2>1. Ascending(<< >>)
      BY DEF Ascending
    <2> QED BY <2>1, StreamFacts, StreamAssumption DEF StreamTypeOK
  <1>1. ASSUME NEW s \in Subjects, Publish(s) PROVE Order'
    <2>1. Ascending(inbox')
      <3>1. \A i \in 1 .. Len(inbox) : inbox[i] < Len(log) + 1
        BY <1>0, <1>1, Published1
      <3>2. Len(log) + 1 \in Nat /\ Ascending(inbox)
        BY <1>0 DEF Order
      <3>3. Ascending(Append(inbox, Len(log) + 1))
        BY <1>0, <3>1, <3>2, AscendingAppend
      <3> QED BY <1>1, <3>2, <3>3 DEF Publish
    <2>2. stage = "connecting" => inbox' = << >>
      BY <1>1 DEF Publish, Subscribed, Order
    <2>3. \A i \in 1 .. Len(out) : log'[out[i]] = log[out[i]]
      BY <1>0, <1>1, Published1
    <2>4. UNCHANGED <<stage, cursor, target, left, got_any, out, view>>
      BY <1>1 DEF Publish, replay
    <2> QED BY <2>1, <2>2, <2>3, <2>4 DEF Order, Reading, Fetching
  <1>2. CASE Purge \/ Close
    BY <1>2 DEF Purge, Close, Order, Reading, Fetching, replay
  <1>3. CASE Subscribe \/ Refuse \/ GoLive \/ FetchDone
    <2>1. UNCHANGED <<log, inbox, cursor, left, got_any, out, view>>
      BY <1>3 DEF Subscribe, Refuse, GoLive, FetchDone, replay
    <2>2. CASE Subscribe \/ Refuse \/ GoLive
      BY <2>1, <2>2 DEF Subscribe, Refuse, GoLive, Order, Reading, Fetching
    <2>3. CASE FetchDone
      <3>1. \A i \in 1 .. Len(out) : view[log[out[i]]] < out[i]
        <4>1. \A s \in Subjects : view[s] = 0
          BY <2>3 DEF FetchDone, Order, Reading
        <4>2. \A i \in 1 .. Len(out) : out[i] \in Messages /\ log[out[i]] \in Subjects
          BY <1>0
        <4>3. \A n \in Messages : 0 < n
          BY DEF Messages
        <4> QED BY <4>1, <4>2, <4>3
      <3> QED BY <2>1, <2>3, <3>1 DEF FetchDone, Order, Reading, Fetching
    <2> QED BY <1>3, <2>2, <2>3
  <1>4. CASE ReplayFails
    BY <1>0, <1>4 DEF ReplayFails, Order, Reading, Fetching, replay
  <1>5. CASE LastState
    <2>1. /\ \A s \in Subjects : view[s] = 0
          /\ UNCHANGED <<log, inbox, cursor, left, got_any, view>>
          /\ stage' = "send" /\ Ascending(inbox)
      BY <1>5 DEF LastState, Order, Reading, replay
    <2>2. /\ Ascending(out')
          /\ \A i \in 1 .. Len(out') : view[log[out'[i]]] < out'[i]
      <3>1. CASE out' = << >>
        BY <1>0, <3>1
      <3>2. ASSUME NEW n \in Matching, out' = <<n>>
            PROVE  /\ Ascending(out')
                   /\ \A i \in 1 .. Len(out') : view[log[out'[i]]] < out'[i]
        <4>1. n \in Messages /\ log[n] \in Subjects /\ 0 < n
          BY <1>0 DEF Messages
        <4> QED BY <2>1, <3>2, <4>1 DEF Ascending
      <3> QED BY <1>5, <3>1, <3>2 DEF LastState
    <2> QED BY <2>1, <2>2 DEF Order, Reading, Fetching
  <1>6. CASE CreateConsumer
    BY <1>6 DEF CreateConsumer, Order, Reading, Fetching
  <1>7. CASE CountPending
    <2>1. out = << >> /\ Len(out) = 0
      BY <1>7 DEF CountPending, Order
    <2> QED BY <1>7, <2>1 DEF CountPending, Order, Reading, Fetching
  <1>8. CASE FetchBatch
    <2>1. left' # 0
      BY <1>0, <1>8 DEF FetchBatch, Smaller
    <2> QED BY <1>8, <2>1 DEF FetchBatch, Order, Reading, Fetching
  <1>9. CASE Receive
    <2>1. cursor' \in Messages /\ cursor < cursor' /\ cursor' \in Nat
      <3>1. cursor' \in Ahead
        BY <1>0, <1>9, Least DEF Receive
      <3> QED BY <1>0, <3>1 DEF Ahead
    <2>2. \A i \in 1 .. Len(out) : out[i] \in Nat /\ out[i] < cursor'
      <3>1. \A i \in 1 .. Len(out) : out[i] \in Nat /\ out[i] <= cursor
        BY <1>0, <1>9 DEF Receive, Order, Fetching
      <3> QED BY <1>0, <2>1, <3>1
    <2>3. Ascending(out')
      BY <1>0, <1>9, <2>1, <2>2, AscendingAppend DEF Receive, Order
    <2>4. \A i \in 1 .. Len(out') : out'[i] \in Messages /\ out'[i] <= cursor'
      <3>1. /\ Len(out') = Len(out) + 1 /\ out'[Len(out) + 1] = cursor'
            /\ \A i \in 1 .. Len(out) : out'[i] = out[i] /\ out[i] \in Messages
        BY <1>0, <1>9, <2>1 DEF Receive
      <3>2. \A i \in 1 .. Len(out') : i \in 1 .. Len(out) \/ i = Len(out) + 1
        BY <1>0, <3>1
      <3> QED BY <2>1, <2>2, <3>1, <3>2
    <2>5. \A i \in 1 .. Len(out') : view[log[out'[i]]] < out'[i]
      <3>1. \A s \in Subjects : view[s] = 0
        BY <1>9 DEF Receive, Order, Reading
      <3>2. \A n \in Messages : 0 < n
        BY DEF Messages
      <3> QED BY <1>0, <2>4, <3>1, <3>2
    <2>6. /\ stage' \in {"batch", "send"} /\ got_any' = TRUE
          /\ UNCHANGED <<log, inbox, view>> /\ stage = "batch"
      BY <1>9 DEF Receive
    <2> QED BY <2>3, <2>4, <2>5, <2>6 DEF Order, Reading, Fetching
  <1>10. CASE EndBatch
    <2>1. \A i \in 1 .. Len(out) : view[log[out[i]]] < out[i]
      <3>1. \A s \in Subjects : view[s] = 0
        BY <1>10 DEF EndBatch, Order, Reading
      <3>2. \A n \in Messages : 0 < n
        BY DEF Messages
      <3> QED BY <1>0, <3>1, <3>2
    <2> QED BY <1>10, <2>1 DEF EndBatch, Order, Reading, Fetching
  <1>11. CASE SendReplay
    <2>1. /\ out # << >> /\ out' = Tail(out) /\ stage = "send" /\ Head(out) \in Messages
          /\ view' = [view EXCEPT ![log[Head(out)]] = Head(out)]
          /\ UNCHANGED <<stage, log, inbox, cursor, left, got_any>>
      BY <1>0, <1>11, InTail DEF SendReplay, Shows, replay
    <2>2. Ascending(out') /\ \A n \in Nat : InSeq(n, out') => Head(out) < n
      BY <1>0, <2>1, AscendingTail DEF Order
    <2>3. \A i \in 1 .. Len(out') : view'[log[out'[i]]] < out'[i]
      <3> SUFFICES ASSUME NEW i \in 1 .. Len(out') PROVE view'[log[out'[i]]] < out'[i]
        OBVIOUS
      <3> DEFINE n == out'[i]
      <3>1. InSeq(n, out')
        BY DEF InSeq
      <3>2. InSeq(n, out)
        BY <1>0, <2>1, <3>1, InTail
      <3>3. n \in Messages /\ log[n] \in Subjects /\ view[log[n]] < n
        <4>1. PICK j \in 1 .. Len(out) : out[j] = n
          BY <3>2 DEF InSeq
        <4>2. view[log[out[j]]] < out[j] /\ out[j] \in Messages
          BY <1>0, <2>1, <4>1 DEF Order
        <4> QED BY <1>0, <4>1, <4>2
      <3>4. Head(out) < n
        BY <1>0, <2>2, <3>1, <3>3
      <3> HIDE DEF n
      <3>5. view'[log[n]] < n
        BY <1>0, <2>1, <3>3, <3>4
      <3> QED BY <3>5 DEF n
    <2> QED BY <2>1, <2>2, <2>3 DEF Order, Reading, Fetching
  <1>12. CASE SendLive
    <2>1. Ascending(Tail(inbox))
      BY <1>0, <1>12, AscendingTail DEF SendLive, Order
    <2> QED BY <1>12, <2>1 DEF SendLive, Order, Reading, Fetching, replay
  <1> QED BY <1>1, <1>2, <1>3, <1>4, <1>5, <1>6, <1>7, <1>8, <1>9, <1>10, <1>11, <1>12
          DEF StreamNext, Handler

\* What a set of messages counts.
LEMMA Count ==
    ASSUME StreamTypeOK, NEW S \in SUBSET Messages, NEW T \in SUBSET S
    PROVE  /\ Cardinality(S) \in Nat /\ Cardinality(T) \in Nat
           /\ Cardinality(T) <= Cardinality(S)
           /\ Cardinality(S) = 0 => S = {}
           /\ \A n \in S : n \notin T => Cardinality(T) + 1 <= Cardinality(S)
  <1>1. IsFiniteSet(S) /\ IsFiniteSet(T)
    BY StreamFacts, FS_Subset
  <1>2. /\ Cardinality(S) \in Nat /\ Cardinality(T) \in Nat
        /\ Cardinality(T) <= Cardinality(S) /\ (Cardinality(S) = 0 => S = {})
    BY <1>1, FS_CardinalityType, FS_Subset, FS_EmptySet
  <1>3. ASSUME NEW n \in S, n \notin T PROVE Cardinality(T) + 1 <= Cardinality(S)
    <2>1. IsFiniteSet(S \ {n}) /\ Cardinality(S \ {n}) = Cardinality(S) - 1
      BY <1>1, FS_RemoveElement
    <2>2. Cardinality(T) <= Cardinality(S \ {n})
      BY <1>3, <2>1, FS_Subset
    <2> QED BY <1>2, <2>1, <2>2
  <1> QED BY <1>2, <1>3

\* A message that is published is heard, or the history excuses it.
LEMMA CompletePublish ==
    ASSUME StreamTypeOK, Order, Newest, Complete, ~excused, Subscribed,
           NEW s \in Subjects, Publish(s), ~excused'
    PROVE  Complete'
  <1> DEFINE new == Len(log) + 1
  <1>1. /\ Len(log) \in Nat /\ new \in Nat /\ new = Len(log) + 1
        /\ Messages' = Messages \cup {new}
        /\ \A m \in Messages : m \in Nat /\ log'[m] = log[m] /\ m < new /\ log[m] \in Subjects
        /\ log'[new] = s
        /\ view \in [Subjects -> 0 .. Len(log)] /\ new \notin Messages
    <2>1. Len(log) \in Nat /\ view \in [Subjects -> 0 .. Len(log)]
      BY StreamFacts DEF StreamTypeOK
    <2>2. new \in Nat /\ new \notin Messages
      BY <2>1 DEF Messages
    <2>3. \A m \in Messages : m \in Nat /\ log[m] \in Subjects
      BY StreamFacts
    <2> QED BY <2>1, <2>2, <2>3, Published1
  <1>2. UNCHANGED <<stage, topics, cursor, target, left, got_any, out, view>>
    BY DEF Publish, replay
  <1>3. ASSUME NEW n \in Matching'
        PROVE  \/ n = new /\ s \in topics
               \/ n \in Matching /\ n \in Messages /\ log[n] # s /\ log'[n] = log[n] /\ n < new
    <2>1. n \in stream' /\ log'[n] \in topics
      BY <1>2 DEF Matching
    <2>2. stream' = { m \in stream : log[m] # s } \cup {new} /\ stream \subseteq Messages
      BY Published1, StreamFacts
    <2> QED BY <1>1, <2>1, <2>2 DEF Matching
  <1>4. ASSUME NEW n
        PROVE  InSeq(n, inbox') <=> InSeq(n, inbox) \/ (s \in topics /\ n = new)
    <2>1. inbox \in Seq(Messages)
      BY StreamFacts
    <2>2. CASE s \in topics
      <3>1. Len(inbox) <= Buffer /\ Len(inbox) \in Nat /\ Buffer \in Nat
        BY StreamFacts, StreamAssumption DEF StreamTypeOK
      <3>2. ~ (Len(inbox) = Buffer)
        BY <2>2 DEF Publish
      <3>3. inbox' = Append(inbox, new)
        BY <2>2, <3>1, <3>2 DEF Publish
      <3>4. InSeq(n, Append(inbox, new)) <=> InSeq(n, inbox) \/ n = new
        BY <2>1, InAppend
      <3> QED BY <2>2, <3>3, <3>4
    <2>3. CASE s \notin topics
      BY <2>3 DEF Publish
    <2> QED BY <2>2, <2>3
  <1>5. \A n : InSeq(n, inbox) \/ InSeq(n, out) => n \in Messages
    BY StreamFacts
  <1>6. Followed
    BY DEF Complete
  <1> HIDE DEF new
  <1>7. ASSUME NEW h \in Messages', NEW n \in Messages', InSeq(h, inbox'),
               n \in Matching', log'[n] = log'[h]
        PROVE  InSeq(n, inbox')
    BY <1>1, <1>3, <1>4, <1>5, <1>6, <1>7 DEF Followed
  <1>8. ASSUME NEW h \in Messages', NEW n \in Messages', InSeq(h, out),
               n \in Matching', log'[n] = log'[h], n # h
        PROVE  InSeq(n, inbox')
    BY <1>1, <1>3, <1>4, <1>5, <1>6, <1>8 DEF Followed
  <1>9. ASSUME NEW h \in Messages', NEW n \in Messages', InSeq(h, inbox'),
               InSeq(n, out), log'[n] = log'[h], n > h
        PROVE  InSeq(n, inbox')
    <2>1. n \in Messages /\ n < new /\ h # new
      BY <1>1, <1>5, <1>9
    <2> QED BY <1>1, <1>4, <1>5, <1>6, <1>9, <2>1 DEF Followed
  <1>10. ASSUME NEW h \in Messages', InSeq(h, inbox'), view[log'[h]] > h
         PROVE  InSeq(view[log'[h]], inbox')
    <2>1. h # new
      BY <1>1, <1>10
    <2>2. h \in Messages /\ InSeq(h, inbox) /\ log'[h] = log[h]
      BY <1>1, <1>4, <1>10, <2>1
    <2> QED BY <1>4, <1>6, <1>10, <2>2 DEF Followed
  <1>11. Followed'
    BY <1>2, <1>7, <1>8, <1>9, <1>10 DEF Followed
  <1>12. Old' \subseteq Old
    BY <1>3, <1>4 DEF Old
  <1>13. Before'
    <2> SUFFICES ASSUME Reading', NEW m \in Old', NEW h \in Messages', InSeq(h, inbox')
                 PROVE  m < h
      BY DEF Before
    <2>1. m \in Old /\ m \in Messages
      BY <1>12, StreamFacts
    <2>2. Reading
      BY <1>2 DEF Reading
    <2>3. CASE h = new
      BY <1>1, <2>1, <2>3
    <2>4. CASE h # new
      BY <1>1, <1>4, <2>1, <2>2, <2>4 DEF Complete, Before
    <2> QED BY <2>3, <2>4
  <1>14. Covered'
    BY <1>2, <1>12 DEF Complete, Covered, Fetching
  <1>15. Counted'
    <2> SUFFICES ASSUME Fetching
                 PROVE  Len(out) + Cardinality({ n \in Old' : n > cursor }) <= target
      BY <1>2 DEF Counted, Fetching
    <2> DEFINE S == { n \in Old : n > cursor }
              T == { n \in Old' : n > cursor }
    <2>1. S \in SUBSET Messages /\ T \in SUBSET S
      BY <1>12, StreamFacts
    <2>2. Len(out) + Cardinality(S) <= target /\ Len(out) \in Nat /\ target \in Nat
      BY StreamFacts, StreamAssumption DEF Complete, Counted, StreamTypeOK
    <2> HIDE DEF S, T
    <2>3. /\ Cardinality(S) \in Nat /\ Cardinality(T) \in Nat
          /\ Cardinality(T) <= Cardinality(S)
      BY <2>1, Count
    <2>4. Len(out) + Cardinality(T) <= target
      BY <2>2, <2>3
    <2> QED BY <2>4 DEF T
  <1>16. NothingMissed'
    <2> SUFFICES ASSUME stage \in {"send", "live"}, NEW n \in Matching'
                 PROVE  view[log'[n]] = n \/ InSeq(n, out) \/ InSeq(n, inbox')
      BY <1>2 DEF NothingMissed
    <2> QED BY <1>3, <1>4 DEF Complete, NothingMissed
  <1> QED BY <1>11, <1>13, <1>14, <1>15, <1>16 DEF Complete

\* With nothing retained there is nothing to miss.
LEMMA CompletePurge ==
    ASSUME StreamTypeOK, Order, Complete, Purge
    PROVE  Complete'
  <1>1. Matching' = {} /\ Old' = {}
    BY DEF Purge, Matching, Old
  <1>2. UNCHANGED <<log, stage, topics, inbox, cursor, target, left, got_any, out, view>>
    BY DEF Purge, replay
  <1>3. Messages' = Messages
    BY <1>2 DEF Messages
  <1>4. Counted'
    <2>1. CASE Fetching
      <3>1. Len(out) + left <= target /\ Len(out) \in Nat /\ left \in Nat /\ target \in Nat
        BY <2>1, StreamFacts, StreamAssumption DEF StreamTypeOK, Fetching
      <3>2. { n \in Old' : n > cursor' } = {}
        BY <1>1
      <3> QED BY <1>2, <3>1, <3>2, FS_EmptySet DEF Counted
    <2>2. CASE ~Fetching
      BY <1>2, <2>2 DEF Counted, Fetching
    <2> QED BY <2>1, <2>2
  <1> QED BY <1>1, <1>2, <1>3, <1>4
          DEF Complete, Followed, Before, Covered, NothingMissed

\* What holds of the data while nothing is read or shown.
LEMMA CompleteQuiet ==
    ASSUME StreamTypeOK, Complete,
           UNCHANGED <<log, stream, topics, inbox, cursor, target, out, view>>,
           Reading' => Reading, Fetching' => Fetching, NothingMissed'
    PROVE  Complete'
  <1>1. Messages' = Messages /\ Matching' = Matching /\ Old' = Old
    BY DEF Messages, Matching, Old
  <1> QED BY <1>1 DEF Complete, Followed, Before, Covered, Counted

\* What is on the screen, and what is on the way to it, before the replay.
LEMMA CompleteSubscribe ==
    ASSUME StreamTypeOK, Order, Subscribe
    PROVE  Complete'
  <1>1. inbox' = << >> /\ out' = << >> /\ stage' = "replay"
    BY DEF Subscribe, Order
  <1>2. \A n : ~InSeq(n, inbox') /\ ~InSeq(n, out')
    BY <1>1 DEF InSeq
  <1> QED BY <1>1, <1>2
          DEF Complete, Followed, Before, Covered, Counted, NothingMissed, Fetching

\* Of a set with one element at most.
LEMMA AtMostOne ==
    ASSUME NEW S, IsFiniteSet(S), Cardinality(S) <= 1, NEW a \in S, NEW b \in S
    PROVE  a = b
  <1>1. IsFiniteSet(S \ {a}) /\ Cardinality(S \ {a}) = Cardinality(S) - 1
    BY FS_RemoveElement
  <1>2. Cardinality(S) \in Nat /\ Cardinality(S \ {a}) \in Nat
    BY <1>1, FS_CardinalityType
  <1>3. Cardinality(S \ {a}) = 0
    BY <1>1, <1>2
  <1>4. S \ {a} = {}
    BY <1>1, <1>3, FS_EmptySet
  <1> QED BY <1>4

\* The one retained message of the one subject is the whole replay.
LEMMA CompleteLastState ==
    ASSUME StreamTypeOK, Order, Complete, LastState
    PROVE  Complete'
  <1>1. /\ UNCHANGED <<log, stream, topics, inbox, view>>
        /\ stage = "replay" /\ stage' = "send" /\ Cardinality(topics) <= 1
        /\ (out' = << >> /\ Matching = {}) \/ (\E n \in Matching : out' = <<n>>)
    BY DEF LastState
  <1>2. Messages' = Messages /\ Matching' = Matching /\ Old' = Old
    BY <1>1 DEF Messages, Matching, Old
  <1>3. /\ \A m, n \in Matching : m = n
        /\ Matching \subseteq Messages
    <2>1. IsFiniteSet(topics)
      BY StreamAssumption, FS_Subset DEF StreamTypeOK
    <2>2. ASSUME NEW m \in Matching, NEW n \in Matching PROVE m = n
      <3>1. log[m] = log[n]
        BY <1>1, <2>1, AtMostOne DEF Matching
      <3> QED BY <3>1 DEF Matching, StreamTypeOK
    <2> QED BY <2>2, StreamFacts
  <1>4. \A n : InSeq(n, out') <=> n \in Matching
    <2>1. CASE out' = << >> /\ Matching = {}
      BY <2>1 DEF InSeq
    <2>2. ASSUME NEW m \in Matching, out' = <<m>>
          PROVE  \A n : InSeq(n, out') <=> n \in Matching
      <3>1. Len(out') = 1 /\ out'[1] = m
        BY <2>2
      <3>2. \A n : InSeq(n, out') <=> n = m
        BY <3>1 DEF InSeq
      <3> QED BY <1>3, <3>2
    <2> QED BY <1>1, <2>1, <2>2
  <1>5. Followed'
    BY <1>1, <1>2, <1>3, <1>4 DEF Complete, Followed
  <1>6. NothingMissed'
    BY <1>1, <1>2, <1>4 DEF NothingMissed
  <1> QED BY <1>1, <1>5, <1>6 DEF Complete, Before, Covered, Counted, Reading, Fetching

\* The count is of all the messages that only the replay can deliver.
LEMMA CompleteCount ==
    ASSUME StreamTypeOK, Order, Complete, CountPending, ~excused'
    PROVE  Complete'
  <1>1. /\ UNCHANGED <<log, stream, topics, inbox, out, view, cursor>>
        /\ stage = "count" /\ out = << >> /\ cursor = 0
        /\ stage' = IF Cardinality(Matching) = 0 THEN "send" ELSE "fetch"
    BY DEF CountPending, Order
  <1>2. Messages' = Messages /\ Matching' = Matching /\ Old' = Old
    BY <1>1 DEF Messages, Matching, Old
  <1>3. /\ Matching \in SUBSET Messages /\ Old \in SUBSET Matching
        /\ \A n \in Messages : n > 0 /\ n \in Nat
    BY StreamFacts DEF Messages
  <1>4. /\ Cardinality(Matching) \in Nat /\ Cardinality(Old) \in Nat
        /\ Cardinality(Old) <= Cardinality(Matching)
        /\ Cardinality(Matching) = 0 => Matching = {}
    BY <1>3, Count
  <1>5. target' = Cardinality(Matching)
    <2>1. ~ (Cardinality(Matching) > HardCap)
      BY DEF CountPending
    <2>2. HardCap \in Nat
      BY StreamAssumption
    <2> QED BY <1>4, <2>1, <2>2 DEF CountPending, Smaller
  <1>6. Counted'
    <2>1. { n \in Old' : n > cursor' } = Old
      BY <1>1, <1>2, <1>3
    <2>2. Len(out') = 0
      BY <1>1
    <2>3. Len(out') + Cardinality(Old) <= target'
      BY <1>4, <1>5, <2>2
    <2>4. Len(out') + Cardinality({ n \in Old' : n > cursor' }) <= target'
      BY <2>1, <2>3, Zenon
    <2> QED BY <2>4 DEF Counted
  <1>7. Covered'
    BY <1>1, <1>2, <1>3 DEF Covered
  <1>8. NothingMissed'
    BY <1>1, <1>2, <1>4 DEF NothingMissed
  <1>9. Followed'
    BY <1>1, <1>2 DEF Complete, Followed
  <1>10. Before'
    BY <1>1, <1>2 DEF Complete, Before, Reading
  <1> QED BY <1>6, <1>7, <1>8, <1>9, <1>10 DEF Complete

\* The replay ends with nothing old ahead: it was counted, and delivered first.
LEMMA ReplayEnds ==
    ASSUME StreamTypeOK, Complete, Fetching,
           Ahead = {} \/ Len(out) >= target
    PROVE  \A n \in Matching : InSeq(n, out) \/ InSeq(n, inbox)
  <1> DEFINE U == { n \in Old : n > cursor }
  <1>1. U \in SUBSET Messages /\ U \subseteq Ahead
    BY StreamFacts DEF Old, Ahead
  <1>2. Len(out) + Cardinality(U) <= target /\ Len(out) \in Nat /\ target \in Nat
    BY StreamFacts, StreamAssumption DEF Complete, Counted, StreamTypeOK
  <1> HIDE DEF U
  <1>3. Cardinality(U) \in Nat /\ (Cardinality(U) = 0 => U = {})
    BY <1>1, Count
  <1>4. U = {}
    <2>1. CASE Ahead = {}
      BY <1>1, <2>1
    <2>2. CASE Len(out) >= target
      <3>1. Cardinality(U) = 0
        BY <1>2, <1>3, <2>2
      <3> QED BY <1>3, <3>1
    <2> QED BY <2>1, <2>2
  <1>5. \A n \in Old : n > cursor \/ InSeq(n, out)
    BY DEF Complete, Covered
  <1> QED BY <1>4, <1>5 DEF Old, U

LEMMA CompleteEnd ==
    ASSUME StreamTypeOK, Order, Complete, EndBatch \/ FetchDone
    PROVE  Complete'
  <1>1. /\ UNCHANGED <<log, stream, topics, inbox, cursor, target, out, view>>
        /\ Fetching /\ stage' \in {"fetch", "send"}
    BY DEF EndBatch, FetchDone, Fetching, replay
  <1>2. NothingMissed'
    <2>1. CASE stage' = "fetch"
      BY <2>1 DEF NothingMissed
    <2>2. CASE stage' = "send"
      <3>1. Ahead = {} \/ Len(out) >= target
        BY <2>2 DEF EndBatch, FetchDone, Order
      <3>2. \A n \in Matching : InSeq(n, out) \/ InSeq(n, inbox)
        BY <1>1, <3>1, ReplayEnds
      <3> QED BY <1>1, <3>2 DEF NothingMissed, Matching
    <2> QED BY <1>1, <2>1, <2>2
  <1> QED BY <1>1, <1>2, CompleteQuiet DEF Fetching, Reading

\* The server delivers the old messages first, each once.
LEMMA CompleteReceive ==
    ASSUME StreamTypeOK, Order, Complete, Receive
    PROVE  Complete'
  <1>0. /\ UNCHANGED <<log, stream, topics, inbox, target, view>>
        /\ stage = "batch" /\ Ahead # {} /\ out' = Append(out, cursor')
        /\ stage' = (IF Len(out') >= HardCap THEN "send" ELSE "batch")
        /\ cursor' = Min(Ahead) /\ left > 0
    BY DEF Receive
  <1>1. Messages' = Messages /\ Matching' = Matching /\ Old' = Old
    BY <1>0 DEF Messages, Matching, Old
  <1>2. /\ Matching \subseteq Messages /\ Messages \subseteq Nat /\ out \in Seq(Messages)
        /\ cursor \in Nat /\ Old \subseteq Matching
        /\ \A n : InSeq(n, inbox) \/ InSeq(n, out) => n \in Messages
        /\ \A m, n \in Matching : log[m] = log[n] => m = n
    BY StreamFacts DEF StreamTypeOK, Matching
  <1>3. /\ cursor' \in Matching /\ cursor' \in Nat /\ cursor' > cursor
        /\ \A n \in Matching : n > cursor => cursor' <= n
    <2>1. Ahead \in SUBSET Nat
      BY StreamFacts
    <2>2. cursor' \in Ahead /\ \A n \in Ahead : cursor' <= n
      BY <1>0, <2>1, Least
    <2> QED BY <1>2, <2>2 DEF Ahead
  <1>4. \A n : InSeq(n, out') <=> InSeq(n, out) \/ n = cursor'
    BY <1>0, <1>2, InAppend
  <1>5. Len(out') = Len(out) + 1 /\ Len(out) \in Nat
    BY <1>0, <1>2, <1>3
  <1>6. Followed'
    <2>1. ASSUME NEW h \in Messages, NEW n \in Messages, InSeq(h, out'),
                 n \in Matching, log[n] = log[h], n # h
          PROVE  InSeq(n, inbox)
      BY <1>2, <1>3, <1>4, <2>1 DEF Complete, Followed
    <2>2. ASSUME NEW h \in Messages, NEW n \in Messages, InSeq(h, inbox),
                 InSeq(n, out'), log[n] = log[h], n > h
          PROVE  InSeq(n, inbox)
      BY <1>3, <1>4, <2>2 DEF Complete, Followed
    <2> QED BY <1>0, <1>1, <2>1, <2>2 DEF Complete, Followed
  <1>7. \A n \in Old : n > cursor' \/ InSeq(n, out')
    <2> SUFFICES ASSUME NEW n \in Old, ~(n > cursor') PROVE InSeq(n, out')
      OBVIOUS
    <2>1. n \in Matching /\ n \in Nat
      BY <1>2
    <2>2. CASE n > cursor
      BY <1>3, <1>4, <2>1, <2>2
    <2>3. CASE ~(n > cursor)
      BY <1>0, <1>4, <2>3 DEF Complete, Covered, Fetching
    <2> QED BY <2>2, <2>3
  <1>8. Len(out') + Cardinality({ n \in Old : n > cursor' }) <= target
    <2> DEFINE S == { n \in Old : n > cursor }
              T == { n \in Old : n > cursor' }
    <2>1. S \in SUBSET Messages /\ T \in SUBSET S /\ T \in SUBSET Messages
      <3>1. \A n \in Old : n \in Messages /\ n \in Nat
        BY <1>2
      <3>2. \A n \in Nat : n > cursor' => n > cursor
        BY <1>2, <1>3
      <3> QED BY <3>1, <3>2
    <2>2. Len(out) + Cardinality(S) <= target
      <3>1. Fetching
        BY <1>0 DEF Fetching
      <3> QED BY <3>1 DEF Complete, Counted
    <2>3. Len(out) + left <= target /\ left \in Nat /\ target \in Nat
      BY <1>0, StreamAssumption DEF StreamTypeOK
    <2>4. (cursor' \in S /\ cursor' \notin T) \/ T = {}
      <3>1. CASE cursor' \in Old
        BY <1>3, <3>1
      <3>2. CASE cursor' \notin Old
        <4>1. InSeq(cursor', inbox) /\ cursor' \in Messages
          BY <1>2, <1>3, <3>2 DEF Old
        <4>2. \A m \in Old : m < cursor'
          BY <1>0, <4>1 DEF Complete, Before, Reading
        <4>3. \A m \in Old : m \in Nat
          BY <1>2
        <4> QED BY <1>3, <4>2, <4>3
      <3> QED BY <3>1, <3>2
    <2> HIDE DEF S, T
    <2>5. CASE cursor' \in S /\ cursor' \notin T
      <3>1. /\ Cardinality(S) \in Nat /\ Cardinality(T) \in Nat
            /\ Cardinality(T) + 1 <= Cardinality(S)
        BY <2>1, <2>5, Count
      <3>2. Len(out') + Cardinality(T) <= target
        BY <1>5, <2>2, <2>3, <3>1
      <3> QED BY <3>2 DEF T
    <2>6. CASE T = {}
      <3>1. Cardinality(T) = 0
        BY <2>6, FS_EmptySet
      <3>2. Len(out') + Cardinality(T) <= target
        BY <1>0, <1>5, <2>3, <3>1
      <3> QED BY <3>2 DEF T
    <2> QED BY <2>4, <2>5, <2>6
  <1>9. Before'
    BY <1>0, <1>1 DEF Complete, Before, Reading
  <1>10. Covered' /\ Counted'
    <2>1. Covered'
      BY <1>1, <1>7 DEF Covered
    <2>2. Len(out') + Cardinality({ n \in Old' : n > cursor' }) <= target'
      BY <1>0, <1>1, <1>8, Zenon
    <2> QED BY <2>1, <2>2 DEF Counted
  <1>11. NothingMissed'
    <2> SUFFICES ASSUME stage' = "send", NEW n \in Matching
                 PROVE  InSeq(n, out') \/ InSeq(n, inbox)
      BY <1>0, <1>1 DEF NothingMissed
    <2> DEFINE T == { m \in Old : m > cursor' }
    <2>1. T \in SUBSET Messages
      BY <1>2
    <2>2. Len(out') + Cardinality(T) <= target /\ Len(out') >= HardCap /\ Len(out') \in Nat
          /\ target <= HardCap /\ target \in Nat /\ HardCap \in Nat
      BY <1>0, <1>5, <1>8, StreamAssumption DEF StreamTypeOK
    <2> HIDE DEF T
    <2>3. Cardinality(T) \in Nat /\ (Cardinality(T) = 0 => T = {})
      BY <2>1, Count
    <2>4. T = {}
      <3>1. Cardinality(T) = 0
        BY <2>2, <2>3
      <3> QED BY <2>3, <3>1
    <2> QED BY <1>7, <2>4 DEF T, Old
  <1> QED BY <1>6, <1>9, <1>10, <1>11 DEF Complete

\* What is shown of the replay leaves nothing behind that was on the screen.
LEMMA CompleteSendReplay ==
    ASSUME StreamTypeOK, Order, Complete, SendReplay
    PROVE  Complete'
  <1>0. /\ UNCHANGED <<log, stream, topics, inbox, stage>>
        /\ stage = "send" /\ out # << >> /\ out' = Tail(out)
        /\ view' = [view EXCEPT ![log[Head(out)]] = Head(out)]
    BY DEF SendReplay, Shows
  <1>1. Messages' = Messages /\ Matching' = Matching /\ Old' = Old
    BY <1>0 DEF Messages, Matching, Old
  <1>2. /\ \A n : InSeq(n, out') => InSeq(n, out)
        /\ \A n : InSeq(n, out) /\ n # Head(out) => InSeq(n, out')
        /\ InSeq(Head(out), out) /\ Head(out) \in Messages
    BY <1>0, StreamFacts, InTail
  <1>3. /\ \A n \in Messages : log[n] \in Subjects
        /\ \A n \in Messages :
              view'[log[n]] = IF log[n] = log[Head(out)] THEN Head(out) ELSE view[log[n]]
        /\ Matching \subseteq Messages
    <2>1. view \in [Subjects -> 0 .. Len(log)]
      BY DEF StreamTypeOK
    <2> QED BY <1>0, <2>1, StreamFacts
  <1>4. Followed'
    <2>1. ASSUME NEW h \in Messages, InSeq(h, inbox), view'[log[h]] > h
          PROVE  InSeq(view'[log[h]], inbox)
      BY <1>2, <1>3, <2>1 DEF Complete, Followed
    <2> QED BY <1>0, <1>1, <1>2, <2>1 DEF Complete, Followed
  <1>5. NothingMissed'
    <2> SUFFICES ASSUME NEW n \in Matching, ~excused
                 PROVE  view'[log[n]] = n \/ InSeq(n, out') \/ InSeq(n, inbox)
      BY <1>0, <1>1 DEF NothingMissed, SendReplay
    <2>1. view[log[n]] = n \/ InSeq(n, out) \/ InSeq(n, inbox)
      BY <1>0 DEF Complete, NothingMissed
    <2>2. CASE view[log[n]] = n /\ n # Head(out)
      <3>1. n \in Messages
        BY <1>3
      <3>2. log[n] = log[Head(out)] => InSeq(n, inbox)
        BY <1>2, <2>2, <3>1 DEF Complete, Followed
      <3> QED BY <1>3, <2>2, <3>1, <3>2
    <2>3. CASE n = Head(out)
      BY <1>2, <1>3, <2>3
    <2>4. CASE InSeq(n, out) /\ n # Head(out)
      BY <1>2, <2>4
    <2> QED BY <2>1, <2>2, <2>3, <2>4
  <1> QED BY <1>0, <1>1, <1>4, <1>5
          DEF Complete, Before, Covered, Counted, Reading, Fetching

\* What is shown of the subscription is followed there by what is retained.
LEMMA CompleteSendLive ==
    ASSUME StreamTypeOK, Order, Newest, Complete, SendLive
    PROVE  Complete'
  <1>0. /\ UNCHANGED <<log, stream, topics, out, stage>>
        /\ stage = "live" /\ inbox # << >> /\ inbox' = Tail(inbox) /\ out = << >>
        /\ view' = [view EXCEPT ![log[Head(inbox)]] = Head(inbox)]
    BY DEF SendLive, Shows, Order
  <1>1. Messages' = Messages /\ Matching' = Matching
    BY <1>0 DEF Messages, Matching
  <1>2. /\ \A n : InSeq(n, inbox') => InSeq(n, inbox)
        /\ \A n : InSeq(n, inbox) /\ n # Head(inbox) => InSeq(n, inbox')
        /\ InSeq(Head(inbox), inbox) /\ Head(inbox) \in Messages
    BY <1>0, StreamFacts, InTail
  <1>3. \A n \in Messages : InSeq(n, inbox') => Head(inbox) < n
    <2>1. inbox \in Seq(Nat) /\ Messages \subseteq Nat
      BY StreamFacts
    <2> QED BY <1>0, <2>1, AscendingTail DEF Order
  <1>4. /\ \A n \in Messages : log[n] \in Subjects /\ n \in Nat
        /\ \A n \in Messages :
              view'[log[n]] = IF log[n] = log[Head(inbox)] THEN Head(inbox) ELSE view[log[n]]
        /\ Matching \subseteq Messages /\ Matching \subseteq stream
        /\ \A n \in Messages : view[log[n]] \in Nat
        /\ \A n : ~InSeq(n, out)
        /\ \A n \in Matching : \A m \in Messages : log[m] = log[n] => m <= n
    <2>1. view \in [Subjects -> 0 .. Len(log)]
      BY DEF StreamTypeOK
    <2>2. /\ \A n \in Messages : log[n] \in Subjects /\ n \in Nat
          /\ Matching \subseteq Messages /\ Matching \subseteq stream
      BY StreamFacts
    <2>3. \A n \in Matching : \A m \in Messages : log[m] = log[n] => m <= n
      BY <2>2 DEF Newest
    <2>4. \A n : ~InSeq(n, out)
      BY <1>0 DEF InSeq
    <2> QED BY <1>0, <2>1, <2>2, <2>3, <2>4
  <1>5. ASSUME NEW h \in Messages, NEW n \in Messages, InSeq(h, inbox'),
               n \in Matching, log[n] = log[h]
        PROVE  InSeq(n, inbox')
    <2>1. InSeq(n, inbox)
      BY <1>2, <1>5 DEF Complete, Followed
    <2>2. Head(inbox) < h /\ h <= n
      BY <1>3, <1>4, <1>5
    <2>3. n # Head(inbox)
      BY <1>2, <1>4, <2>2
    <2> QED BY <1>2, <2>1, <2>3
  <1>6. ASSUME NEW h \in Messages, InSeq(h, inbox'), view'[log[h]] > h
        PROVE  InSeq(view'[log[h]], inbox')
    <2>1. Head(inbox) < h /\ h \in Nat /\ Head(inbox) \in Nat
      BY <1>2, <1>3, <1>4, <1>6
    <2>2. view'[log[h]] = view[log[h]] /\ view[log[h]] \in Nat
      BY <1>4, <1>6, <2>1
    <2>3. InSeq(view[log[h]], inbox)
      BY <1>2, <1>6, <2>2 DEF Complete, Followed
    <2>4. view[log[h]] # Head(inbox)
      BY <1>6, <2>1, <2>2
    <2> QED BY <1>2, <2>2, <2>3, <2>4
  <1>7. Followed'
    BY <1>0, <1>1, <1>4, <1>5, <1>6 DEF Followed
  <1>8. NothingMissed'
    <2> SUFFICES ASSUME NEW n \in Matching, ~excused
                 PROVE  view'[log[n]] = n \/ InSeq(n, inbox')
      BY <1>0, <1>1 DEF NothingMissed, SendLive
    <2>1. view[log[n]] = n \/ InSeq(n, inbox)
      BY <1>0, <1>4 DEF Complete, NothingMissed
    <2>2. CASE n = Head(inbox)
      BY <1>2, <1>4, <2>2
    <2>3. CASE n # Head(inbox) /\ InSeq(n, inbox)
      BY <1>2, <2>3
    <2>4. CASE n # Head(inbox) /\ view[log[n]] = n
      <3>1. log[n] = log[Head(inbox)] => InSeq(n, inbox)
        BY <1>2, <1>4 DEF Complete, Followed
      <3> QED BY <1>2, <1>4, <2>4, <3>1
    <2> QED BY <2>1, <2>2, <2>3, <2>4
  <1> QED BY <1>0, <1>7, <1>8 DEF Complete, Before, Covered, Counted, Reading, Fetching

\* What the handler owes the client is kept by every step.
LEMMA CompleteStep ==
    ASSUME StreamInv, StreamNext, Subscribed', ~excused'
    PROVE  Complete'
  <1>0. StreamTypeOK /\ Newest /\ Order /\ (Subscribed /\ ~excused => Complete)
    BY DEF StreamInv
  <1>1. CASE \E s \in Subjects : Publish(s)
    <2>1. PICK s \in Subjects : Publish(s)
      BY <1>1
    <2>2. Subscribed /\ ~excused
      BY <2>1 DEF Publish, Subscribed
    <2> QED BY <1>0, <2>1, <2>2, CompletePublish
  <1>2. CASE Subscribe
    BY <1>0, <1>2, CompleteSubscribe
  <1>3. CASE Refuse \/ Close \/ ReplayFails
    BY <1>3 DEF Refuse, Close, ReplayFails, Subscribed
  <1>4. CASE Purge
    <2>1. Complete
      BY <1>0, <1>4 DEF Purge, Subscribed
    <2> QED BY <1>0, <1>4, <2>1, CompletePurge
  <1>5. CASE LastState
    <2>1. Complete
      BY <1>0, <1>5 DEF LastState, Subscribed
    <2> QED BY <1>0, <1>5, <2>1, CompleteLastState
  <1>6. CASE CreateConsumer
    <2>1. Complete
      BY <1>0, <1>6 DEF CreateConsumer, Subscribed
    <2>2. /\ UNCHANGED <<log, stream, topics, inbox, out, view>>
          /\ stage = "replay" /\ stage' = "count"
      BY <1>6 DEF CreateConsumer
    <2>3. Messages' = Messages /\ Matching' = Matching /\ Old' = Old
      BY <2>2 DEF Messages, Matching, Old
    <2> QED BY <2>1, <2>2, <2>3
            DEF Complete, Followed, Before, Covered, Counted, NothingMissed, Reading, Fetching
  <1>7. CASE CountPending
    <2>1. Complete
      BY <1>0, <1>7 DEF CountPending, Subscribed
    <2> QED BY <1>0, <1>7, <2>1, CompleteCount
  <1>8. CASE FetchBatch
    <2>1. Complete
      BY <1>0, <1>8 DEF FetchBatch, Subscribed
    <2>2. /\ UNCHANGED <<log, stream, topics, inbox, cursor, target, out, view>>
          /\ stage = "fetch" /\ stage' = "batch"
      BY <1>8 DEF FetchBatch
    <2> QED BY <1>0, <2>1, <2>2, CompleteQuiet DEF NothingMissed, Reading, Fetching
  <1>9. CASE Receive
    <2>1. Complete
      BY <1>0, <1>9 DEF Receive, Subscribed
    <2> QED BY <1>0, <1>9, <2>1, CompleteReceive
  <1>10. CASE EndBatch \/ FetchDone
    <2>1. Complete
      BY <1>0, <1>10 DEF EndBatch, FetchDone, Subscribed
    <2> QED BY <1>0, <1>10, <2>1, CompleteEnd
  <1>11. CASE SendReplay
    <2>1. Complete
      BY <1>0, <1>11 DEF SendReplay, Subscribed
    <2> QED BY <1>0, <1>11, <2>1, CompleteSendReplay
  <1>12. CASE GoLive
    <2>1. Complete
      BY <1>0, <1>12 DEF GoLive, Subscribed
    <2>2. /\ UNCHANGED <<log, stream, topics, inbox, cursor, target, out, view, excused>>
          /\ stage = "send" /\ stage' = "live"
      BY <1>12 DEF GoLive, replay
    <2>3. NothingMissed'
      BY <2>1, <2>2 DEF Complete, NothingMissed, Matching
    <2> QED BY <1>0, <2>1, <2>2, <2>3, CompleteQuiet DEF Reading, Fetching
  <1>13. CASE SendLive
    <2>1. Complete
      BY <1>0, <1>13 DEF SendLive, Subscribed
    <2> QED BY <1>0, <1>13, <2>1, CompleteSendLive
  <1> QED BY <1>1, <1>2, <1>3, <1>4, <1>5, <1>6, <1>7, <1>8, <1>9, <1>10, <1>11, <1>12, <1>13
          DEF StreamNext, Handler

LEMMA StreamInitInv == StreamInit => StreamInv
  <1> SUFFICES ASSUME StreamInit PROVE StreamInv
    OBVIOUS
  <1>1. StreamTypeOK
    <2>1. /\ log = << >> /\ stream = {} /\ inbox = << >> /\ out = << >> /\ stage = "connecting"
          /\ topics = {} /\ cursor = 0 /\ target = 0 /\ left = 0 /\ got_any = FALSE
          /\ view = [s \in Subjects |-> 0] /\ excused = FALSE /\ purges = 0
      BY DEF StreamInit
    <2>2. << >> \in Seq(Subjects) /\ << >> \in Seq(Messages) /\ Len(<< >>) = 0
      BY EmptySeq
    <2>3. /\ 0 \in 0 .. HardCap /\ 0 \in 0 .. BatchSize /\ 0 \in 0 .. MaxPurges
          /\ 0 \in 0 .. Len(log) /\ Len(inbox) <= Buffer
      BY <2>1, <2>2, StreamAssumption
    <2>4. view \in [Subjects -> 0 .. Len(log)]
      BY <2>1, <2>3
    <2> QED BY <2>1, <2>2, <2>3, <2>4 DEF StreamTypeOK, Stages
  <1>2. Newest /\ Order /\ ~Subscribed
    BY DEF StreamInit, Newest, Order, Ascending, Reading, Fetching, Subscribed
  <1> QED BY <1>1, <1>2 DEF StreamInv

LEMMA StreamStep == StreamInv /\ [StreamNext]_streamVars => StreamInv'
  <1> SUFFICES ASSUME StreamInv, [StreamNext]_streamVars PROVE StreamInv'
    OBVIOUS
  <1>1. CASE StreamNext
    <2>1. StreamTypeOK /\ Newest /\ Order
      BY DEF StreamInv
    <2>2. StreamTypeOK' /\ Newest' /\ Order'
      BY <1>1, <2>1, StreamTypeStep, NewestStep, OrderStep
    <2>3. Subscribed' /\ ~excused' => Complete'
      BY <1>1, CompleteStep
    <2> QED BY <2>2, <2>3 DEF StreamInv
  <1>2. CASE UNCHANGED streamVars
    <2>1. UNCHANGED <<log, stream, stage, topics, inbox, cursor, target, left, got_any, out,
                      view, excused, purges>>
      BY <1>2 DEF streamVars, replay
    <2>2. Messages' = Messages /\ Matching' = Matching /\ Old' = Old
      BY <2>1 DEF Messages, Matching, Old
    <2>3. StreamTypeOK' /\ Newest' /\ Order'
      BY <2>1, <2>2 DEF StreamInv, StreamTypeOK, Newest, Order, Reading, Fetching
    <2>4. Subscribed' /\ ~excused' => Complete'
      BY <2>1, <2>2 DEF StreamInv, Complete, Followed, Before, Covered, Counted, NothingMissed,
                        Reading, Fetching, Subscribed
    <2> QED BY <2>3, <2>4 DEF StreamInv
  <1> QED BY <1>1, <1>2

LEMMA StreamInvariant == StreamSpec => []StreamInv
  BY StreamInitInv, StreamStep, PTL DEF StreamSpec

(***************************************************************************)
(* What the stream, the subscription, the replay and the screen hold are   *)
(* messages that were published; the subscription never exceeds its        *)
(* buffer, a batch never what is left of the count, and the stream retains *)
(* one message of a subject (handle_socket and last_state_wildcard).       *)
(***************************************************************************)
THEOREM StreamTypes == StreamSpec => []StreamTypeOK
  <1>1. StreamInv => StreamTypeOK
    BY DEF StreamInv
  <1> QED BY <1>1, StreamInvariant, PTL

(***************************************************************************)
(* Whatever devices publish during the replay, and however often the       *)
(* stream is purged: once the replay is read, the state retained of each   *)
(* subject is shown, in the replay or on the subscription, unless the      *)
(* replay failed, was truncated, or the subscription overflowed            *)
(* (handle_socket, last_state, last_state_wildcard).                       *)
(***************************************************************************)
THEOREM NothingFallsBetween == StreamSpec => []NothingMissed
  <1>1. StreamInv => NothingMissed
    BY DEF StreamInv, Complete, NothingMissed, Subscribed
  <1> QED BY <1>1, StreamInvariant, PTL

\* The screen goes back only when an older message is live.
LEMMA RewindStep ==
    ASSUME StreamInv, StreamInv', [StreamNext]_streamVars
    PROVE  \A s \in Subjects :
              view'[s] < view[s] /\ ~excused' => InSeq(view[s], inbox')
  <1> SUFFICES ASSUME NEW s \in Subjects, view'[s] < view[s], ~excused'
               PROVE  InSeq(view[s], inbox')
    OBVIOUS
  <1>0. /\ StreamTypeOK /\ Order /\ (Subscribed /\ ~excused => Complete)
        /\ view \in [Subjects -> 0 .. Len(log)] /\ view[s] \in Nat
    <2>1. view \in [Subjects -> 0 .. Len(log)] /\ Len(log) \in Nat
      BY StreamFacts DEF StreamInv, StreamTypeOK
    <2> QED BY <2>1 DEF StreamInv
  <1>1. CASE SendReplay
    <2>1. out # << >> /\ view' = [view EXCEPT ![log[Head(out)]] = Head(out)] /\ stage = "send"
      BY <1>1 DEF SendReplay, Shows
    <2>2. Head(out) = out[1] /\ 1 \in 1 .. Len(out) /\ Head(out) \in Messages
      BY <1>0, <2>1, StreamFacts, InTail, EmptySeq
    <2>3. view[log[Head(out)]] < Head(out) /\ Head(out) \in Nat
      BY <1>0, <2>1, <2>2, StreamFacts DEF Order
    <2>4. s = log[Head(out)] => view'[s] = Head(out)
      BY <1>0, <2>1
    <2>5. s # log[Head(out)] => view'[s] = view[s]
      BY <1>0, <2>1
    <2> QED BY <1>0, <2>3, <2>4, <2>5
  <1>2. CASE SendLive
    <2>1. /\ inbox # << >> /\ view' = [view EXCEPT ![log[Head(inbox)]] = Head(inbox)]
          /\ inbox' = Tail(inbox) /\ stage = "live" /\ ~excused
      BY <1>2 DEF SendLive, Shows
    <2>2. InSeq(Head(inbox), inbox) /\ Head(inbox) \in Messages /\ Head(inbox) \in Nat
      BY <1>0, <2>1, StreamFacts, InTail
    <2>3. s = log[Head(inbox)] /\ view'[s] = Head(inbox)
      BY <1>0, <2>1
    <2>4. InSeq(view[s], inbox)
      BY <1>0, <2>1, <2>2, <2>3 DEF Subscribed, Complete, Followed
    <2>5. view[s] # Head(inbox)
      BY <1>0, <2>2, <2>3
    <2> QED BY <1>0, <2>1, <2>4, <2>5, StreamFacts, InTail
  <1>3. CASE view' = view
    BY <1>0, <1>3
  <1>4. StreamNext /\ ~SendReplay /\ ~SendLive => view' = view
    BY DEF StreamNext, Handler, Publish, Purge, Close, Subscribe, Refuse, LastState,
           CreateConsumer, CountPending, FetchBatch, Receive, EndBatch, FetchDone, ReplayFails,
           GoLive
  <1> QED BY <1>1, <1>2, <1>3, <1>4 DEF streamVars

(***************************************************************************)
(* The screen may go back to an older state only when the newer one is     *)
(* still on the subscription behind it: in the end the client shows the    *)
(* newest (the live loop of handle_socket after its replay).               *)
(***************************************************************************)
THEOREM RewindsAreRepaired == StreamSpec => RewindIsRepaired
  BY StreamInvariant, RewindStep, PTL DEF StreamSpec, RewindIsRepaired

(***************************************************************************)
(* How many steps the handler has to make at most until it is live.  A     *)
(* batch that brought a message may be followed by another one, one that   *)
(* brought none may not.                                                   *)
(***************************************************************************)
ToRead == HardCap - Len(out)

StepsLeft ==
    CASE stage = "connecting" -> 4 * HardCap + 6
      [] stage = "replay" -> 4 * HardCap + 5
      [] stage = "count" -> 4 * HardCap + 4
      [] stage = "fetch" -> 3 * ToRead + HardCap + 3
      [] stage = "batch" -> 3 * ToRead + HardCap + (IF got_any THEN 4 ELSE 2)
      [] stage = "send" -> Len(out) + 1
      [] OTHER -> 0

ReplayShortens ==
    [][/\ StepsLeft' <= StepsLeft
       /\ Handler /\ stage \notin {"live", "closed"} => StepsLeft' < StepsLeft]_streamVars

LEMMA StepsCounted ==
    ASSUME StreamInv
    PROVE  StepsLeft \in Nat
  <1> DEFINE k == Len(out)
  <1>1. /\ HardCap \in Nat /\ k \in Nat
        /\ stage \in {"fetch", "batch"} => k <= HardCap
    BY StreamAssumption DEF StreamInv, StreamTypeOK
  <1> HIDE DEF k
  <1>2. CASE stage \in {"fetch", "batch"}
    <2>1. ToRead \in Nat
      BY <1>1, <1>2 DEF ToRead, k
    <2> QED BY <1>1, <1>2, <2>1 DEF StepsLeft
  <1>3. CASE stage = "send"
    BY <1>1, <1>3 DEF StepsLeft, k
  <1>4. CASE stage \notin {"fetch", "batch", "send"}
    BY <1>1, <1>4 DEF StepsLeft
  <1> QED BY <1>2, <1>3, <1>4

LEMMA StepsPositive ==
    ASSUME StreamInv, stage \in {"replay", "count", "fetch", "batch"}
    PROVE  StepsLeft > 0
  <1>1. HardCap \in Nat
    BY StreamAssumption
  <1>2. CASE stage \in {"fetch", "batch"}
    <2>1. ToRead \in Nat
      BY <1>1, <1>2 DEF StreamInv, StreamTypeOK, ToRead
    <2>2. PICK more \in {2, 3, 4} : StepsLeft = 3 * ToRead + HardCap + more
      <3>1. stage = "fetch" => StepsLeft = 3 * ToRead + HardCap + 3
        BY DEF StepsLeft
      <3>2. stage = "batch" /\ got_any => StepsLeft = 3 * ToRead + HardCap + 4
        BY DEF StepsLeft
      <3>3. stage = "batch" /\ ~got_any => StepsLeft = 3 * ToRead + HardCap + 2
        BY DEF StepsLeft
      <3> QED BY <1>2, <3>1, <3>2, <3>3
    <2> QED BY <1>1, <2>1, <2>2
  <1>3. CASE stage \in {"replay", "count"}
    BY <1>1, <1>3 DEF StepsLeft
  <1> QED BY <1>2, <1>3

\* The steps of the handler before it is live.
LEMMA HandlerShortens ==
    ASSUME StreamInv, Handler, stage \notin {"live", "closed"}
    PROVE  StepsLeft' < StepsLeft
  <1> DEFINE k == Len(out)
  <1>1. /\ HardCap \in Nat /\ HardCap > 0 /\ k \in Nat /\ left \in Nat /\ target \in 0 .. HardCap
        /\ stage \in {"fetch", "batch"} => k + left <= target
        /\ stage \in {"connecting", "replay", "count"} => out = << >>
        /\ out \in Seq(Messages)
    BY StreamAssumption DEF StreamInv, StreamTypeOK, Order
  <1>2. Len(<< >>) = 0
    OBVIOUS
  <1>3. CASE Subscribe \/ Refuse
    BY <1>1, <1>3 DEF Subscribe, Refuse, StepsLeft
  <1>4. CASE LastState
    <2>1. /\ out' = << >> \/ \E n \in Matching : out' = <<n>>
          /\ stage = "replay" /\ stage' = "send"
      BY <1>4 DEF LastState
    <2>2. PICK m \in {0, 1} : Len(out') = m
      BY <1>2, <2>1
    <2>3. StepsLeft' = m + 1
      BY <2>1, <2>2 DEF StepsLeft
    <2>4. StepsLeft = 4 * HardCap + 5
      BY <2>1 DEF StepsLeft
    <2> QED BY <1>1, <2>3, <2>4
  <1>5. CASE CreateConsumer
    BY <1>1, <1>5 DEF CreateConsumer, StepsLeft
  <1>6. CASE CountPending
    <2>1. k = 0 /\ out' = out /\ stage = "count" /\ stage' \in {"send", "fetch"}
      BY <1>1, <1>2, <1>6 DEF CountPending
    <2> QED BY <1>1, <2>1 DEF StepsLeft, ToRead
  <1>7. CASE FetchBatch
    <2>1. out' = out /\ stage = "fetch" /\ stage' = "batch" /\ ~got_any'
      BY <1>7 DEF FetchBatch
    <2> QED BY <1>1, <2>1 DEF StepsLeft, ToRead
  <1>8. CASE Receive
    <2>1. Len(out') = k + 1 /\ stage = "batch" /\ stage' \in {"batch", "send"} /\ got_any' /\ left > 0
      BY <1>1, <1>8 DEF Receive
    <2>2. k + 1 <= HardCap
      BY <1>1, <2>1
    <2>3. /\ StepsLeft = 3 * (HardCap - k) + HardCap + (IF got_any THEN 4 ELSE 2)
          /\ stage' = "send" => StepsLeft' = k + 2
          /\ stage' = "batch" => StepsLeft' = 3 * (HardCap - (k + 1)) + HardCap + 4
      BY <2>1 DEF StepsLeft, ToRead
    <2>4. StepsLeft >= 3 * (HardCap - k) + HardCap + 2
      BY <1>1, <2>3
    <2> HIDE DEF k
    <2>5. CASE stage' = "send"
      BY <1>1, <2>2, <2>3, <2>4, <2>5
    <2>6. CASE stage' = "batch"
      BY <1>1, <2>2, <2>3, <2>4, <2>6
    <2> QED BY <2>1, <2>5, <2>6
  <1>9. CASE EndBatch
    <2>1. /\ out' = out /\ stage = "batch" /\ stage' \in {"fetch", "send"}
          /\ stage' = "fetch" => got_any
      BY <1>9 DEF EndBatch
    <2>2. k <= HardCap
      BY <1>1, <2>1
    <2>3. CASE stage' = "fetch"
      <3>1. /\ StepsLeft = 3 * (HardCap - k) + HardCap + 4
            /\ StepsLeft' = 3 * (HardCap - k) + HardCap + 3
        BY <2>1, <2>3 DEF StepsLeft, ToRead
      <3> HIDE DEF k
      <3> QED BY <1>1, <2>2, <3>1
    <2>4. CASE stage' = "send"
      <3>1. /\ StepsLeft = 3 * (HardCap - k) + HardCap + (IF got_any THEN 4 ELSE 2)
            /\ StepsLeft' = k + 1
        BY <2>1, <2>4 DEF StepsLeft, ToRead
      <3>2. StepsLeft >= 3 * (HardCap - k) + HardCap + 2
        BY <1>1, <3>1
      <3> HIDE DEF k
      <3> QED BY <1>1, <2>2, <3>1, <3>2
    <2> QED BY <2>1, <2>3, <2>4
  <1>10. CASE FetchDone
    <2>1. out' = out /\ stage = "fetch" /\ stage' = "send"
      BY <1>10 DEF FetchDone
    <2>2. StepsLeft = 3 * (HardCap - k) + HardCap + 3 /\ StepsLeft' = k + 1
      BY <2>1 DEF StepsLeft, ToRead
    <2>3. k <= HardCap
      BY <1>1, <2>1
    <2> HIDE DEF k
    <2> QED BY <1>1, <2>2, <2>3
  <1>11. CASE ReplayFails
    <2>1. stage \in {"replay", "count", "fetch", "batch"} /\ stage' = "live"
      BY <1>11 DEF ReplayFails
    <2>2. StepsLeft' = 0
      BY <2>1 DEF StepsLeft
    <2>3. StepsLeft > 0
      BY <1>1, <2>1, StepsPositive
    <2> QED BY <2>2, <2>3
  <1>12. CASE SendReplay
    <2>1. k > 0 /\ Len(out') = k - 1 /\ stage = "send" /\ stage' = "send"
      BY <1>1, <1>12, InTail, EmptySeq DEF SendReplay
    <2> QED BY <1>1, <2>1 DEF StepsLeft
  <1>13. CASE GoLive
    BY <1>1, <1>13 DEF GoLive, StepsLeft
  <1>14. ~SendLive
    BY DEF SendLive
  <1> QED BY <1>3, <1>4, <1>5, <1>6, <1>7, <1>8, <1>9, <1>10, <1>11, <1>12, <1>13, <1>14 DEF Handler

(***************************************************************************)
(* The replay ends: the handler is live, or closed, after no more than     *)
(* four times the hard cap of its steps and six, however much is published *)
(* while it reads, and also when the stream holds less than was counted    *)
(* ("Stop instead of looping forever", last_state_wildcard).  This is      *)
(* GoesLive without the fairness.                                          *)
(***************************************************************************)
THEOREM ReplayIsFinite == StreamSpec => ReplayShortens /\ [](StepsLeft \in 0 .. 4 * HardCap + 6)
  <1> DEFINE Counts == StepsLeft \in Nat
             Few == StepsLeft \in 0 .. 4 * HardCap + 6
  <1>0. StreamInv => Counts
    BY StepsCounted
  <1>1. StreamInit => Few
    BY StreamAssumption DEF StreamInit, StepsLeft
  <1>2. ASSUME StreamInv, Counts, Counts', [StreamNext]_streamVars
        PROVE  /\ StepsLeft' <= StepsLeft
               /\ Handler /\ stage \notin {"live", "closed"} => StepsLeft' < StepsLeft
    <2>1. StepsLeft \in Nat /\ StepsLeft' \in Nat
      BY <1>2
    <2>2. CASE Handler /\ stage \notin {"live", "closed"}
      BY <1>2, <2>1, <2>2, HandlerShortens
    <2>3. CASE UNCHANGED <<stage, out, got_any>> /\ ~(Handler /\ stage \notin {"live", "closed"})
      <3>1. StepsLeft' = StepsLeft
        BY <2>3 DEF StepsLeft, ToRead
      <3> QED BY <2>1, <2>3, <3>1
    <2>4. CASE stage' \in {"live", "closed"} /\ ~(Handler /\ stage \notin {"live", "closed"})
      <3>1. StepsLeft' = 0
        BY <2>4 DEF StepsLeft
      <3> QED BY <2>1, <2>4, <3>1
    <2>5. (\E s \in Subjects : Publish(s)) \/ Purge \/ Close \/ SendLive \/ UNCHANGED streamVars
              => UNCHANGED <<stage, out, got_any>> \/ stage' \in {"live", "closed"}
      BY DEF Publish, Purge, Close, SendLive, streamVars, replay
    <2>6. Handler /\ stage \in {"live", "closed"} => SendLive
      BY DEF Handler, Subscribe, Refuse, LastState, CreateConsumer, CountPending, FetchBatch,
             Receive, EndBatch, FetchDone, ReplayFails, SendReplay, GoLive
    <2> QED BY <1>2, <2>2, <2>3, <2>4, <2>5, <2>6 DEF StreamNext
  <1>3. ASSUME StreamInv, Counts, Counts', [StreamNext]_streamVars, Few PROVE Few'
    <2>1. /\ StepsLeft' <= StepsLeft /\ StepsLeft \in Nat /\ StepsLeft' \in Nat
          /\ HardCap' = HardCap /\ HardCap \in Nat
      BY <1>2, <1>3, StreamAssumption
    <2> QED BY <1>3, <2>1
  <1> QED BY <1>0, <1>1, <1>2, <1>3, StreamInvariant, PTL DEF StreamSpec, ReplayShortens

-----------------------------------------------------------------------------
(***************************************************************************)
(* The requests of the gateway.                                            *)
(***************************************************************************)
Turned == \A i, j \in 1 .. Published : i <= j => turned[i] <= turned[j]

\* An answer on its way holds a document that was published when the request
\* was sent, or later.
Asked ==
    \A r \in Requests :
        /\ req[r].phase \in {"asked", "carried"} => req[r].asked <= now
        /\ req[r].phase = "carried" =>
              /\ req[r].doc \in 1 .. Published
              /\ req[r].doc < Published => req[r].asked <= turned[req[r].doc + 1]

\* By how much the cache is behind.
Trusted ==
    jwks.doc \in 1 .. Published - 1 => jwks.fetched_at <= turned[jwks.doc + 1] + FetchTimeout

JustStored ==
    \A r \in Requests : req[r].phase = "stored" => jwks.doc # 0 /\ jwks.fetched_at = now

GatewayInv ==
    /\ GatewayTypeOK /\ DOMAIN req = Requests
    /\ Turned /\ Asked /\ Trusted /\ JustStored

\* Where one request may stand.
Stands(q) ==
    \/ q = Idle
    \/ q \in [phase : {"done"}, status : Statuses]
    \/ /\ q \in Fetch
       /\ q.phase \in {"asked", "carried"} => now <= q.asked + FetchTimeout

\* A step of one request: the others stay where they are.
Moves(r) ==
    /\ DOMAIN req' = Requests
    /\ \A x \in Requests : x # r => req'[x] = req[x]

\* The server drops what it was doing for r.
Drop(r) ==
    /\ req' = [req EXCEPT ![r] = Idle]
    /\ UNCHANGED <<now, turned, jwks>>

GatewayStep ==
    \/ Turn \/ Tick
    \/ \E r \in Requests :
          (\E k \in Kids : Arrive(r, k)) \/ Turnaway(r) \/ Handle(r) \/ Drop(r)
    \/ UNCHANGED gatewayVars

LEMMA DecodeAnswers ==
    ASSUME DOMAIN req = Requests, NEW r \in Requests, Decode(r)
    PROVE  Moves(r) /\ \E st \in Statuses : req'[r] = Answered(st)
  <1>1. PICK st \in {401} \cup (IF r \in Streams THEN {101} ELSE RestStatuses) :
           req' = [req EXCEPT ![r] = Answered(st)]
    BY DEF Decode
  <1>2. st \in Statuses
    BY <1>1 DEF Statuses
  <1>3. Moves(r) /\ req'[r] = Answered(st)
    BY <1>1 DEF Moves
  <1> QED BY <1>2, <1>3

\* What a lookup or an answer of the issuer makes of a request.
LEMMA HandleMoves ==
    ASSUME GatewayTypeOK, DOMAIN req = Requests, NEW r \in Requests, Handle(r)
    PROVE  /\ Moves(r) /\ UNCHANGED <<now, turned>>
           /\ \/ \E st \in Statuses : req'[r] = Answered(st)
              \/ /\ Refresh(r)
                 /\ req[r] \in Fetch
                 /\ req'[r] = [phase |-> "asked", kid |-> req[r].kid, asked |-> now,
                               doc |-> req[r].doc]
              \/ /\ IssuerAnswers(r)
                 /\ req[r] \in Fetch
                 /\ req'[r] = [phase |-> "carried", kid |-> req[r].kid, asked |-> req[r].asked,
                               doc |-> Published]
              \/ /\ Store(r)
                 /\ req[r] \in Fetch
                 /\ req'[r] = [phase |-> "stored", kid |-> req[r].kid, asked |-> 0, doc |-> 0]
           /\ jwks' # jwks => Store(r)
  <1>1. req[r].phase \in {"lookup", "asked", "carried", "stored"} => req[r] \in Fetch
    BY DEF GatewayTypeOK, Idle
  <1>2. \A err \in {"Jwks", "UnknownKid"} : AuthStatus(r, err) \in Statuses
    BY DEF AuthStatus, Statuses
  <1>3. CASE LookupHit(r)
    BY <1>3, DecodeAnswers DEF LookupHit
  <1>4. CASE Refresh(r)
    <2>1. /\ req[r].phase = "lookup" /\ UNCHANGED <<now, turned, jwks>>
          /\ req' = [req EXCEPT ![r].phase = "asked", ![r].asked = now]
      BY <1>4 DEF Refresh
    <2>2. Moves(r)
      BY <2>1 DEF Moves
    <2>3. req'[r] = [phase |-> "asked", kid |-> req[r].kid, asked |-> now, doc |-> req[r].doc]
      BY <1>1, <2>1 DEF Fetch
    <2> QED BY <1>1, <1>4, <2>1, <2>2, <2>3
  <1>5. CASE IssuerAnswers(r)
    <2>1. /\ req[r].phase = "asked" /\ UNCHANGED <<now, turned, jwks>>
          /\ req' = [req EXCEPT ![r].phase = "carried", ![r].doc = Published]
      BY <1>5 DEF IssuerAnswers
    <2>2. Moves(r)
      BY <2>1 DEF Moves
    <2>3. req'[r] = [phase |-> "carried", kid |-> req[r].kid, asked |-> req[r].asked,
                     doc |-> Published]
      BY <1>1, <2>1 DEF Fetch
    <2> QED BY <1>1, <1>5, <2>1, <2>2, <2>3
  <1>6. CASE FetchFails(r)
    BY <1>2, <1>6 DEF FetchFails, Moves
  <1>7. CASE Store(r)
    <2>1. /\ req[r].phase = "carried" /\ UNCHANGED <<now, turned>>
          /\ req' = [req EXCEPT ![r].phase = "stored", ![r].asked = 0, ![r].doc = 0]
      BY <1>7 DEF Store
    <2>2. Moves(r)
      BY <2>1 DEF Moves
    <2>3. req'[r] = [phase |-> "stored", kid |-> req[r].kid, asked |-> 0, doc |-> 0]
      BY <1>1, <2>1 DEF Fetch
    <2> QED BY <1>1, <1>7, <2>1, <2>2, <2>3
  <1>8. CASE LookAgain(r)
    <2>1. CASE Cached(req[r].kid)
      BY <1>8, <2>1, DecodeAnswers DEF LookAgain
    <2>2. CASE ~Cached(req[r].kid)
      BY <1>2, <1>8, <2>2 DEF LookAgain, Moves
    <2> QED BY <2>1, <2>2
  <1> QED BY <1>3, <1>4, <1>5, <1>6, <1>7, <1>8 DEF Handle

\* The types of the requests follow from that of the one that moves.
LEMMA OneMoves ==
    ASSUME GatewayTypeOK, NEW r \in Requests, Moves(r), Stands(req'[r]),
           UNCHANGED <<now, turned>>,
           jwks' = jwks \/ jwks' \in [doc : 0 .. Published, fetched_at : 0 .. now]
    PROVE  GatewayTypeOK' /\ DOMAIN req' = Requests
  <1>1. Published' = Published
    BY DEF Published
  <1>2. \A x \in Requests : Stands(req'[x])
    BY DEF Moves, GatewayTypeOK, Stands
  <1>3. /\ now' \in 0 .. MaxNow
        /\ turned' \in Seq(0 .. now') /\ Published' \in 1 .. Len(Docs)
        /\ jwks' \in [doc : 0 .. Published', fetched_at : 0 .. now']
    BY <1>1 DEF GatewayTypeOK
  <1> QED BY <1>2, <1>3 DEF Moves, GatewayTypeOK, Stands

LEMMA GatewayTypeStep ==
    ASSUME GatewayTypeOK, DOMAIN req = Requests, Asked, GatewayStep
    PROVE  GatewayTypeOK' /\ DOMAIN req' = Requests
  <1>0. /\ now \in 0 .. MaxNow /\ now \in Nat /\ turned \in Seq(0 .. now)
        /\ Published \in 1 .. Len(Docs) /\ Len(Docs) \in Nat
        /\ jwks \in [doc : 0 .. Published, fetched_at : 0 .. now]
        /\ \A r \in Requests : Stands(req[r])
        /\ FetchTimeout \in Nat /\ MaxNow \in Nat
    BY GatewayAssumption DEF GatewayTypeOK, Stands
  <1>1. CASE Turn
    <2>1. turned' = Append(turned, now) /\ Published < Len(Docs) /\ UNCHANGED <<now, jwks, req>>
      BY <1>1 DEF Turn
    <2>2. turned' \in Seq(0 .. now) /\ Published' = Published + 1
      BY <1>0, <2>1 DEF Published
    <2>3. Published' \in 1 .. Len(Docs) /\ \A d \in 0 .. Published : d \in 0 .. Published'
      BY <1>0, <2>1, <2>2
    <2>4. jwks' \in [doc : 0 .. Published', fetched_at : 0 .. now]
      BY <1>0, <2>1, <2>3
    <2> QED BY <1>0, <2>1, <2>2, <2>3, <2>4 DEF GatewayTypeOK, Stands
  <1>2. CASE Tick
    <2>1. now < MaxNow /\ now' = now + 1 /\ UNCHANGED <<turned, jwks, req>>
      BY <1>2 DEF Tick
    <2>2. now' \in 0 .. MaxNow /\ \A t \in 0 .. now : t \in 0 .. now'
      BY <1>0, <2>1
    <2>3. turned \in Seq(0 .. now') /\ Published' = Published
      BY <1>0, <2>1, <2>2 DEF Published
    <2>4. jwks \in [doc : 0 .. Published, fetched_at : 0 .. now']
      BY <1>0, <2>2
    <2>5. ASSUME NEW r \in Requests, req[r] \in Fetch, req[r].phase \in {"asked", "carried"}
          PROVE  now' <= req[r].asked + FetchTimeout
      <3>1. now < req[r].asked + FetchTimeout
        BY <1>2, <2>5 DEF Tick
      <3>2. req[r].asked \in Nat
        BY <2>5 DEF Fetch
      <3> QED BY <1>0, <2>1, <3>1, <3>2
    <2> QED BY <1>0, <2>1, <2>2, <2>3, <2>4, <2>5 DEF GatewayTypeOK, Stands
  <1>3. ASSUME NEW r \in Requests, Turnaway(r) \/ Drop(r)
        PROVE  GatewayTypeOK' /\ DOMAIN req' = Requests
    <2>1. Moves(r) /\ UNCHANGED <<now, turned, jwks>>
      BY <1>3 DEF Turnaway, Drop, Moves
    <2>2. req'[r] = Answered(401) \/ req'[r] = Idle
      BY <1>3 DEF Turnaway, Drop
    <2>3. Stands(req'[r])
      BY <2>2 DEF Stands, Answered, Statuses
    <2> QED BY <2>1, <2>3, OneMoves
  <1>4. ASSUME NEW r \in Requests, NEW k \in Kids, Arrive(r, k)
        PROVE  GatewayTypeOK' /\ DOMAIN req' = Requests
    <2>1. Moves(r) /\ UNCHANGED <<now, turned, jwks>>
      BY <1>4 DEF Arrive, Moves
    <2>2. req'[r] = [phase |-> "lookup", kid |-> k, asked |-> 0, doc |-> 0]
      BY <1>4 DEF Arrive
    <2>3. 0 \in 0 .. MaxNow /\ 0 \in 0 .. Len(Docs)
      BY <1>0
    <2>4. Stands(req'[r])
      BY <2>2, <2>3 DEF Stands, Fetch
    <2> QED BY <2>1, <2>4, OneMoves
  <1>5. ASSUME NEW r \in Requests, Handle(r)
        PROVE  GatewayTypeOK' /\ DOMAIN req' = Requests
    <2>1. Moves(r) /\ UNCHANGED <<now, turned>>
      BY <1>5, HandleMoves
    <2>2. Stands(req'[r])
      <3>1. 0 \in 0 .. MaxNow /\ 0 \in 0 .. Len(Docs) /\ Published \in 0 .. Len(Docs)
            /\ now <= now + FetchTimeout
        BY <1>0
      <3>2. CASE \E st \in Statuses : req'[r] = Answered(st)
        BY <3>2 DEF Stands, Answered
      <3>3. CASE req[r] \in Fetch /\ req'[r] = [phase |-> "asked", kid |-> req[r].kid,
                                               asked |-> now, doc |-> req[r].doc]
        BY <1>0, <3>1, <3>3 DEF Stands, Fetch
      <3>4. CASE IssuerAnswers(r) /\ req[r] \in Fetch
                 /\ req'[r] = [phase |-> "carried", kid |-> req[r].kid,
                               asked |-> req[r].asked, doc |-> Published]
        <4>1. now <= req[r].asked + FetchTimeout
          BY <1>0, <3>4 DEF IssuerAnswers, Stands, Idle
        <4> QED BY <3>1, <3>4, <4>1 DEF Stands, Fetch
      <3>5. CASE req[r] \in Fetch
                 /\ req'[r] = [phase |-> "stored", kid |-> req[r].kid, asked |-> 0, doc |-> 0]
        BY <3>1, <3>5 DEF Stands, Fetch
      <3> QED BY <1>5, <3>2, <3>3, <3>4, <3>5, HandleMoves
    <2>3. CASE Store(r)
      <3>1. req[r].phase = "carried" /\ jwks' = [doc |-> req[r].doc, fetched_at |-> now]
        BY <2>3 DEF Store
      <3>2. req[r].doc \in 0 .. Published /\ now \in 0 .. now
        BY <1>0, <3>1 DEF Asked
      <3> QED BY <2>1, <2>2, <3>1, <3>2, OneMoves
    <2> QED BY <1>5, <2>1, <2>2, <2>3, HandleMoves, OneMoves
  <1>6. CASE UNCHANGED gatewayVars
    BY <1>6 DEF gatewayVars, GatewayTypeOK, Published
  <1> QED BY <1>1, <1>2, <1>3, <1>4, <1>5, <1>6 DEF GatewayStep

\* A document that is published changes nothing about the earlier ones.
LEMMA TurnAppends ==
    ASSUME GatewayTypeOK, Turn
    PROVE  /\ Published' = Published + 1 /\ Published \in Nat \ {0}
           /\ turned'[Published + 1] = now /\ now \in Nat
           /\ \A d \in 1 .. Published : turned'[d] = turned[d] /\ turned[d] \in 0 .. now
           /\ UNCHANGED <<now, jwks, req>>
  <1>1. turned \in Seq(0 .. now) /\ Published \in Nat \ {0} /\ now \in Nat
    BY GatewayAssumption DEF GatewayTypeOK, Published
  <1>2. turned' = Append(turned, now) /\ UNCHANGED <<now, jwks, req>>
    BY DEF Turn
  <1>3. Published' = Published + 1 /\ turned'[Published + 1] = now
    BY <1>1, <1>2 DEF Published
  <1>4. \A d \in 1 .. Published : turned'[d] = turned[d] /\ turned[d] \in 0 .. now
    BY <1>1, <1>2 DEF Published
  <1> QED BY <1>1, <1>2, <1>3, <1>4

\* All but the issuer leave its documents alone.
LEMMA NoTurn ==
    ASSUME GatewayTypeOK, DOMAIN req = Requests, GatewayStep, ~Turn
    PROVE  UNCHANGED turned /\ Published' = Published
  <1>1. ASSUME NEW r \in Requests, Handle(r) PROVE UNCHANGED turned
    BY <1>1, HandleMoves
  <1>2. UNCHANGED turned
    BY <1>1 DEF GatewayStep, Tick, Arrive, Turnaway, Drop, gatewayVars
  <1> QED BY <1>2 DEF Published

LEMMA TurnedStep ==
    ASSUME GatewayTypeOK, DOMAIN req = Requests, Turned, GatewayStep
    PROVE  Turned'
  <1>1. CASE Turn
    <2> SUFFICES ASSUME NEW i \in 1 .. Published', NEW j \in 1 .. Published', i <= j
                 PROVE  turned'[i] <= turned'[j]
      BY DEF Turned
    <2>1. /\ Published' = Published + 1 /\ Published \in Nat
          /\ turned'[Published + 1] = now /\ now \in Nat
          /\ \A d \in 1 .. Published : turned'[d] = turned[d] /\ turned[d] \in 0 .. now
      BY <1>1, TurnAppends
    <2>2. CASE j \in 1 .. Published
      <3>1. i \in 1 .. Published
        BY <2>1, <2>2
      <3> QED BY <2>1, <2>2, <3>1 DEF Turned
    <2>3. CASE j = Published + 1 /\ i \in 1 .. Published
      BY <2>1, <2>3
    <2>4. CASE j = Published + 1 /\ i = j
      BY <2>1, <2>4
    <2> QED BY <2>1, <2>2, <2>3, <2>4
  <1>2. CASE ~Turn
    BY <1>2, NoTurn DEF Turned
  <1> QED BY <1>1, <1>2

LEMMA AskedStep ==
    ASSUME GatewayTypeOK, DOMAIN req = Requests, Asked, GatewayStep
    PROVE  Asked'
  <1> SUFFICES ASSUME NEW x \in Requests
               PROVE  /\ req'[x].phase \in {"asked", "carried"} => req'[x].asked <= now'
                      /\ req'[x].phase = "carried" =>
                            /\ req'[x].doc \in 1 .. Published'
                            /\ req'[x].doc < Published' =>
                                  req'[x].asked <= turned'[req'[x].doc + 1]
    BY DEF Asked
  <1>0. /\ req[x].phase \in {"asked", "carried"} => req[x].asked <= now /\ req[x].asked \in Nat
        /\ req[x].phase = "carried" =>
              /\ req[x].doc \in 1 .. Published
              /\ req[x].doc < Published => req[x].asked <= turned[req[x].doc + 1]
        /\ now \in Nat /\ Published \in Nat \ {0}
    <2>1. /\ req[x].phase \in {"asked", "carried"} => req[x].asked <= now
          /\ req[x].phase = "carried" =>
                /\ req[x].doc \in 1 .. Published
                /\ req[x].doc < Published => req[x].asked <= turned[req[x].doc + 1]
      BY DEF Asked
    <2>2. now \in Nat /\ Published \in Nat \ {0}
      BY GatewayAssumption DEF GatewayTypeOK
    <2>3. req[x].phase \in {"asked", "carried"} => req[x].asked \in Nat
      BY GatewayAssumption DEF GatewayTypeOK, Idle, Fetch
    <2> QED BY <2>1, <2>2, <2>3
  <1>1. CASE Turn
    <2>1. /\ Published' = Published + 1 /\ turned'[Published + 1] = now
          /\ \A d \in 1 .. Published : turned'[d] = turned[d]
          /\ now' = now /\ req' = req
      BY <1>1, TurnAppends
    <2>2. ASSUME req[x].phase = "carried"
          PROVE  /\ req[x].doc \in 1 .. Published'
                 /\ req[x].asked <= turned'[req[x].doc + 1]
      <3>1. req[x].doc \in 1 .. Published
        BY <1>0, <2>2
      <3>2. CASE req[x].doc = Published
        BY <1>0, <2>1, <2>2, <3>1, <3>2
      <3>3. CASE req[x].doc < Published
        <4>1. req[x].doc + 1 \in 1 .. Published
          BY <1>0, <3>1, <3>3
        <4> QED BY <1>0, <2>1, <2>2, <3>1, <3>3, <4>1
      <3> QED BY <1>0, <3>1, <3>2, <3>3
    <2> QED BY <1>0, <2>1, <2>2
  <1>2. CASE Tick
    <2>1. now' = now + 1 /\ turned' = turned /\ req' = req /\ Published' = Published
      BY <1>2 DEF Tick, Published
    <2> QED BY <1>0, <2>1
  <1>3. CASE UNCHANGED gatewayVars
    BY <1>0, <1>3 DEF gatewayVars, Published
  <1>4. ASSUME NEW r \in Requests,
               (\E k \in Kids : Arrive(r, k)) \/ Turnaway(r) \/ Drop(r)
        PROVE  /\ UNCHANGED <<now, turned>> /\ Published' = Published
               /\ req'[x] = req[x] \/ req'[x].phase \notin {"asked", "carried"}
    BY <1>4 DEF Arrive, Turnaway, Drop, Published, Idle, Answered
  <1>5. ASSUME NEW r \in Requests, Handle(r)
        PROVE  /\ UNCHANGED <<now, turned>> /\ Published' = Published
               /\ \/ req'[x] = req[x] \/ req'[x].phase \notin {"asked", "carried"}
                  \/ req'[x].phase = "asked" /\ req'[x].asked = now
                  \/ /\ req'[x].phase = "carried" /\ req'[x].doc = Published
                     /\ req[x].phase = "asked" /\ req'[x].asked = req[x].asked
    <2>1. Moves(r) /\ UNCHANGED <<now, turned>>
      BY <1>5, HandleMoves
    <2>2. CASE x # r
      BY <2>1, <2>2 DEF Moves, Published
    <2>3. CASE x = r
      <3>1. CASE \E st \in Statuses : req'[r] = Answered(st)
        BY <2>1, <2>3, <3>1 DEF Answered, Published
      <3>2. CASE req'[r] = [phase |-> "asked", kid |-> req[r].kid, asked |-> now,
                            doc |-> req[r].doc]
        BY <2>1, <2>3, <3>2 DEF Published
      <3>3. CASE IssuerAnswers(r)
                 /\ req'[r] = [phase |-> "carried", kid |-> req[r].kid,
                               asked |-> req[r].asked, doc |-> Published]
        BY <2>1, <2>3, <3>3 DEF IssuerAnswers, Published
      <3>4. CASE req'[r] = [phase |-> "stored", kid |-> req[r].kid, asked |-> 0, doc |-> 0]
        BY <2>1, <2>3, <3>4 DEF Published
      <3> QED BY <1>5, <3>1, <3>2, <3>3, <3>4, HandleMoves
    <2> QED BY <2>2, <2>3
  <1> QED BY <1>0, <1>1, <1>2, <1>3, <1>4, <1>5 DEF GatewayStep

LEMMA TrustedStep ==
    ASSUME GatewayTypeOK, DOMAIN req = Requests, Asked, Trusted, GatewayStep
    PROVE  Trusted'
  <1>0. /\ jwks.doc \in 0 .. Published /\ jwks.fetched_at \in 0 .. now
        /\ now \in Nat /\ Published \in Nat \ {0} /\ FetchTimeout \in Nat
    BY GatewayAssumption DEF GatewayTypeOK
  <1>1. CASE Turn
    <2>1. /\ Published' = Published + 1 /\ turned'[Published + 1] = now
          /\ \A d \in 1 .. Published : turned'[d] = turned[d]
          /\ now' = now /\ jwks' = jwks
      BY <1>1, TurnAppends
    <2> SUFFICES ASSUME jwks.doc \in 1 .. Published
                 PROVE  jwks.fetched_at <= turned'[jwks.doc + 1] + FetchTimeout
      BY <1>0, <2>1 DEF Trusted
    <2>2. CASE jwks.doc = Published
      BY <1>0, <2>1, <2>2
    <2>3. CASE jwks.doc \in 1 .. Published - 1
      <3>1. jwks.doc + 1 \in 1 .. Published
        BY <1>0, <2>3
      <3>2. jwks.fetched_at <= turned[jwks.doc + 1] + FetchTimeout
        BY <2>3 DEF Trusted
      <3> QED BY <2>1, <3>1, <3>2
    <2> QED BY <1>0, <2>2, <2>3
  <1>2. ASSUME NEW r \in Requests, Store(r) PROVE Trusted'
    <2>1. /\ req[r].phase = "carried" /\ UNCHANGED <<now, turned>>
          /\ jwks' = [doc |-> req[r].doc, fetched_at |-> now]
      BY <1>2 DEF Store
    <2>2. /\ req[r].doc \in 1 .. Published
          /\ req[r].doc < Published => req[r].asked <= turned[req[r].doc + 1]
      BY <2>1 DEF Asked
    <2>3. req[r].asked \in Nat /\ now <= req[r].asked + FetchTimeout
      BY <2>1, GatewayAssumption DEF GatewayTypeOK, Idle, Fetch
    <2>4. ASSUME req[r].doc \in 1 .. Published - 1
          PROVE  now <= turned[req[r].doc + 1] + FetchTimeout
      <3>1. req[r].doc < Published /\ req[r].doc + 1 \in 1 .. Published
        BY <1>0, <2>4
      <3>2. turned[req[r].doc + 1] \in 0 .. now
        BY <3>1 DEF GatewayTypeOK, Published
      <3>3. req[r].asked <= turned[req[r].doc + 1]
        BY <2>2, <3>1
      <3> QED BY <1>0, <2>3, <3>2, <3>3
    <2> QED BY <2>1, <2>4 DEF Trusted, Published
  <1>3. ASSUME ~Turn, \A r \in Requests : ~Store(r) PROVE Trusted'
    <2>1. UNCHANGED turned /\ Published' = Published
      BY <1>3, NoTurn
    <2>2. ASSUME NEW r \in Requests, Handle(r) PROVE UNCHANGED jwks
      BY <1>3, <2>2, HandleMoves
    <2>3. UNCHANGED jwks
      BY <1>3, <2>2 DEF GatewayStep, Tick, Arrive, Turnaway, Drop, gatewayVars
    <2> QED BY <2>1, <2>3 DEF Trusted
  <1> QED BY <1>1, <1>2, <1>3

LEMMA JustStoredStep ==
    ASSUME GatewayTypeOK, DOMAIN req = Requests, Asked, JustStored, GatewayStep
    PROVE  JustStored'
  <1> SUFFICES ASSUME NEW x \in Requests, req'[x].phase = "stored"
               PROVE  jwks'.doc # 0 /\ jwks'.fetched_at = now'
    BY DEF JustStored
  <1>1. ASSUME NEW r \in Requests, Store(r)
        PROVE  jwks'.doc # 0 /\ jwks'.fetched_at = now'
    <2>1. req[r].doc \in 1 .. Published
      BY <1>1 DEF Store, Asked
    <2> QED BY <1>1, <2>1 DEF Store
  <1>2. CASE Tick
    BY <1>2 DEF Tick
  <1>3. CASE Turn \/ UNCHANGED gatewayVars
    BY <1>3 DEF Turn, gatewayVars, JustStored
  <1>4. ASSUME NEW r \in Requests,
               (\E k \in Kids : Arrive(r, k)) \/ Turnaway(r) \/ Drop(r)
        PROVE  jwks'.doc # 0 /\ jwks'.fetched_at = now'
    <2>1. req'[x] = req[x] /\ UNCHANGED <<now, jwks>>
      BY <1>4 DEF Arrive, Turnaway, Drop, Idle, Answered
    <2> QED BY <2>1 DEF JustStored
  <1>5. ASSUME NEW r \in Requests, Handle(r), ~Store(r)
        PROVE  jwks'.doc # 0 /\ jwks'.fetched_at = now'
    <2>1. Moves(r) /\ UNCHANGED <<now, jwks>>
      BY <1>5, HandleMoves
    <2>2. req'[r].phase # "stored"
      <3>1. CASE \E st \in Statuses : req'[r] = Answered(st)
        BY <3>1 DEF Answered
      <3>2. CASE req'[r] = [phase |-> "asked", kid |-> req[r].kid, asked |-> now,
                            doc |-> req[r].doc]
        BY <3>2
      <3>3. CASE req'[r] = [phase |-> "carried", kid |-> req[r].kid, asked |-> req[r].asked,
                            doc |-> Published]
        BY <3>3
      <3> QED BY <1>5, <3>1, <3>2, <3>3, HandleMoves
    <2>3. req'[x] = req[x]
      BY <2>1, <2>2 DEF Moves
    <2> QED BY <2>1, <2>3 DEF JustStored
  <1> QED BY <1>1, <1>2, <1>3, <1>4, <1>5 DEF GatewayStep

LEMMA GatewayInitInv == GatewayInit => GatewayInv
  <1> SUFFICES ASSUME GatewayInit PROVE GatewayInv
    OBVIOUS
  <1>1. /\ now = 0 /\ turned = <<0>> /\ jwks = [doc |-> 0, fetched_at |-> 0]
        /\ req = [r \in Requests |-> Idle]
    BY DEF GatewayInit
  <1>2. Published = 1 /\ turned[1] = 0 /\ turned \in Seq(0 .. now)
    BY <1>1 DEF Published
  <1>3. /\ Len(Docs) \in Nat \ {0} /\ now \in 0 .. MaxNow
        /\ jwks \in [doc : 0 .. Published, fetched_at : 0 .. now]
    BY <1>1, <1>2, GatewayAssumption, EmptySeq
  <1>4. GatewayTypeOK
    BY <1>1, <1>2, <1>3 DEF GatewayTypeOK
  <1>5. Turned
    BY <1>2 DEF Turned
  <1>6. Asked /\ JustStored
    BY <1>1 DEF Asked, JustStored, Idle
  <1>7. Trusted
    BY <1>1, <1>2 DEF Trusted
  <1> QED BY <1>1, <1>4, <1>5, <1>6, <1>7 DEF GatewayInv

LEMMA GatewayInvStep ==
    ASSUME GatewayInv, GatewayStep
    PROVE  GatewayInv'
  BY GatewayTypeStep, TurnedStep, AskedStep, TrustedStep, JustStoredStep DEF GatewayInv

\* A set of documents has a last one.
LEMMA Greatest ==
    ASSUME NEW n \in Nat, NEW S \in SUBSET (1 .. n), S # {}
    PROVE  Max(S) \in S /\ \A m \in S : m <= Max(S)
  <1> DEFINE Bounds == { b \in Nat : \A m \in S : m <= b }
  <1>1. Bounds \in SUBSET Nat /\ n \in Bounds
    OBVIOUS
  <1>2. PICK b \in Bounds : \A c \in Bounds : b <= c
    <2> HIDE DEF Bounds
    <2> QED BY <1>1, Least
  <1>3. b \in Nat /\ \A m \in S : m <= b /\ m \in Nat /\ m >= 1
    BY <1>2
  <1>4. b \in S
    <2> SUFFICES ASSUME b \notin S PROVE FALSE
      OBVIOUS
    <2>1. \A m \in S : m <= b - 1
      BY <1>3
    <2>2. b - 1 \in Nat
      <3>1. PICK m : m \in S
        OBVIOUS
      <3>2. b >= m /\ m \in Nat /\ m >= 1
        BY <1>3, <3>1
      <3> QED BY <1>3, <3>2
    <2>3. b - 1 \in Bounds
      BY <2>1, <2>2
    <2> QED BY <1>2, <1>3, <2>3
  <1>5. \E x \in S : \A y \in S : x >= y
    BY <1>3, <1>4
  <1>6. Max(S) \in S /\ \A y \in S : Max(S) >= y
    BY <1>5 DEF Max
  <1> QED BY <1>3, <1>6

\* The cache that decides is not older than the lifetime, and the key that is
\* in it was withdrawn no earlier than the fetch began.
LEMMA TrustStep ==
    ASSUME GatewayInv, GatewayStep, NEW x \in Requests, Verifies(x)
    PROVE  now <= Withdrawn(req[x].kid) + JwksTtl + FetchTimeout
  <1> DEFINE k == req[x].kid
             holds == { d \in 1 .. Published : k \in Usable(d) }
  <1>0. /\ GatewayTypeOK /\ DOMAIN req = Requests /\ Turned /\ Asked /\ Trusted /\ JustStored
        /\ jwks.doc \in 0 .. Published /\ jwks.fetched_at \in 0 .. now
        /\ now \in Nat /\ Published \in Nat \ {0} /\ FetchTimeout \in Nat /\ JwksTtl \in Nat
        /\ \A d \in 1 .. Published : turned[d] \in 0 .. now
    BY GatewayAssumption DEF GatewayInv, GatewayTypeOK, Published
  <1>1. /\ req[x].phase \in {"lookup", "stored"} /\ req'[x].phase = "done"
        /\ req'[x].status # 401
    BY DEF Verifies
  <1>2. LookupHit(x) \/ LookAgain(x)
    <2>1. CASE Turn \/ Tick \/ UNCHANGED gatewayVars
      BY <1>1, <2>1 DEF Turn, Tick, gatewayVars
    <2>2. ASSUME NEW r \in Requests,
                 (\E c \in Kids : Arrive(r, c)) \/ Turnaway(r) \/ Drop(r)
          PROVE  FALSE
      BY <1>0, <1>1, <2>2 DEF Arrive, Turnaway, Drop, Free, Idle
    <2>3. ASSUME NEW r \in Requests, Handle(r)
          PROVE  LookupHit(x) \/ LookAgain(x)
      <3>1. Moves(r)
        BY <1>0, <2>3, HandleMoves
      <3>2. r = x
        BY <1>1, <3>1 DEF Moves
      <3>3. ~Refresh(x) /\ ~IssuerAnswers(x) /\ ~FetchFails(x) /\ ~Store(x)
        <4>1. ~IssuerAnswers(x) /\ ~FetchFails(x) /\ ~Store(x)
          BY <1>1 DEF IssuerAnswers, FetchFails, Store
        <4>2. ASSUME Refresh(x) PROVE FALSE
          <5>1. req[x] \in Fetch
            BY <1>0, <4>2 DEF Refresh, GatewayTypeOK, Idle
          <5>2. req'[x].phase = "asked"
            BY <1>0, <4>2, <5>1 DEF Refresh, Fetch
          <5> QED BY <1>1, <5>2
        <4> QED BY <4>1, <4>2
      <3> QED BY <2>3, <3>2, <3>3 DEF Handle
    <2> QED BY <2>1, <2>2, <2>3 DEF GatewayStep
  <1>3. /\ Cached(k) /\ jwks.doc # 0 /\ now <= jwks.fetched_at + JwksTtl
    <2>1. CASE LookupHit(x)
      BY <1>0, <2>1 DEF LookupHit, Fresh
    <2>2. CASE LookAgain(x)
      <3>1. Cached(k)
        BY <1>0, <1>1, <2>2 DEF LookAgain, AuthStatus, Answered
      <3>2. jwks.doc # 0 /\ jwks.fetched_at = now
        BY <1>0, <2>2 DEF LookAgain, JustStored
      <3> QED BY <1>0, <3>1, <3>2
    <2> QED BY <1>2, <2>1, <2>2
  <1>4. jwks.doc \in holds
    BY <1>0, <1>3 DEF Cached
  <1>5. Withdrawn(k) = IF Published \in holds THEN now ELSE turned[Max(holds) + 1]
    BY <1>4 DEF Withdrawn
  <1>6. holds \in SUBSET (1 .. Published) /\ holds # {}
    BY <1>4
  <1> HIDE DEF holds, k
  <1>7. CASE Published \in holds
    <2>1. now <= Withdrawn(k) + JwksTtl + FetchTimeout
      <3>1. Withdrawn(k) = now
        BY <1>5, <1>7
      <3> QED BY <1>0, <3>1
    <2> QED BY <2>1 DEF k
  <1>8. CASE Published \notin holds
    <2> DEFINE last == Max(holds)
    <2>1. last \in holds /\ jwks.doc <= last
      BY <1>0, <1>4, <1>6, Greatest
    <2> HIDE DEF last
    <2>2. last \in 1 .. Published - 1 /\ jwks.doc \in 1 .. Published - 1
      BY <1>0, <1>3, <1>6, <1>8, <2>1
    <2>3. /\ jwks.doc + 1 \in 1 .. Published /\ last + 1 \in 1 .. Published
          /\ jwks.doc + 1 <= last + 1
      BY <1>0, <2>1, <2>2
    <2>4. turned[jwks.doc + 1] <= turned[last + 1]
      BY <1>0, <2>3 DEF Turned
    <2>5. jwks.fetched_at <= turned[jwks.doc + 1] + FetchTimeout
      BY <1>0, <2>2 DEF Trusted
    <2>6. Withdrawn(k) = turned[last + 1]
      BY <1>5, <1>8 DEF last
    <2>7. turned[jwks.doc + 1] \in Nat /\ turned[last + 1] \in Nat
      BY <1>0, <2>3
    <2>8. now <= turned[last + 1] + JwksTtl + FetchTimeout
      BY <1>0, <1>3, <2>4, <2>5, <2>7
    <2> QED BY <2>6, <2>8 DEF k
  <1> QED BY <1>7, <1>8 DEF k

-----------------------------------------------------------------------------
(***************************************************************************)
(* The panel.                                                              *)
(***************************************************************************)
Used == { s \in Streams : socket[s] # "none" }

PanelInv == GatewayInv /\ TypeOK /\ EachErrorAddsALine

LEMMA UsedIsFinite ==
    /\ IsFiniteSet(Used) /\ Cardinality(Used) \in Nat
    /\ Cardinality(Streams) \in Nat /\ Cardinality(Used) <= Cardinality(Streams)
  <1>1. IsFiniteSet(Streams) /\ Used \subseteq Streams
    BY PanelAssumption DEF Used
  <1> QED BY <1>1, FS_Subset, FS_CardinalityType

LEMMA LinesAdd ==
    ASSUME TypeOK, EachErrorAddsALine, ~closed
    PROVE  /\ timers + Cardinality(Used) = 1 + errors
           /\ timers \in Nat /\ errors \in Nat /\ Cardinality(Used) \in Nat
           /\ errors <= MaxErrors /\ MaxErrors \in Nat
  <1>1. timers + Cardinality(Used) = 1 + errors
    BY DEF EachErrorAddsALine, Lines, Used
  <1>2. /\ timers \in Nat /\ errors \in Nat /\ errors <= MaxErrors /\ MaxErrors \in Nat
    BY PanelAssumption DEF TypeOK
  <1> QED BY <1>1, <1>2, UsedIsFinite

\* There is a socket left for every connection that is to be made: "connect"
\* has one to put into ws.
LEMMA SocketLeft ==
    ASSUME TypeOK, EachErrorAddsALine, timers > 0, ~closed
    PROVE  FreeSocket \in Streams /\ socket[FreeSocket] = "none"
  <1>1. Cardinality(Used) < Cardinality(Streams)
    <2>1. /\ Cardinality(Streams) > MaxErrors /\ Cardinality(Streams) \in Nat
      BY PanelAssumption, UsedIsFinite
    <2> QED BY <2>1, LinesAdd
  <1>2. Used # Streams
    BY <1>1, UsedIsFinite
  <1>3. \E s \in Streams : socket[s] = "none"
    BY <1>2 DEF Used
  <1> QED BY <1>3 DEF FreeSocket

LEMMA NextIsGatewayStep ==
    ASSUME TypeOK, EachErrorAddsALine, [Next]_vars
    PROVE  GatewayStep
  <1>0. Streams \subseteq Requests /\ ws \in Streams /\ Kid \in Kids
    BY GatewayAssumption, PanelAssumption DEF TypeOK
  <1>1. CASE Gateway \/ Clients \/ Time
    BY <1>1 DEF Gateway, Clients, Time, GatewayStep
  <1>2. CASE Connect
    <2>1. FreeSocket \in Streams /\ Arrive(FreeSocket, Kid)
      BY <1>2, SocketLeft DEF Connect
    <2> QED BY <1>0, <2>1 DEF GatewayStep
  <1>3. CASE TimerIdles \/ (\E s \in Streams : Opens(s)) \/ UNCHANGED vars
    BY <1>3 DEF TimerIdles, Opens, vars, GatewayStep
  <1>4. CASE (\E s \in Streams : Fails(s) \/ Ends(s)) \/ CloseClient
    <2>1. PICK s \in Streams : Gone(s)
      BY <1>0, <1>4 DEF Fails, Ends, CloseClient
    <2>2. Drop(s) /\ s \in Requests
      BY <1>0, <2>1 DEF Gone, Drop
    <2> QED BY <2>2 DEF GatewayStep
  <1> QED BY <1>1, <1>2, <1>3, <1>4 DEF Next

\* A connection more, and one less.
LEMMA UsedSteps ==
    ASSUME TypeOK, NEW s \in Streams
    PROVE  /\ socket[s] = "none" /\ socket' = [socket EXCEPT ![s] = "connecting"] =>
                Cardinality(Used') = Cardinality(Used) + 1
           /\ socket[s] # "none" /\ socket' = [socket EXCEPT ![s] = "none"] =>
                Cardinality(Used') = Cardinality(Used) - 1
           /\ socket[s] # "none" /\ socket' = [socket EXCEPT ![s] = "open"] =>
                Cardinality(Used') = Cardinality(Used)
  <1>0. socket \in [Streams -> {"none", "connecting", "open"}]
    BY DEF TypeOK
  <1>1. ASSUME socket[s] = "none", socket' = [socket EXCEPT ![s] = "connecting"]
        PROVE  Cardinality(Used') = Cardinality(Used) + 1
    <2>1. Used' = Used \cup {s} /\ s \notin Used
      BY <1>0, <1>1 DEF Used
    <2> QED BY <2>1, UsedIsFinite, FS_AddElement
  <1>2. ASSUME socket[s] # "none", socket' = [socket EXCEPT ![s] = "none"]
        PROVE  Cardinality(Used') = Cardinality(Used) - 1
    <2>1. Used' = Used \ {s} /\ s \in Used
      BY <1>0, <1>2 DEF Used
    <2> QED BY <2>1, UsedIsFinite, FS_RemoveElement
  <1>3. ASSUME socket[s] # "none", socket' = [socket EXCEPT ![s] = "open"]
        PROVE  Cardinality(Used') = Cardinality(Used)
    <2>1. Used' = Used
      BY <1>0, <1>3 DEF Used
    <2> QED BY <2>1
  <1> QED BY <1>1, <1>2, <1>3

LEMMA LineStep ==
    ASSUME TypeOK, EachErrorAddsALine, [Next]_vars
    PROVE  EachErrorAddsALine'
  <1> SUFFICES ASSUME ~closed'
               PROVE  timers' + Cardinality(Used') = 1 + errors'
    BY DEF EachErrorAddsALine, Lines, Used
  <1>1. CASE UNCHANGED panelVars
    BY <1>1, LinesAdd DEF panelVars, Used
  <1>2. CASE Connect
    <2>1. /\ socket' = [socket EXCEPT ![FreeSocket] = "connecting"] /\ ~closed
          /\ timers' = timers - 1 /\ errors' = errors
          /\ FreeSocket \in Streams /\ socket[FreeSocket] = "none"
      BY <1>2, SocketLeft DEF Connect
    <2>2. Cardinality(Used') = Cardinality(Used) + 1
      BY <2>1, UsedSteps
    <2> QED BY <2>1, <2>2, LinesAdd
  <1>3. CASE TimerIdles \/ CloseClient
    BY <1>3 DEF TimerIdles, CloseClient
  <1>4. ASSUME NEW s \in Streams, Opens(s)
        PROVE  timers' + Cardinality(Used') = 1 + errors'
    <2>1. /\ socket[s] # "none" /\ socket' = [socket EXCEPT ![s] = "open"]
          /\ UNCHANGED <<timers, closed, errors>>
      BY <1>4 DEF Opens
    <2>2. Cardinality(Used') = Cardinality(Used)
      BY <2>1, UsedSteps
    <2> QED BY <2>1, <2>2, LinesAdd
  <1>5. ASSUME NEW s \in Streams, Fails(s) \/ Ends(s)
        PROVE  timers' + Cardinality(Used') = 1 + errors'
    <2>1. /\ socket[s] # "none" /\ socket' = [socket EXCEPT ![s] = "none"] /\ ~closed
          /\ \/ timers' = timers + 2 /\ errors' = errors + 1
             \/ timers' = timers + 1 /\ errors' = errors
      BY <1>5 DEF Fails, Ends, Gone, Schedule
    <2>2. Cardinality(Used') = Cardinality(Used) - 1
      BY <2>1, UsedSteps
    <2> QED BY <2>1, <2>2, LinesAdd
  <1>6. Gateway \/ Clients \/ Time \/ UNCHANGED vars => UNCHANGED panelVars
    BY DEF Gateway, Clients, Time, vars
  <1> QED BY <1>1, <1>2, <1>3, <1>4, <1>5, <1>6 DEF Next

\* The sockets and the requests that they stand for.
LEMMA Paired ==
    ASSUME GatewayInv, TypeOK, EachErrorAddsALine, [Next]_vars, NEW s \in Streams
    PROVE  (socket'[s] = "none") <=> (req'[s] = Idle)
  <1>0. /\ (socket[s] = "none") <=> (req[s] = Idle)
        /\ socket \in [Streams -> {"none", "connecting", "open"}] /\ ws \in Streams
        /\ DOMAIN req = Requests /\ Streams \subseteq Requests /\ GatewayTypeOK
    BY GatewayAssumption DEF TypeOK, GatewayInv
  <1>1. CASE UNCHANGED vars \/ Time \/ TimerIdles
    BY <1>0, <1>1 DEF vars, panelVars, gatewayVars, Time, Turn, Tick, TimerIdles
  <1>2. ASSUME NEW r \in Requests, Handle(r), UNCHANGED panelVars
        PROVE  (socket'[s] = "none") <=> (req'[s] = Idle)
    <2>1. socket' = socket /\ Moves(r)
      BY <1>0, <1>2, HandleMoves DEF panelVars
    <2>2. CASE s # r
      BY <1>0, <2>1, <2>2 DEF Moves
    <2>3. CASE s = r
      <3>1. req[r] # Idle
        BY <1>2 DEF Handle, LookupHit, Refresh, IssuerAnswers, FetchFails, Store, LookAgain, Idle
      <3>2. req'[r] # Idle
        <4>1. CASE \E st \in Statuses : req'[r] = Answered(st)
          BY <4>1 DEF Answered, Idle
        <4>2. CASE req'[r] = [phase |-> "asked", kid |-> req[r].kid, asked |-> now,
                              doc |-> req[r].doc]
          BY <4>2 DEF Idle
        <4>3. CASE req'[r] = [phase |-> "carried", kid |-> req[r].kid,
                              asked |-> req[r].asked, doc |-> Published]
          BY <4>3 DEF Idle
        <4>4. CASE req'[r] = [phase |-> "stored", kid |-> req[r].kid, asked |-> 0, doc |-> 0]
          BY <4>4 DEF Idle
        <4> QED BY <1>0, <1>2, <4>1, <4>2, <4>3, <4>4, HandleMoves
      <3> QED BY <1>0, <2>1, <2>3, <3>1, <3>2
    <2> QED BY <2>2, <2>3
  <1>3. CASE Clients
    <2>1. socket' = socket /\ req'[s] = req[s]
      BY <1>0, <1>3 DEF Clients, Arrive, Turnaway, panelVars
    <2> QED BY <1>0, <2>1
  <1>4. CASE Connect
    <2>1. /\ FreeSocket \in Streams /\ socket' = [socket EXCEPT ![FreeSocket] = "connecting"]
          /\ req' = [req EXCEPT ![FreeSocket] =
                        [phase |-> "lookup", kid |-> Kid, asked |-> 0, doc |-> 0]]
      BY <1>4, SocketLeft DEF Connect, Arrive
    <2>2. CASE s = FreeSocket
      BY <1>0, <2>1, <2>2 DEF Idle
    <2>3. CASE s # FreeSocket
      BY <1>0, <2>1, <2>3
    <2> QED BY <2>2, <2>3
  <1>5. ASSUME NEW t \in Streams, Opens(t)
        PROVE  (socket'[s] = "none") <=> (req'[s] = Idle)
    <2>1. /\ socket[t] = "connecting" /\ socket' = [socket EXCEPT ![t] = "open"]
          /\ req' = req
      BY <1>5 DEF Opens, gatewayVars
    <2> QED BY <1>0, <2>1
  <1>6. ASSUME NEW t \in Streams, Gone(t)
        PROVE  (socket'[s] = "none") <=> (req'[s] = Idle)
    BY <1>0, <1>6 DEF Gone
  <1>7. (\E t \in Streams : Fails(t) \/ Ends(t)) \/ CloseClient => \E t \in Streams : Gone(t)
    BY <1>0 DEF Fails, Ends, CloseClient
  <1> QED BY <1>1, <1>2, <1>3, <1>4, <1>5, <1>6, <1>7 DEF Next, Gateway

LEMMA PanelTypeStep ==
    ASSUME GatewayInv, GatewayInv', TypeOK, EachErrorAddsALine, EachErrorAddsALine', [Next]_vars
    PROVE  TypeOK'
  <1>0. /\ socket \in [Streams -> {"none", "connecting", "open"}] /\ ws \in Streams
        /\ timers \in 0 .. MaxErrors + 1 /\ errors \in 0 .. MaxErrors /\ MaxErrors \in Nat
        /\ status \in {"connecting", "open", "closed"} /\ closed \in BOOLEAN
        /\ ~closed /\ status = "open" => \E s \in Streams : socket[s] = "open"
    BY PanelAssumption DEF TypeOK
  <1> DEFINE Fits ==
        /\ socket' \in [Streams -> {"none", "connecting", "open"}] /\ ws' \in Streams
        /\ status' \in {"connecting", "open", "closed"} /\ closed' \in BOOLEAN
        /\ errors' \in 0 .. MaxErrors /\ timers' \in Nat
        /\ closed' => timers' \in 0 .. MaxErrors + 1
        /\ ~closed' /\ status' = "open" => \E s \in Streams : socket'[s] = "open"
  <1>1. ASSUME UNCHANGED panelVars PROVE Fits
    BY <1>0, <1>1 DEF panelVars
  <1>2. ASSUME Connect PROVE Fits
    <2>1. FreeSocket \in Streams
      BY <1>2, SocketLeft DEF Connect
    <2> QED BY <1>0, <1>2, <2>1 DEF Connect
  <1>3. ASSUME TimerIdles PROVE Fits
    BY <1>0, <1>3 DEF TimerIdles
  <1>4. ASSUME NEW s \in Streams, Opens(s) PROVE Fits
    <2>1. /\ socket' = [socket EXCEPT ![s] = "open"] /\ status' = "open"
          /\ UNCHANGED <<ws, timers, closed, errors>>
      BY <1>4 DEF Opens
    <2>2. socket'[s] = "open"
      BY <1>0, <2>1
    <2> QED BY <1>0, <2>1, <2>2
  <1>5. ASSUME NEW s \in Streams, Fails(s) \/ Ends(s) PROVE Fits
    BY <1>0, <1>5 DEF Fails, Ends, Gone, Schedule
  <1>6. ASSUME CloseClient PROVE Fits
    BY <1>0, <1>6 DEF CloseClient, Gone
  <1>7. Gateway \/ Clients \/ Time \/ UNCHANGED vars => UNCHANGED panelVars
    BY DEF Gateway, Clients, Time, vars
  <1>8. Fits
    BY <1>1, <1>2, <1>3, <1>4, <1>5, <1>6, <1>7 DEF Next
  <1>9. timers' \in 0 .. MaxErrors + 1
    <2>1. CASE closed'
      BY <1>8, <2>1
    <2>2. CASE ~closed'
      <3>1. timers' + Cardinality(Used') = 1 + errors'
        BY <2>2 DEF EachErrorAddsALine, Lines, Used
      <3>2. Cardinality(Used') \in Nat
        <4>1. IsFiniteSet(Streams) /\ Used' \subseteq Streams
          BY PanelAssumption DEF Used
        <4> QED BY <4>1, FS_Subset, FS_CardinalityType
      <3>3. timers' \in Nat /\ errors' \in 0 .. MaxErrors
        BY <1>8
      <3> HIDE DEF Fits
      <3> QED BY <1>0, <3>1, <3>2, <3>3
    <2> QED BY <2>1, <2>2
  <1>10. \A s \in Streams : (socket'[s] = "none") = (req'[s] = Idle)
    BY Paired
  <1>11. GatewayTypeOK'
    BY DEF GatewayInv
  <1> QED BY <1>8, <1>9, <1>10, <1>11 DEF TypeOK

LEMMA PanelInitInv == Init => PanelInv
  <1> SUFFICES ASSUME Init PROVE PanelInv
    OBVIOUS
  <1>1. GatewayInv /\ GatewayTypeOK
    BY GatewayInitInv DEF Init, GatewayInv
  <1>2. /\ socket = [s \in Streams |-> "none"] /\ req = [r \in Requests |-> Idle]
        /\ timers = 1 /\ ws \in Streams /\ status = "connecting" /\ closed = FALSE /\ errors = 0
    BY DEF Init, GatewayInit
  <1>3. TypeOK
    <2>1. /\ socket \in [Streams -> {"none", "connecting", "open"}]
          /\ timers \in 0 .. MaxErrors + 1 /\ errors \in 0 .. MaxErrors
      BY <1>2, PanelAssumption
    <2>2. \A x \in Streams : (socket[x] = "none") = (req[x] = Idle)
      BY <1>2, GatewayAssumption
    <2>3. /\ status \in {"connecting", "open", "closed"} /\ status # "open"
          /\ closed \in BOOLEAN
      BY <1>2, Zenon
    <2> QED BY <1>1, <1>2, <2>1, <2>2, <2>3 DEF TypeOK
  <1>4. EachErrorAddsALine
    <2>1. { s \in Streams : socket[s] # "none" } = {}
      BY <1>2
    <2>2. Cardinality({ s \in Streams : socket[s] # "none" }) = 0
      BY <2>1, FS_EmptySet
    <2> QED BY <1>2, <2>2 DEF EachErrorAddsALine, Lines
  <1> QED BY <1>1, <1>3, <1>4 DEF PanelInv

LEMMA PanelStep == PanelInv /\ [Next]_vars => PanelInv'
  <1> SUFFICES ASSUME PanelInv, [Next]_vars PROVE PanelInv'
    OBVIOUS
  <1>1. GatewayInv /\ TypeOK /\ EachErrorAddsALine
    BY DEF PanelInv
  <1>2. GatewayInv'
    BY <1>1, NextIsGatewayStep, GatewayInvStep
  <1>3. EachErrorAddsALine'
    BY <1>1, LineStep
  <1>4. TypeOK'
    BY <1>1, <1>2, <1>3, PanelTypeStep
  <1> QED BY <1>2, <1>3, <1>4 DEF PanelInv

LEMMA PanelInvariant == Spec => []PanelInv
  BY PanelInitInv, PanelStep, PTL DEF Spec

(***************************************************************************)
(* Types of the gateway's requests and of the panel's connections: the     *)
(* cache holds a document that was published, a fetch ends by its timeout, *)
(* a socket is in use exactly if the gateway knows its request, and there  *)
(* is always one left for connect (Verifier::verify, openStream).          *)
(***************************************************************************)
THEOREM PanelTypes == Spec => []TypeOK
  <1>1. PanelInv => TypeOK
    BY DEF PanelInv
  <1> QED BY <1>1, PanelInvariant, PTL

(***************************************************************************)
(* Each error adds a connection that stays, for any number of errors:      *)
(* schedule runs once for onerror and once for onclose (openStream).       *)
(***************************************************************************)
THEOREM ErrorsAddLines == Spec => []EachErrorAddsALine
  <1>1. PanelInv => EachErrorAddsALine
    BY DEF PanelInv
  <1> QED BY <1>1, PanelInvariant, PTL

(***************************************************************************)
(* A key that the issuer withdrew decides on no request later than one     *)
(* lifetime of the cache and one timeout of the fetch after that, however  *)
(* many requests fetch side by side and in whatever order their answers    *)
(* are stored (Verifier::verify, refresh).                                 *)
(***************************************************************************)
THEOREM TrustIsBounded == Spec => TrustEnds
  <1>1. ASSUME PanelInv, [Next]_vars
        PROVE  [\A r \in Requests :
                   Verifies(r) =>
                      now <= Withdrawn(req[r].kid) + JwksTtl + FetchTimeout]_gatewayVars
    BY <1>1, NextIsGatewayStep, TrustStep DEF PanelInv
  <1> QED BY <1>1, PanelInvariant, PTL DEF Spec, TrustEnds

=============================================================================
