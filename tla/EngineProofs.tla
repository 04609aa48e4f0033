---------------------------- MODULE EngineProofs ----------------------------
(***************************************************************************)
(* Proofs about the automation engine, for every list of rules, every TTL  *)
(* and any number of messages.                                             *)
(*                                                                         *)
(* OneFiringPerWindow speaks of the past, claim_idempotency looks at the   *)
(* map of claims: Claimed ties them.  A firing younger than the TTL still  *)
(* has its key in the map, with a time that is no earlier.                 *)
(* FiringAccounted needs OpenOne: how far the firing in progress has come. *)
(***************************************************************************)
EXTENDS Engine, SequenceTheorems, TLAPS

\* Whoever acts has a firing to account it to.
Started == stage \in {"acting", "audit", "dead_letter"} => firings # <<>>

Claimed ==
    \A i \in DOMAIN firings :
        /\ firings[i].at <= now
        /\ now - firings[i].at < Ttl
               => /\ firings[i].key \in DOMAIN claims
                  /\ firings[i].at <= claims[firings[i].key]

ClaimInv == TypeOK /\ Started /\ Claimed /\ OneFiringPerWindow /\ ClaimIsOfFiring

OpenOne ==
    stage \in {"acting", "audit", "dead_letter"} =>
        /\ Len(firings) # 0
        /\ LET firing == firings[Len(firings)]
               actions == Len(Rules[turn].actions)
           IN  /\ firing.rule = turn
               /\ firing.outcome = "open"
               /\ stage = "acting" => firing.done = step - 1
               /\ stage = "audit" => firing.done = actions
               /\ stage = "dead_letter" => firing.done < actions

AccountInv == TypeOK /\ Started /\ OpenOne /\ FiringAccounted

-----------------------------------------------------------------------------
(***************************************************************************)
(* What the engine's rules are made of.                                    *)
(***************************************************************************)
LEMMA RuleParts ==
    ASSUME NEW i \in 1 .. Len(Rules)
    PROVE  /\ Rules[i] \in Rule
           /\ Rules[i].id \in RuleIds
           /\ Rules[i].actions \in Seq(Messages \cup {Log})
           /\ Rules[i].actions # <<>>
           /\ Len(Rules[i].actions) \in Nat
           /\ Len(Rules[i].actions) >= 1
<1>1. Rules[i] \in Rule
  BY EngineAssumption
<1>2. Rules[i].actions \in Seq(Messages \cup {Log}) /\ Rules[i].actions # <<>>
  BY <1>1 DEF Rule
<1> QED BY <1>1, <1>2, EmptySeq, LenProperties DEF Rule

(***************************************************************************)
(* Delivery puts a message at the end of at most one queue.                *)
(***************************************************************************)
LEMMA DeliveredType ==
    ASSUME TypeOK, NEW message \in Messages
    PROVE  Delivered(message) \in [Roots -> Seq(Messages)]
<1>1. ASSUME RootOf[message] \in Roots
      PROVE  Append(queues[RootOf[message]], message) \in Seq(Messages)
  BY <1>1 DEF TypeOK
<1> QED BY <1>1 DEF Delivered, TypeOK

(***************************************************************************)
(* The firing that Claim begins.                                           *)
(***************************************************************************)
Begun == [key |-> KeyOf(turn, current), rule |-> turn, at |-> now,
          done |-> 0, outcome |-> "open"]

LEMMA BegunType ==
    ASSUME TypeOK, stage = "rules", turn <= Len(Rules)
    PROVE  /\ Begun \in Firing
           /\ KeyOf(turn, current) \in Key
           /\ current \in Messages
<1>1. current \in Messages /\ turn \in 1 .. Len(Rules)
  BY EngineAssumption DEF TypeOK
<1>2. KeyOf(turn, current) \in Key
  BY <1>1, RuleParts DEF KeyOf, Key
<1> QED BY <1>1, <1>2, EngineAssumption DEF Begun, Firing, TypeOK

(***************************************************************************)
(* A change to the last firing leaves firings a sequence of firings, and   *)
(* the others as they are.                                                 *)
(***************************************************************************)
LEMMA LastChanged ==
    ASSUME NEW past \in Seq(Firing), past # <<>>, NEW firing \in Firing,
           NEW after, after = [past EXCEPT ![Len(past)] = firing]
    PROVE  /\ after \in Seq(Firing)
           /\ Len(after) = Len(past)
           /\ after[Len(past)] = firing
           /\ \A i \in 1 .. Len(past) - 1 : after[i] = past[i]
OBVIOUS

LEMMA LastDone ==
    ASSUME TypeOK, firings # <<>>,
           firings' = [firings EXCEPT ![Len(firings)].done = @ + 1]
    PROVE  LET firing == [firings[Len(firings)] EXCEPT !.done = @ + 1]
           IN  /\ firing \in Firing
               /\ firings' = [firings EXCEPT ![Len(firings)] = firing]
<1>1. firings \in Seq(Firing) /\ firings[Len(firings)] \in Firing
  BY DEF TypeOK
<1>2. \A firing \in Firing : [firing EXCEPT !.done = @ + 1] \in Firing
  BY DEF Firing
<1> QED BY <1>1, <1>2

LEMMA LastEnds ==
    ASSUME TypeOK, firings # <<>>,
           NEW outcome \in {"audited", "unaudited", "dead_lettered"},
           firings' = [firings EXCEPT ![Len(firings)].outcome = outcome]
    PROVE  LET firing == [firings[Len(firings)] EXCEPT !.outcome = outcome]
           IN  /\ firing \in Firing
               /\ firings' = [firings EXCEPT ![Len(firings)] = firing]
<1>1. firings \in Seq(Firing) /\ firings[Len(firings)] \in Firing
  BY DEF TypeOK
<1>2. [firings[Len(firings)] EXCEPT !.outcome = outcome] \in Firing
  BY <1>1 DEF Firing
<1> QED BY <1>1, <1>2

-----------------------------------------------------------------------------
(***************************************************************************)
(* Every step keeps the types.                                             *)
(***************************************************************************)
LEMMA TypeStep == TypeOK /\ Started /\ [Next]_vars => TypeOK'
<1> SUFFICES ASSUME TypeOK, Started, [Next]_vars PROVE TypeOK'
  OBVIOUS
<1> USE EngineAssumption
<1>1. ASSUME NEW message \in Inputs, Land(message) PROVE TypeOK'
  BY <1>1, DeliveredType DEF Land, TypeOK, handling
<1>2. CASE Tick
  BY <1>2 DEF Tick, TypeOK, handling
<1>3. ASSUME NEW root \in Roots, Take(root) PROVE TypeOK'
  <2>1. queues[root] \in Seq(Messages) /\ queues[root] # <<>>
    BY <1>3 DEF Take, TypeOK
  <2>2. Head(queues[root]) \in Messages /\ Tail(queues[root]) \in Seq(Messages)
    BY <2>1
  <2> QED BY <1>3, <2>2 DEF Take, TypeOK
<1>4. CASE Handled
  BY <1>4 DEF Handled, TypeOK
<1>5. CASE PassOver
  BY <1>5 DEF PassOver, TypeOK
<1>6. CASE Claim
  <2> DEFINE key == KeyOf(turn, current)
  <2>1. /\ Begun \in Firing
        /\ key \in Key
    BY <1>6, BegunType DEF Claim
  <2>2. Live \subseteq Key /\ \A k \in Live : claims[k] \in 0 .. now
    BY DEF Live, TypeOK
  <2>3. CASE /\ claims' = [k \in Live |-> claims[k]]
             /\ turn' = turn + 1
             /\ UNCHANGED <<stage, step, firings>>
    BY <1>6, <2>2, <2>3 DEF Claim, TypeOK
  <2>4. CASE /\ claims' = [k \in Live \cup {key} |-> IF k = key THEN now ELSE claims[k]]
             /\ firings' = Append(firings, Begun)
             /\ stage' = "acting"
             /\ step' = 1
             /\ UNCHANGED turn
    <3>1. firings' \in Seq(Firing)
      BY <2>1, <2>4 DEF TypeOK
    <3>2. DOMAIN claims' \subseteq Key /\ \A k \in DOMAIN claims' : claims'[k] \in 0 .. now
      BY <2>1, <2>2, <2>4 DEF TypeOK
    <3>3. turn \in 1 .. Len(Rules)
      BY <1>6 DEF Claim, TypeOK
    <3>4. step' \in 1 .. Len(Rules[turn].actions)
      BY <2>4, <3>3, RuleParts
    <3> QED BY <1>6, <2>4, <3>1, <3>2, <3>3, <3>4 DEF Claim, TypeOK
  <2> QED BY <1>6, <2>3, <2>4 DEF Claim, Begun
<1>7. CASE Act
  <2>1. turn \in 1 .. Len(Rules) /\ step \in 1 .. Len(Rules[turn].actions)
    BY <1>7 DEF Act, TypeOK
  <2>2. Action \in Messages \cup {Log}
    BY <2>1, RuleParts DEF Action
  <2>3. CASE Succeeded(Action)
    <3>1. queues' \in [Roots -> Seq(Messages)]
      BY <2>2, <2>3, DeliveredType DEF Succeeded, TypeOK
    <3>2. firings' \in Seq(Firing)
      BY <1>7, <2>3, LastDone, LastChanged DEF Act, Succeeded, Started, TypeOK
    <3>3. /\ stage' \in {"acting", "audit"}
          /\ stage' = "acting" => step' \in 1 .. Len(Rules[turn].actions)
      BY <1>7, <2>1, <2>3, RuleParts DEF Act, Succeeded
    <3> QED BY <1>7, <2>1, <3>1, <3>2, <3>3 DEF Act, TypeOK
  <2>4. CASE stage' = "dead_letter" /\ UNCHANGED <<queues, firings, step>>
    BY <1>7, <2>1, <2>4 DEF Act, TypeOK
  <2> QED BY <1>7, <2>3, <2>4 DEF Act
<1>8. ASSUME stage \in {"audit", "dead_letter"},
             NEW outcome \in {"audited", "unaudited", "dead_lettered"}, EndFiring(outcome)
      PROVE  TypeOK'
  <2>1. firings' \in Seq(Firing)
    BY <1>8, LastEnds, LastChanged DEF EndFiring, Started, TypeOK
  <2> QED BY <1>8, <2>1 DEF EndFiring, TypeOK
<1>9. CASE UNCHANGED vars
  BY <1>9 DEF vars, handling, TypeOK
<1> QED
  BY <1>1, <1>2, <1>3, <1>4, <1>5, <1>6, <1>7, <1>8, <1>9
     DEF Next, OnMessage, RecordFiring, DeadLetter

LEMMA StartedStep == TypeOK /\ Started /\ [Next]_vars => Started'
<1> SUFFICES ASSUME TypeOK, Started, [Next]_vars, firings' = <<>>
             PROVE  stage' \notin {"acting", "audit", "dead_letter"}
  BY DEF Started
<1>1. firings \in Seq(Firing)
  BY DEF TypeOK
<1>2. CASE \/ \E message \in Inputs : Land(message)
           \/ Tick \/ Handled \/ PassOver \/ UNCHANGED vars
           \/ \E root \in Roots : Take(root)
  BY <1>2 DEF Land, Tick, Take, Handled, PassOver, Started, vars, handling
<1>3. CASE Claim
  <2>1. Begun \in Firing
    BY <1>3, BegunType DEF Claim
  <2>2. Append(firings, Begun) # <<>>
    BY <1>1, <2>1, AppendProperties
  <2>3. CASE stage' = "acting" /\ firings' = Append(firings, Begun)
    BY <2>2, <2>3
  <2> QED BY <1>3, <2>3 DEF Claim, Begun, Started
<1>4. CASE Act
  <2>1. firings # <<>>
    BY <1>4 DEF Act, Started
  <2>2. CASE Succeeded(Action)
    <3>1. Len(firings') = Len(firings)
      BY <1>1, <2>1, <2>2, LastDone, LastChanged DEF Succeeded
    <3> QED BY <1>1, <2>1, <3>1
  <2>3. CASE UNCHANGED firings
    BY <2>1, <2>3
  <2> QED BY <1>4, <2>2, <2>3 DEF Act
<1>5. CASE RecordFiring \/ DeadLetter
  BY <1>5 DEF RecordFiring, DeadLetter, EndFiring
<1> QED BY <1>2, <1>3, <1>4, <1>5 DEF Next, OnMessage

LEMMA TypeInit == Init => TypeOK /\ Started
BY EngineAssumption, EmptySeq DEF Init, TypeOK, Roots, Started

(***************************************************************************)
(* The engine's state has the shape its types say: in particular no action *)
(* past a rule's last one is ever looked up.                               *)
(***************************************************************************)
THEOREM TypeCorrect == Spec => []TypeOK
<1>1. TypeOK /\ Started /\ [Next]_vars => (TypeOK /\ Started)'
  BY TypeStep, StartedStep
<1> QED BY <1>1, TypeInit, PTL DEF Spec

-----------------------------------------------------------------------------
(***************************************************************************)
(* Only Claim touches the claims, or begins a firing; whatever else is     *)
(* done to firings changes neither their keys nor their times.             *)
(***************************************************************************)
SameFirings ==
    /\ DOMAIN firings' = DOMAIN firings
    /\ \A i \in DOMAIN firings :
           firings'[i].key = firings[i].key /\ firings'[i].at = firings[i].at

LEMMA FiringsKeptBy ==
    ASSUME TypeOK, Started, Act \/ RecordFiring \/ DeadLetter
    PROVE  SameFirings
<1>1. firings \in Seq(Firing) /\ firings # <<>>
  BY DEF TypeOK, Started, Act, RecordFiring, DeadLetter
<1>2. \/ UNCHANGED firings
      \/ firings' = [firings EXCEPT ![Len(firings)].done = @ + 1]
      \/ \E outcome \in {"audited", "unaudited", "dead_lettered"} :
             firings' = [firings EXCEPT ![Len(firings)].outcome = outcome]
  BY DEF Act, Succeeded, RecordFiring, DeadLetter, EndFiring
<1>3. CASE UNCHANGED firings
  BY <1>3 DEF SameFirings
<1>4. CASE firings' = [firings EXCEPT ![Len(firings)].done = @ + 1]
  BY <1>1, <1>4 DEF SameFirings, Firing
<1>5. ASSUME NEW outcome \in {"audited", "unaudited", "dead_lettered"},
             firings' = [firings EXCEPT ![Len(firings)].outcome = outcome]
      PROVE  SameFirings
  BY <1>1, <1>5 DEF SameFirings, Firing
<1> QED BY <1>2, <1>3, <1>4, <1>5

LEMMA ClaimStep == ClaimInv /\ [Next]_vars => ClaimInv'
<1> SUFFICES ASSUME ClaimInv, [Next]_vars
             PROVE  Claimed' /\ OneFiringPerWindow' /\ ClaimIsOfFiring'
  BY TypeStep, StartedStep DEF ClaimInv
<1>inv. TypeOK /\ Started /\ Claimed /\ OneFiringPerWindow /\ ClaimIsOfFiring
  BY DEF ClaimInv
<1>types. /\ now \in Nat
      /\ Ttl \in Nat
      /\ firings \in Seq(Firing)
      /\ \A key \in DOMAIN claims : claims[key] \in Nat /\ claims[key] <= now
  BY <1>inv, EngineAssumption DEF TypeOK
<1>past. \A i \in DOMAIN firings : firings[i].at \in Nat
  <2>1. \A i \in DOMAIN firings : firings[i] \in Firing
    BY <1>types
  <2>2. \A firing \in Firing : firing.at \in Nat
    BY DEF Firing
  <2> QED BY <2>1, <2>2
<1>1. CASE Claim
  <2> DEFINE key == KeyOf(turn, current)
  <2>1. Begun \in Firing /\ Begun.key = key /\ Begun.at = now /\ UNCHANGED now
    BY <1>inv, <1>1, BegunType DEF Claim, Begun
  <2>2. \A k \in DOMAIN claims : k \in Live <=> now - claims[k] < Ttl
    BY DEF Live
  <2>3. Live \subseteq DOMAIN claims
    BY DEF Live
  <2>4. CASE claims' = [k \in Live |-> claims[k]] /\ UNCHANGED firings
    <3>1. Claimed'
      BY <1>inv, <1>types, <1>past, <2>1, <2>2, <2>4 DEF Claimed
    <3>2. ClaimIsOfFiring'
      BY <1>inv, <2>3, <2>4 DEF ClaimIsOfFiring
    <3> QED BY <1>inv, <2>4, <3>1, <3>2 DEF OneFiringPerWindow
  <2>5. CASE /\ key \notin Live
             /\ claims' = [k \in Live \cup {key} |-> IF k = key THEN now ELSE claims[k]]
             /\ firings' = Append(firings, Begun)
    <3>1. /\ DOMAIN firings = 1 .. Len(firings)
          /\ DOMAIN firings' = 1 .. Len(firings) + 1
          /\ Len(firings) \in Nat
          /\ \A i \in DOMAIN firings : firings'[i] = firings[i]
          /\ firings'[Len(firings) + 1] = Begun
      BY <2>1, <2>5
    <3>2. \A i \in DOMAIN firings : firings[i].key = key => now - firings[i].at >= Ttl
      <4>1. SUFFICES ASSUME NEW i \in DOMAIN firings, firings[i].key = key,
                            now - firings[i].at < Ttl
                     PROVE  FALSE
        BY <1>types, <1>past
      <4>2. key \in DOMAIN claims /\ firings[i].at <= claims[key]
        BY <1>inv, <4>1 DEF Claimed
      <4>3. now - claims[key] < Ttl
        BY <1>types, <1>past, <4>1, <4>2
      <4> QED BY <2>2, <2>5, <4>2, <4>3
    <3>3. OneFiringPerWindow'
      BY <1>inv, <2>1, <3>1, <3>2 DEF OneFiringPerWindow
    <3>4. Claimed'
      <4>1. SUFFICES ASSUME NEW i \in DOMAIN firings'
                     PROVE  /\ firings'[i].at <= now
                            /\ now - firings'[i].at < Ttl
                                   => /\ firings'[i].key \in DOMAIN claims'
                                      /\ firings'[i].at <= claims'[firings'[i].key]
        BY <2>1 DEF Claimed
      <4>2. CASE i = Len(firings) + 1
        BY <1>types, <2>1, <2>5, <3>1, <4>2
      <4>3. CASE i \in DOMAIN firings
        BY <1>inv, <1>types, <1>past, <2>2, <2>5, <3>1, <3>2, <4>3 DEF Claimed
      <4> QED BY <3>1, <4>2, <4>3
    <3>5. ClaimIsOfFiring'
      <4>1. SUFFICES ASSUME NEW k \in DOMAIN claims'
                     PROVE  \E i \in DOMAIN firings' :
                                firings'[i].key = k /\ firings'[i].at = claims'[k]
        BY DEF ClaimIsOfFiring
      <4>2. CASE k = key
        BY <2>1, <2>5, <3>1, <4>2
      <4>3. CASE k \in Live /\ k # key
        BY <1>inv, <2>3, <2>5, <3>1, <4>3 DEF ClaimIsOfFiring
      <4> QED BY <2>5, <4>2, <4>3
    <3> QED BY <3>3, <3>4, <3>5
  <2> QED BY <1>1, <2>4, <2>5 DEF Claim, Begun
<1>2. CASE now' >= now /\ now' \in Nat /\ UNCHANGED claims /\ SameFirings
  BY <1>inv, <1>types, <1>past, <1>2 DEF SameFirings, Claimed, OneFiringPerWindow, ClaimIsOfFiring
<1>3. CASE Tick
  BY <1>types, <1>2, <1>3 DEF Tick, SameFirings
<1>4. CASE Act \/ RecordFiring \/ DeadLetter
  BY <1>inv, <1>types, <1>2, <1>4, FiringsKeptBy
     DEF Act, Succeeded, RecordFiring, DeadLetter, EndFiring
<1>5. CASE \/ \E message \in Inputs : Land(message)
           \/ \E root \in Roots : Take(root)
           \/ Handled \/ PassOver \/ UNCHANGED vars
  <2>1. UNCHANGED <<now, claims, firings>>
    BY <1>5 DEF Land, Take, Handled, PassOver, vars, handling
  <2> QED BY <1>types, <1>2, <2>1 DEF SameFirings
<1> QED BY <1>1, <1>3, <1>4, <1>5 DEF Next, OnMessage

LEMMA ClaimInit == Init => ClaimInv
BY TypeInit DEF Init, ClaimInv, Claimed, OneFiringPerWindow, ClaimIsOfFiring

(***************************************************************************)
(* One rule never starts to act twice on the same message within the TTL:  *)
(* claim_idempotency keeps its promise for any rules, messages and TTL.    *)
(***************************************************************************)
THEOREM FiresOncePerWindow == Spec => []OneFiringPerWindow
<1>1. ClaimInv => OneFiringPerWindow
  BY DEF ClaimInv
<1> QED BY <1>1, ClaimInit, ClaimStep, PTL DEF Spec

(***************************************************************************)
(* Every claim that suppresses is that of a firing, and as old.            *)
(***************************************************************************)
THEOREM SuppressesWithReason == Spec => []ClaimIsOfFiring
<1>1. ClaimInv => ClaimIsOfFiring
  BY DEF ClaimInv
<1> QED BY <1>1, ClaimInit, ClaimStep, PTL DEF Spec

-----------------------------------------------------------------------------
(***************************************************************************)
(* A firing that is not the last one, or that does not change, stays       *)
(* accounted for.                                                          *)
(***************************************************************************)
Accounted(firing) ==
    LET actions == Len(Rules[firing.rule].actions)
    IN  /\ firing.outcome \in {"audited", "unaudited"} => firing.done = actions
        /\ firing.outcome = "dead_lettered" => firing.done < actions

Acting == stage \in {"acting", "audit", "dead_letter"}

LEMMA AccountedParts ==
    FiringAccounted <=>
        \A i \in DOMAIN firings :
            /\ Accounted(firings[i])
            /\ firings[i].outcome = "open" => i = Len(firings) /\ Acting
BY DEF FiringAccounted, Accounted, Acting

LEMMA AccountStep == AccountInv /\ [Next]_vars => AccountInv'
<1> SUFFICES ASSUME AccountInv, [Next]_vars PROVE OpenOne' /\ FiringAccounted'
  BY TypeStep, StartedStep DEF AccountInv
<1>inv. TypeOK /\ Started /\ OpenOne /\ FiringAccounted
  BY DEF AccountInv
<1>all. \A i \in DOMAIN firings :
            /\ Accounted(firings[i])
            /\ firings[i].outcome = "open" => i = Len(firings) /\ Acting
  BY <1>inv, AccountedParts
<1>seq. firings \in Seq(Firing) /\ DOMAIN firings = 1 .. Len(firings) /\ Len(firings) \in Nat
  BY <1>inv DEF TypeOK
<1>1. CASE \/ \E message \in Inputs : Land(message)
           \/ Tick \/ Handled \/ PassOver \/ UNCHANGED vars
           \/ \E root \in Roots : Take(root)
  <2>1. /\ UNCHANGED firings
        /\ Acting' = Acting
        /\ Acting => UNCHANGED <<stage, turn, step>>
    BY <1>1 DEF Land, Tick, Take, Handled, PassOver, vars, handling, Acting
  <2> QED BY <1>inv, <2>1 DEF OpenOne, FiringAccounted, Acting
<1>2. CASE Claim
  <2>1. Begun \in Firing /\ Begun.outcome = "open" /\ Begun.done = 0 /\ Begun.rule = turn
    BY <1>inv, <1>2, BegunType DEF Claim, Begun
  <2>2. CASE UNCHANGED <<stage, step, firings>>
    BY <1>inv, <1>2, <2>2 DEF Claim, OpenOne, FiringAccounted
  <2>3. CASE firings' = Append(firings, Begun) /\ stage' = "acting" /\ step' = 1 /\ UNCHANGED turn
    <3>1. /\ DOMAIN firings' = 1 .. Len(firings) + 1
          /\ Len(firings') = Len(firings) + 1
          /\ \A i \in DOMAIN firings : firings'[i] = firings[i]
          /\ firings'[Len(firings) + 1] = Begun
      BY <1>seq, <2>1, <2>3
    <3>2. ~ Acting
      BY <1>2 DEF Claim, Acting
    <3>3. OpenOne'
      BY <1>seq, <2>1, <2>3, <3>1 DEF OpenOne
    <3>4. Accounted(Begun)'
      BY <2>1, <2>3, <1>2 DEF Accounted, Begun, Claim
    <3>5. FiringAccounted'
      BY <1>all, <1>seq, <2>1, <2>3, <3>1, <3>2
         DEF FiringAccounted, Accounted
    <3> QED BY <3>3, <3>5
  <2> QED BY <1>2, <2>2, <2>3 DEF Claim, Begun
<1>3. ASSUME NEW firing \in Firing,
             firings' = [firings EXCEPT ![Len(firings)] = firing],
             Acting, Accounted(firing),
             firing.outcome = "open" => Acting'
      PROVE  FiringAccounted'
  <2>0. firings # <<>>
    BY <1>inv, <1>3 DEF Started, Acting
  <2>1. /\ firings' \in Seq(Firing)
        /\ Len(firings') = Len(firings)
        /\ firings'[Len(firings)] = firing
        /\ \A i \in 1 .. Len(firings) - 1 : firings'[i] = firings[i]
    <3>1. firings' = [firings EXCEPT ![Len(firings)] = firing]
      BY <1>3
    <3>2. firings \in Seq(Firing)
      BY <1>seq
    <3> QED BY <2>0, <3>1, <3>2, LastChanged
  <2>2. ASSUME NEW i \in 1 .. Len(firings)
        PROVE  /\ Accounted(firings'[i])
               /\ firings'[i].outcome = "open" => i = Len(firings') /\ Acting'
    <3>1. CASE i = Len(firings)
      BY <1>3, <2>1, <3>1
    <3>2. CASE i # Len(firings)
      <4>1. i \in 1 .. Len(firings) - 1
        <5>1. Len(firings) \in Nat
          BY <1>seq
        <5> QED BY <3>2, <5>1
      <4>2. firings'[i] = firings[i]
        BY <2>1, <4>1
      <4> QED BY <1>all, <1>seq, <3>2, <4>2
    <3> QED BY <3>1, <3>2
  <2>3. DOMAIN firings' = 1 .. Len(firings)
    BY <1>seq, <2>1
  <2> QED BY <2>2, <2>3 DEF FiringAccounted, Accounted, Acting
<1>4. CASE Act
  <2> DEFINE last == firings[Len(firings)]
             actions == Len(Rules[turn].actions)
  <2>1. /\ turn \in 1 .. Len(Rules) /\ step \in 1 .. actions /\ actions \in Nat
        /\ UNCHANGED turn /\ Acting /\ firings # <<>>
    BY <1>inv, <1>4, RuleParts DEF Act, TypeOK, Acting, Started
  <2>2. last.rule = turn /\ last.outcome = "open" /\ last.done = step - 1
    BY <1>inv, <1>4 DEF Act, OpenOne
  <2>3. CASE Succeeded(Action)
    <3> DEFINE new == [last EXCEPT !.done = @ + 1]
    <3>1. new \in Firing /\ firings' = [firings EXCEPT ![Len(firings)] = new]
      BY <1>inv, <2>1, <2>3, LastDone DEF Succeeded
    <3>2. last \in Firing
      BY <1>seq, <2>1
    <3>3. new.rule = turn /\ new.outcome = "open" /\ new.done = step
      BY <2>1, <2>2, <3>2 DEF Firing
    <3>4. Acting'
      BY <1>4, <2>3 DEF Act, Succeeded, Acting
    <3>5. FiringAccounted'
      BY <1>3, <2>1, <3>1, <3>3, <3>4 DEF Accounted
    <3>6. Len(firings') = Len(firings) /\ firings'[Len(firings)] = new /\ Len(firings) # 0
      BY <1>seq, <2>1, <3>1, LastChanged
    <3>7. OpenOne'
      BY <1>4, <2>1, <2>3, <3>3, <3>6 DEF OpenOne, Succeeded, Act
    <3> QED BY <3>5, <3>7
  <2>4. CASE stage' = "dead_letter" /\ UNCHANGED <<firings, step>>
    BY <1>inv, <2>1, <2>2, <2>4 DEF OpenOne, FiringAccounted, Acting
  <2> QED BY <1>4, <2>3, <2>4 DEF Act
<1>5. ASSUME stage \in {"audit", "dead_letter"},
             NEW outcome \in {"audited", "unaudited", "dead_lettered"},
             EndFiring(outcome),
             stage = "dead_letter" <=> outcome = "dead_lettered"
      PROVE  OpenOne' /\ FiringAccounted'
  <2> DEFINE last == firings[Len(firings)]
             new == [last EXCEPT !.outcome = outcome]
  <2>1. Acting /\ firings # <<>>
    BY <1>inv, <1>5 DEF Acting, Started
  <2>2. /\ last.rule = turn
        /\ stage = "audit" => last.done = Len(Rules[turn].actions)
        /\ stage = "dead_letter" => last.done < Len(Rules[turn].actions)
    BY <1>inv, <1>5 DEF OpenOne
  <2>3. new \in Firing /\ firings' = [firings EXCEPT ![Len(firings)] = new]
    BY <1>inv, <1>5, <2>1, LastEnds DEF EndFiring
  <2>4. last \in Firing
    BY <1>seq, <2>1
  <2>5. new.rule = turn /\ new.done = last.done /\ new.outcome = outcome
    <3>1. \A firing \in Firing :
              /\ [firing EXCEPT !.outcome = outcome].rule = firing.rule
              /\ [firing EXCEPT !.outcome = outcome].done = firing.done
              /\ [firing EXCEPT !.outcome = outcome].outcome = outcome
      BY DEF Firing
    <3> QED BY <2>2, <2>4, <3>1
  <2>6. Accounted(new) /\ new.outcome # "open"
    BY <1>5, <2>2, <2>5 DEF Accounted
  <2>7. FiringAccounted'
    BY <1>3, <2>1, <2>3, <2>6
  <2>8. OpenOne'
    BY <1>5 DEF EndFiring, OpenOne
  <2> QED BY <2>7, <2>8
<1> QED
  BY <1>1, <1>2, <1>4, <1>5 DEF Next, OnMessage, RecordFiring, DeadLetter

LEMMA AccountInit == Init => AccountInv
BY TypeInit DEF Init, AccountInv, OpenOne, FiringAccounted

(***************************************************************************)
(* Whatever fails: what is audited was carried out, what is dead-lettered  *)
(* was not, and nothing is left open behind the engine.                    *)
(***************************************************************************)
THEOREM FiringsAreAccounted == Spec => []FiringAccounted
<1>1. AccountInv => FiringAccounted
  BY DEF AccountInv
<1> QED BY <1>1, AccountInit, AccountStep, PTL DEF Spec

-----------------------------------------------------------------------------
(***************************************************************************)
(* How far the engine is with the rule it is at.                           *)
(***************************************************************************)
Phase ==
    CASE stage = "acting" -> step
      [] stage \in {"audit", "dead_letter"} -> Len(Rules[turn].actions) + 1
      [] OTHER -> 0

Further ==
    /\ current' = current
    /\ turn' = turn + 1 \/ (turn' = turn /\ Phase' > Phase)

MessageEnds ==
    [][/\ OnMessage => Further \/ (turn = Len(Rules) + 1 /\ stage' = "idle")
       /\ ~OnMessage /\ stage # "idle" => UNCHANGED handling]_vars

(***************************************************************************)
(* Every step of on_message takes the engine further with the message in   *)
(* hand: to the next rule, or to the next action of the rule it is at, and *)
(* after the last rule it is through.  Nothing takes it back, whatever     *)
(* fails and whatever its own actions put on the queues.  With the bounds  *)
(* of TypeOK on turn and step, this is EngineMovesOn without the fairness. *)
(***************************************************************************)
THEOREM EachStepLeadsOn == Spec => MessageEnds
<1>1. ASSUME TypeOK, OnMessage
      PROVE  Further \/ (turn = Len(Rules) + 1 /\ stage' = "idle")
  <2>1. turn \in Nat /\ Len(Rules) \in Nat
    BY <1>1, EngineAssumption DEF TypeOK
  <2>2. \A i \in 1 .. Len(Rules) : Len(Rules[i].actions) \in Nat /\ Len(Rules[i].actions) >= 1
    BY RuleParts
  <2>3. CASE Handled
    BY <2>3 DEF Handled
  <2>4. CASE PassOver
    BY <2>4 DEF PassOver, Further
  <2>5. CASE Claim
    <3>1. CASE turn' = turn + 1 /\ current' = current
      BY <3>1 DEF Further
    <3>2. CASE turn' = turn /\ current' = current /\ stage' = "acting" /\ step' = 1
      <4>1. Phase = 0 /\ Phase' = 1
        BY <2>5, <3>2 DEF Claim, Phase
      <4> QED BY <3>2, <4>1 DEF Further
    <3> QED BY <2>5, <3>1, <3>2 DEF Claim
  <2>6. CASE Act
    <3>1. /\ stage = "acting" /\ turn' = turn /\ current' = current /\ turn \in 1 .. Len(Rules)
          /\ step \in 1 .. Len(Rules[turn].actions) /\ Phase = step
      BY <1>1, <2>6 DEF Act, TypeOK, Phase
    <3>2. CASE stage' = "acting" /\ step' = step + 1
      <4>1. Phase' = step + 1
        BY <3>2 DEF Phase
      <4> QED BY <2>2, <3>1, <4>1 DEF Further
    <3>3. CASE stage' \in {"audit", "dead_letter"}
      <4>1. Phase' = Len(Rules[turn].actions) + 1
        BY <3>1, <3>3 DEF Phase
      <4> QED BY <2>2, <3>1, <4>1 DEF Further
    <3> QED BY <2>6, <3>1, <3>2, <3>3 DEF Act, Succeeded
  <2>7. CASE RecordFiring \/ DeadLetter
    BY <2>7 DEF RecordFiring, DeadLetter, EndFiring, Further
  <2> QED BY <1>1, <2>3, <2>4, <2>5, <2>6, <2>7 DEF OnMessage
<1>2. ASSUME Next, ~OnMessage, stage # "idle" PROVE UNCHANGED handling
  BY <1>2 DEF Next, Land, Tick, Take
<1>3. TypeOK /\ [Next]_vars =>
        [/\ OnMessage => Further \/ (turn = Len(Rules) + 1 /\ stage' = "idle")
         /\ ~OnMessage /\ stage # "idle" => UNCHANGED handling]_vars
  BY <1>1, <1>2
<1> QED BY <1>3, TypeCorrect, PTL DEF Spec, MessageEnds

=============================================================================
