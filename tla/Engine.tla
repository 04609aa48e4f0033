------------------------------- MODULE Engine -------------------------------
(***************************************************************************)
(* The automation engine: crates/iot-automation/src/engine.rs.             *)
(*                                                                         *)
(* One task takes messages from two subscriptions, device.> and            *)
(* command.intent.>, and goes through the rules one by one.  A rule whose  *)
(* condition holds claims the key (rule, subject, payload) for Ttl, then   *)
(* acts, one publish after the other, until one fails; it is audited if    *)
(* all succeeded and dead-lettered if not.  What it publishes may come     *)
(* back as a message.  Time passes at every await.                         *)
(*                                                                         *)
(* The claims live as long as the process; a restart is Init.              *)
(***************************************************************************)
EXTENDS Naturals, Sequences

CONSTANTS
    Messages,    \* subjects with their payloads
    RootOf,      \* the subscription a message belongs to, if any
    RuleIds,
    Rules,       \* the compiled rules, in the order of the engine's vector
    Inputs,      \* the messages devices and voice clients send
    Log,         \* the action that only logs
    Endless,     \* the rules whose log template never renders for a message
    Ttl,         \* IDEMPOTENCY_TTL
    MaxNow,      \* bound: time
    MaxInputs    \* bound: messages from outside

\* The subscriptions of Engine::run.
Roots == {"device", "intent"}

\* passes: the messages that trigger the rule and satisfy its condition.
\* Rule::compile refuses a rule without an action.
Rule == [id : RuleIds, passes : SUBSET Messages,
         actions : Seq(Messages \cup {Log}) \ {<<>>}]

ASSUME EngineAssumption ==
    /\ RootOf \in [Messages -> Roots \cup {"elsewhere"}]
    /\ Rules \in Seq(Rule)
    /\ Inputs \subseteq Messages
    /\ Log \notin Messages
    /\ Endless \subseteq RuleIds \X Messages
    /\ Ttl \in Nat /\ MaxNow \in Nat /\ MaxInputs \in Nat

VARIABLES
    now,       \* Instant::now
    queues,    \* per subscription, the messages not yet taken
    stage,     \* where on_message stands
    current,   \* the message it handles
    turn,      \* the rule it is at
    step,      \* the action `fire' is at
    claims,    \* Engine.idempotency
    firings,   \* history: every firing with its claim, its actions and its end
    inputs     \* history, for the bound: how many messages came from outside

handling == <<stage, current, turn, step>>
vars == <<now, queues, handling, claims, firings, inputs>>

\* idempotency_key, collision free.
Key == RuleIds \X Messages
KeyOf(i, message) == <<Rules[i].id, message>>

Firing == [key : Key, rule : Nat, at : Nat, done : Nat,
           outcome : {"open", "audited", "unaudited", "dead_lettered"}]

TypeOK ==
    /\ now \in 0 .. MaxNow
    /\ queues \in [Roots -> Seq(Messages)]
    /\ stage \in {"idle", "rules", "acting", "audit", "dead_letter"}
    /\ stage # "idle" => current \in Messages
    /\ turn \in 1 .. Len(Rules) + 1
    /\ stage \in {"acting", "audit", "dead_letter"} => turn <= Len(Rules)
    /\ stage = "acting" => step \in 1 .. Len(Rules[turn].actions)
    /\ DOMAIN claims \subseteq Key
    /\ \A key \in DOMAIN claims : claims[key] \in 0 .. now
    /\ firings \in Seq(Firing)
    /\ inputs \in 0 .. MaxInputs

Init ==
    /\ now = 0
    /\ queues = [root \in Roots |-> <<>>]
    /\ stage = "idle"
    /\ current = Log
    /\ turn = 1
    /\ step = 1
    /\ claims = <<>>
    /\ firings = <<>>
    /\ inputs = 0

\* The bus delivers a message to the subscription it belongs to.
Delivered(message) ==
    IF RootOf[message] \in Roots
    THEN [queues EXCEPT ![RootOf[message]] = Append(@, message)]
    ELSE queues

Land(message) ==
    /\ inputs < MaxInputs
    /\ inputs' = inputs + 1
    /\ queues' = Delivered(message)
    /\ UNCHANGED <<now, handling, claims, firings>>

Tick ==
    /\ now < MaxNow
    /\ now' = now + 1
    /\ UNCHANGED <<queues, handling, claims, firings, inputs>>

-----------------------------------------------------------------------------
(***************************************************************************)
(* on_message.                                                             *)
(***************************************************************************)

\* stream::select takes from either subscription.
Take(root) ==
    /\ stage = "idle"
    /\ queues[root] # <<>>
    /\ current' = Head(queues[root])
    /\ queues' = [queues EXCEPT ![root] = Tail(@)]
    /\ turn' = 1
    /\ stage' = "rules"
    /\ UNCHANGED <<now, step, claims, firings, inputs>>

Handled ==
    /\ stage = "rules"
    /\ turn = Len(Rules) + 1
    /\ stage' = "idle"
    /\ UNCHANGED <<now, queues, current, turn, step, claims, firings, inputs>>

\* The rule is not triggered, its condition is false, or the evaluation
\* fails: any evaluation may exceed EVAL_TIMEOUT on a loaded host.
PassOver ==
    /\ stage = "rules"
    /\ turn <= Len(Rules)
    /\ turn' = turn + 1
    /\ UNCHANGED <<now, queues, stage, current, step, claims, firings, inputs>>

Live == { key \in DOMAIN claims : now - claims[key] < Ttl }

\* Mutation of Claim: the map is looked up after a prune that goes too far.
ClaimPrunesTooMuch ==
    /\ stage = "rules"
    /\ turn <= Len(Rules)
    /\ current \in Rules[turn].passes
    /\ LET key == KeyOf(turn, current)
           young == { k \in Live : now - claims[k] < Ttl - 1 }
       IN  \/ /\ key \in young
              /\ claims' = [k \in young |-> claims[k]]
              /\ turn' = turn + 1
              /\ UNCHANGED <<stage, step, firings>>
           \/ /\ key \notin young
              /\ claims' = [k \in young \cup {key} |-> IF k = key THEN now ELSE claims[k]]
              /\ firings' = Append(firings,
                     [key |-> key, rule |-> turn, at |-> now, done |-> 0, outcome |-> "open"])
              /\ stage' = "acting"
              /\ step' = 1
              /\ UNCHANGED turn
    /\ UNCHANGED <<now, queues, current, inputs>>

\* claim_idempotency, after a condition that holds: prune, then skip the
\* rule if the key is claimed, else claim it and start to fire.
Claim ==
    /\ stage = "rules"
    /\ turn <= Len(Rules)
    /\ current \in Rules[turn].passes
    /\ LET key == KeyOf(turn, current)
       IN  \/ /\ key \in Live
              /\ claims' = [k \in Live |-> claims[k]]
              /\ turn' = turn + 1
              /\ UNCHANGED <<stage, step, firings>>
           \/ /\ key \notin Live
              /\ claims' = [k \in Live \cup {key} |-> IF k = key THEN now ELSE claims[k]]
              /\ firings' = Append(firings,
                     [key |-> key, rule |-> turn, at |-> now, done |-> 0, outcome |-> "open"])
              /\ stage' = "acting"
              /\ step' = 1
              /\ UNCHANGED turn
    /\ UNCHANGED <<now, queues, current, inputs>>

Action == Rules[turn].actions[step]

\* render_template puts a placeholder that a value contains back into the
\* text it scans: it may find the same one for ever.
Renders == KeyOf(turn, current) \notin Endless

Succeeded(action) ==
    /\ action = Log => Renders
    /\ queues' = IF action = Log THEN queues ELSE Delivered(action)
    /\ firings' = [firings EXCEPT ![Len(firings)].done = @ + 1]
    /\ IF step = Len(Rules[turn].actions)
       THEN stage' = "audit" /\ UNCHANGED step
       ELSE step' = step + 1 /\ UNCHANGED stage

\* Mutation of Act: the last action is not recognised.
ActPastEnd ==
    /\ stage = "acting"
    /\ \/ /\ Action = Log => Renders
          /\ queues' = IF Action = Log THEN queues ELSE Delivered(Action)
          /\ firings' = [firings EXCEPT ![Len(firings)].done = @ + 1]
          /\ IF step > Len(Rules[turn].actions)
             THEN stage' = "audit" /\ UNCHANGED step
             ELSE step' = step + 1 /\ UNCHANGED stage
       \/ /\ Action # Log
          /\ stage' = "dead_letter"
          /\ UNCHANGED <<queues, firings, step>>
    /\ UNCHANGED <<now, current, turn, claims, inputs>>

\* Mutation of Act: an action that fails is left out.
ActGoesOn ==
    /\ stage = "acting"
    /\ \/ Succeeded(Action)
       \/ /\ Action # Log
          /\ UNCHANGED <<queues, firings>>
          /\ IF step = Len(Rules[turn].actions)
             THEN stage' = "audit" /\ UNCHANGED step
             ELSE step' = step + 1 /\ UNCHANGED stage
    /\ UNCHANGED <<now, current, turn, claims, inputs>>

\* fire, one action: a publish may fail, which ends the firing.
Act ==
    /\ stage = "acting"
    /\ \/ Succeeded(Action)
       \/ /\ Action # Log
          /\ stage' = "dead_letter"
          /\ UNCHANGED <<queues, firings, step>>
    /\ UNCHANGED <<now, current, turn, claims, inputs>>

\* The firing ends with this outcome; on to the next rule.
EndFiring(outcome) ==
    /\ firings' = [firings EXCEPT ![Len(firings)].outcome = outcome]
    /\ stage' = "rules"
    /\ turn' = turn + 1
    /\ UNCHANGED <<now, queues, current, step, claims, inputs>>

\* record_firing: best effort.
RecordFiring ==
    /\ stage = "audit"
    /\ EndFiring("audited") \/ EndFiring("unaudited")

\* Mutation of DeadLetter: the action that failed is tried again after it.
DeadLetterRetries ==
    /\ stage = "dead_letter"
    /\ stage' = "acting"
    /\ UNCHANGED <<now, queues, current, turn, step, claims, firings, inputs>>

\* dead_letter: a publish on sys.automation.dlq whose result is ignored;
\* neither subscription hears it.
DeadLetter ==
    /\ stage = "dead_letter"
    /\ EndFiring("dead_lettered")

-----------------------------------------------------------------------------
OnMessage == Handled \/ PassOver \/ Claim \/ Act \/ RecordFiring \/ DeadLetter

Next ==
    \/ \E message \in Inputs : Land(message)
    \/ Tick
    \/ \E root \in Roots : Take(root)
    \/ OnMessage

Spec == Init /\ [][Next]_vars

\* The engine task is polled: evaluation and publishes return.
FairSpec == Spec /\ WF_vars(OnMessage)

-----------------------------------------------------------------------------
(***************************************************************************)
(* Properties.                                                             *)
(***************************************************************************)

(***************************************************************************)
(* One rule never starts to act twice on the same message within the TTL,  *)
(* whatever else it handles in between, also when its own actions bring    *)
(* the message back (claim_idempotency).                                   *)
(***************************************************************************)
OneFiringPerWindow ==
    \A i, j \in DOMAIN firings :
        i < j /\ firings[i].key = firings[j].key
            => firings[j].at - firings[i].at >= Ttl

(***************************************************************************)
(* Nothing is suppressed without reason: each claim is of a firing, made   *)
(* when that firing began; the duplicates in between do not prolong it.    *)
(***************************************************************************)
ClaimIsOfFiring ==
    \A key \in DOMAIN claims :
        \E i \in DOMAIN firings : firings[i].key = key /\ firings[i].at = claims[key]

(***************************************************************************)
(* A firing is audited only if every action of its rule was carried out,   *)
(* dead-lettered only if one was not, and none is left open when the       *)
(* engine goes on (on_message: Ok records, Err dead-letters).              *)
(***************************************************************************)
FiringAccounted ==
    \A i \in DOMAIN firings :
        LET actions == Len(Rules[firings[i].rule].actions)
        IN  /\ firings[i].outcome \in {"audited", "unaudited"} => firings[i].done = actions
            /\ firings[i].outcome = "dead_lettered" => firings[i].done < actions
            /\ firings[i].outcome = "open"
                   => i = Len(firings) /\ stage \in {"acting", "audit", "dead_letter"}

(***************************************************************************)
(* A failing action or evaluation does not stop the engine: it always gets *)
(* through with a message (`run': the loop keeps running).  The one thing  *)
(* that does is a message that a log template never gets through with.     *)
(***************************************************************************)
Stuck == stage = "acting" /\ Action = Log /\ ~Renders

EngineMovesOn == stage # "idle" ~> stage = "idle" \/ Stuck

=============================================================================
