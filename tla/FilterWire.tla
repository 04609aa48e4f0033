----------------------------- MODULE FilterWire -----------------------------
(***************************************************************************)
(* What MqttBroker promises about the broker session, without channels,    *)
(* tasks or locks: references to a filter come and go one at a time, and   *)
(* where the first comes or the last goes the wire is told before anything *)
(* else is decided.  A malformed filter is counted like any other and is   *)
(* never put on the wire, not by a later reference either.  Losing the     *)
(* session takes filters off the wire, and nothing brings them back.       *)
(***************************************************************************)
EXTENDS Naturals

CONSTANTS Filters, Malformed, None

VARIABLES
    count,  \* references to each filter
    owed,   \* the filter whose change the wire has not been told, or None
    wire,   \* the filters of the session when all that was sent has arrived
    lost    \* a session was lost

vars == <<count, owed, wire, lost>>

Init ==
    /\ count = [f \in Filters |-> 0]
    /\ owed = None
    /\ wire = {}
    /\ lost = FALSE

\* subscribe_filter
Join(f) ==
    /\ owed = None
    /\ count' = [count EXCEPT ![f] = @ + 1]
    /\ owed' = IF count[f] = 0 THEN f ELSE None
    /\ UNCHANGED <<wire, lost>>

\* unsubscribe_filter
Leave(f) ==
    /\ owed = None
    /\ count[f] > 0
    /\ count' = [count EXCEPT ![f] = @ - 1]
    /\ owed' = IF count[f] = 1 THEN f ELSE None
    /\ UNCHANGED <<wire, lost>>

\* The SUBSCRIBE or UNSUBSCRIBE both of them await.
Tell ==
    /\ owed # None
    /\ count[owed] > 0 => owed \notin Malformed
    /\ wire' = IF count[owed] > 0 THEN wire \cup {owed} ELSE wire \ {owed}
    /\ owed' = None
    /\ UNCHANGED <<count, lost>>

\* The SUBSCRIBE the client does not send: the reference stays.
Refuse ==
    /\ owed # None
    /\ count[owed] > 0
    /\ owed \in Malformed
    /\ owed' = None
    /\ UNCHANGED <<count, wire, lost>>

\* spawn_eventloop: the clean session is gone.
Lose ==
    /\ wire' \in SUBSET wire
    /\ lost' = TRUE
    /\ UNCHANGED <<count, owed>>

Next ==
    \/ \E f \in Filters : Join(f) \/ Leave(f)
    \/ Tell
    \/ Refuse
    \/ Lose

Spec == Init /\ [][Next]_vars

=============================================================================
