------------------------------- MODULE Panel -------------------------------
(***************************************************************************)
(* The live connection of the panel, panel/src/api/stream.ts, at the       *)
(* gateway of Gateway.tla, beside the requests of other clients.           *)
(*                                                                         *)
(* openStream connects with the token it was given, and schedules a new    *)
(* connection whenever one fails or ends.  A connection that fails raises  *)
(* an error and then a close, in one task of the browser, and each of them *)
(* schedules.                                                              *)
(***************************************************************************)
EXTENDS Gateway

CONSTANTS
    Kid,            \* the key of the token openStream was given
    MaxErrors       \* bound: errors that add a connection; later ones add none

ASSUME PanelAssumption ==
    /\ Kid \in Kids /\ MaxErrors \in Nat
    /\ IsFiniteSet(Streams) /\ Cardinality(Streams) > MaxErrors

VARIABLES
    socket,     \* per connection: "none", "connecting" or "open"
    ws,         \* the connection that close() would close
    timers,     \* reconnections that are scheduled
    status,     \* what was last told to onStatus
    closed,
    errors      \* history: errors that added a connection

panelVars == <<socket, ws, timers, status, closed, errors>>
vars == <<gatewayVars, panelVars>>

TypeOK ==
    /\ GatewayTypeOK
    /\ socket \in [Streams -> {"none", "connecting", "open"}]
    /\ ws \in Streams
    /\ timers \in 0 .. MaxErrors + 1
    /\ status \in {"connecting", "open", "closed"}
    /\ closed \in BOOLEAN
    /\ errors \in 0 .. MaxErrors
    /\ \A s \in Streams : (socket[s] = "none") = (req[s] = Idle)
    /\ ~closed /\ status = "open" => \E s \in Streams : socket[s] = "open"

-----------------------------------------------------------------------------
(***************************************************************************)
(* openStream.                                                             *)
(***************************************************************************)

\* The first connect, in the call of openStream.
Init ==
    /\ GatewayInit
    /\ timers = 1
    /\ socket = [s \in Streams |-> "none"]
    /\ ws \in Streams
    /\ status = "connecting"
    /\ closed = FALSE
    /\ errors = 0

FreeSocket == CHOOSE s \in Streams : socket[s] = "none"

\* Mutation of Connect: the timer goes off again.
ConnectFromInterval ==
    /\ timers > 0
    /\ ~closed
    /\ \E s \in Streams : socket[s] = "none"
    /\ Arrive(FreeSocket, Kid)
    /\ socket' = [socket EXCEPT ![FreeSocket] = "connecting"]
    /\ ws' = FreeSocket
    /\ status' = "connecting"
    /\ UNCHANGED <<timers, closed, errors>>

\* connect, in openStream itself or from a timer.
Connect ==
    /\ timers > 0
    /\ timers' = timers - 1
    /\ ~closed
    /\ Arrive(FreeSocket, Kid)
    /\ socket' = [socket EXCEPT ![FreeSocket] = "connecting"]
    /\ ws' = FreeSocket
    /\ status' = "connecting"
    /\ UNCHANGED <<closed, errors>>

\* The client is closed: "if (closed) return".
TimerIdles ==
    /\ timers > 0
    /\ timers' = timers - 1
    /\ closed
    /\ UNCHANGED <<gatewayVars, socket, ws, status, closed, errors>>

\* onopen.
Opens(s) ==
    /\ socket[s] = "connecting"
    /\ req[s].phase = "done" /\ req[s].status = 101
    /\ socket' = [socket EXCEPT ![s] = "open"]
    /\ status' = "open"
    /\ UNCHANGED <<gatewayVars, ws, timers, closed, errors>>

\* Mutation of Schedule: the status stays.
ScheduleSilently(n) ==
    /\ timers' = IF closed THEN timers ELSE timers + n
    /\ status' = status

\* schedule, called n times.
Schedule(n) ==
    /\ timers' = IF closed THEN timers ELSE timers + n
    /\ status' = IF closed THEN status ELSE "closed"

Refused(s) == socket[s] = "connecting" /\ req[s].phase = "done" /\ req[s].status # 101

\* The server drops what it was doing for a connection that is gone.
Gone(s) ==
    /\ socket' = [socket EXCEPT ![s] = "none"]
    /\ req' = [req EXCEPT ![s] = Idle]
    /\ UNCHANGED <<now, turned, jwks, ws>>

\* onerror and onclose of a handshake that was refused or did not get
\* through, or of a connection that broke.
Fails(s) ==
    /\ socket[s] # "none"
    /\ Gone(s)
    /\ \/ /\ errors < MaxErrors
          /\ errors' = errors + 1
          /\ Schedule(2)
       \/ /\ errors = MaxErrors
          /\ Schedule(1)
          /\ UNCHANGED errors
    /\ UNCHANGED closed

\* Mutation of Ends: only an error schedules.
EndsForGood(s) ==
    /\ socket[s] = "open"
    /\ Gone(s)
    /\ UNCHANGED <<timers, status, closed, errors>>

\* onclose alone: the gateway closed the connection.
Ends(s) ==
    /\ socket[s] = "open"
    /\ Gone(s)
    /\ Schedule(1)
    /\ UNCHANGED <<closed, errors>>

\* The page goes away: the one connection that ws names is closed.
CloseClient ==
    /\ ~closed
    /\ closed' = TRUE
    /\ Gone(ws)
    /\ UNCHANGED <<timers, status, errors>>

-----------------------------------------------------------------------------
Gateway == \E r \in Requests : Handle(r) /\ UNCHANGED panelVars

\* Other clients of the gateway.
Clients ==
    \E r \in Requests \ Streams :
        ((\E k \in Kids : Arrive(r, k)) \/ Turnaway(r)) /\ UNCHANGED panelVars

Time == (Turn \/ Tick) /\ UNCHANGED panelVars

Next ==
    \/ Gateway \/ Clients \/ Time
    \/ Connect \/ TimerIdles
    \/ \E s \in Streams : Opens(s) \/ Fails(s) \/ Ends(s)
    \/ CloseClient

Spec == Init /\ [][Next]_vars

\* Requests are served, the issuer answers or the fetch times out, timers
\* fire, and the browser reports what became of a connection.
FairSpec ==
    /\ Spec
    /\ \A r \in Streams : WF_vars(Handle(r) /\ UNCHANGED panelVars)
    /\ \A s \in Streams : WF_vars(Opens(s)) /\ WF_vars(Refused(s) /\ Fails(s))
    /\ WF_vars(Connect)

-----------------------------------------------------------------------------
(***************************************************************************)
(* Properties.                                                             *)
(***************************************************************************)

Lines == timers + Cardinality({ s \in Streams : socket[s] # "none" })

(***************************************************************************)
(* A connection that ends is replaced by one; each error adds one that     *)
(* stays, so that a gateway that was away is met by as many connections as *)
(* there were failures, and every message arrives on each of them          *)
(* (openStream, "ws.onclose = schedule; ws.onerror = schedule").  This is  *)
(* what the code does, with MaxErrors the errors that are counted so.      *)
(***************************************************************************)
EachErrorAddsALine == ~closed => Lines = 1 + errors

\* A handshake that is refused or does not get through.
HandshakeFails == \E s \in Streams : socket[s] = "connecting" /\ Fails(s)

(***************************************************************************)
(* The panel never gives up: whatever refused or dropped it, it is         *)
(* connected again, unless the page is gone or handshakes go on failing    *)
(* without end.  (They do for a token whose key was withdrawn: url is made *)
(* once, with the token openStream was given.)                             *)
(***************************************************************************)
PanelComesBack ==
    \/ []<>(closed \/ \E s \in Streams : socket[s] = "open")
    \/ []<><<HandshakeFails>>_vars

=============================================================================
