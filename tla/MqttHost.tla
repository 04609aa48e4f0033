------------------------------ MODULE MqttHost ------------------------------
(***************************************************************************)
(* MQTT inside the plugin host: the routing table (MqttRouter), the        *)
(* per-filter refcount and its async mutex (MqttBroker), the event loop    *)
(* task that owns the connection, the plugin tasks with their mailboxes    *)
(* (runtime.rs), the subscribe/publish host calls (component.rs) and the   *)
(* clean-up a supervisor does when a plugin exits (supervisor.rs).         *)
(*                                                                         *)
(* The broker, the rumqttc client and the tokio channels are external:     *)
(* they are modelled as the code uses them.                                *)
(***************************************************************************)
EXTENDS Naturals, Sequences, FiniteSets, Functions

CONSTANTS
    Plugins,       \* plugin ids, one supervisor and at most one task each
    Filters,       \* the filters plugins subscribe to
    Topics,        \* the topics devices publish on
    Matches,       \* pairs <<filter, topic>> with matches_mqtt_topic
    Granted,       \* pairs <<plugin, filter>> that check_mqtt_subscribe lets pass
    Malformed,     \* filters the client refuses to send, like "a/#/b"
    Talkers,       \* plugins whose on_mqtt_message handler calls mqtt.publish
    None,
    MailboxDepth,  \* MAILBOX_DEPTH
    RequestDepth,  \* capacity of the client request channel (64 in connect)
    MaxSpawns,     \* bound: incarnations of all plugins together
    MaxCalls,      \* bound: subscribe calls of an incarnation
    MaxInbound     \* bound: messages between the broker and the event loop

ASSUME HostAssumption ==
    /\ Matches \subseteq Filters \X Topics
    /\ Granted \subseteq Plugins \X Filters
    /\ Malformed \subseteq Filters
    /\ Talkers \subseteq Plugins
    /\ IsFiniteSet(Plugins)
    /\ Filters # {}
    /\ None \notin Plugins \cup Filters
    /\ MailboxDepth \in Nat \ {0}
    /\ RequestDepth \in Nat \ {0}
    /\ {MaxSpawns, MaxCalls, MaxInbound} \subseteq Nat

VARIABLES
    pc,         \* control of the plugin's task, then of its supervisor
    guest,      \* the guest export whose host call is in progress
    want,       \* the filter of the host call in progress
    gen,        \* incarnation of the plugin; a (plugin, gen) is one mailbox tx
    mailbox,    \* messages queued in the current incarnation's mailbox
    flush,      \* entries whose filter the supervisor still has to drop
    router,     \* MqttRouter.inner; the order of the Vec only orders sends
    refcount,   \* MqttBroker.filter_refcount, 0 for an absent key
    lock,       \* holder of the refcount mutex across the broker call
    requests,   \* the rumqttc request channel
    loop,       \* the event loop task: polling or dispatching
    todo,       \* dispatch: snapshot entries not sent yet
    sending,    \* dispatch: the one of them whose send is awaited
    dead,       \* dispatch: (plugin, filter) pairs whose send failed
    session,    \* whether the broker holds a session for the host
    broker,     \* the filters of that session
    inbound,    \* messages the broker has sent and the loop has not polled
    lost,       \* history: a session was lost since the host started
    asked       \* history: registrations the current incarnation made

pluginVars == <<pc, guest, want, gen, mailbox, flush, asked>>
dispatchVars == <<loop, todo, sending, dead>>
networkVars == <<session, broker, inbound, lost>>
vars == <<pluginVars, router, refcount, lock, requests, dispatchVars, networkVars>>

\* One registration; nth tells apart those of one incarnation on one filter.
Route == [plugin : Plugins, filter : Filters, gen : Nat, nth : Nat]
Request ==
    [op : {"subscribe", "unsubscribe"}, filter : Filters]
        \cup [op : {"publish"}, filter : {None}]

InGuest == {"init", "handler"}
InHostCall == {"locking", "subscribing", "publishing"}
Points == InGuest \cup InHostCall
            \cup {"down", "idle", "exited", "flushing", "unsubscribing"}

\* The mpsc receiver lives as long as the task.
Alive(p) == pc[p] \in InGuest \cup InHostCall \cup {"idle"}

Open(route) == Alive(route.plugin) /\ gen[route.plugin] = route.gen

PluginTypeOK ==
    /\ pc \in [Plugins -> Points]
    /\ guest \in [Plugins -> InGuest]
    /\ want \in [Plugins -> Filters]
    /\ gen \in [Plugins -> Nat]
    /\ mailbox \in [Plugins -> 0 .. MailboxDepth]
    /\ asked \in [Plugins -> [Filters -> Nat]]

RoutingTypeOK ==
    /\ router \in SUBSET Route
    /\ flush \in [Plugins -> SUBSET Route]
    /\ loop \in {"polling", "dispatching"}
    /\ todo \in SUBSET Route
    /\ sending \in todo \cup {None}
    /\ dead \in SUBSET (Plugins \X Filters)

WireTypeOK ==
    /\ refcount \in [Filters -> Nat]
    /\ lock \in Plugins \cup {None}
    /\ requests \in Seq(Request) /\ Len(requests) <= RequestDepth
    /\ session \in BOOLEAN
    /\ broker \in SUBSET Filters
    /\ inbound \in Seq(Topics)
    /\ lost \in BOOLEAN

TypeOK == PluginTypeOK /\ RoutingTypeOK /\ WireTypeOK

Init ==
    /\ pc = [p \in Plugins |-> "down"]
    /\ guest = [p \in Plugins |-> "init"]
    /\ want \in [Plugins -> {CHOOSE f \in Filters : TRUE}]
    /\ gen = [p \in Plugins |-> 0]
    /\ mailbox = [p \in Plugins |-> 0]
    /\ flush = [p \in Plugins |-> {}]
    /\ router = {}
    /\ refcount = [f \in Filters |-> 0]
    /\ lock = None
    /\ requests = <<>>
    /\ loop = "polling"
    /\ todo = {}
    /\ sending = None
    /\ dead = {}
    /\ session = TRUE
    /\ broker = {}
    /\ inbound = <<>>
    /\ lost = FALSE
    /\ asked = [p \in Plugins |-> [f \in Filters |-> 0]]

Go(p, point) == pc' = [pc EXCEPT ![p] = point]

\* The host call is over: control is back in the export that made it.
Return(p) ==
    /\ Go(p, guest[p])
    /\ guest' = [guest EXCEPT ![p] = "init"]

Total(counts) == FoldFunction(LAMBDA n, sum : n + sum, 0, counts)

HasSlot == Len(requests) < RequestDepth

-----------------------------------------------------------------------------
(***************************************************************************)
(* The plugin task.                                                        *)
(***************************************************************************)

\* The bound on incarnations.
SpawnsLeft == Total(gen) < MaxSpawns

\* supervise loads the plugin and spawns a task with a new, empty mailbox.
Spawn(p) ==
    /\ pc[p] = "down"
    /\ SpawnsLeft
    /\ Go(p, "init")
    /\ gen' = [gen EXCEPT ![p] = @ + 1]
    /\ UNCHANGED <<guest, want, mailbox, flush, asked, router, refcount, lock,
                   requests, dispatchVars, networkVars>>

\* init or the handler returns to the command loop.
GuestReturns(p) ==
    /\ pc[p] \in InGuest
    /\ Go(p, "idle")
    /\ UNCHANGED <<guest, want, gen, mailbox, flush, asked, router, refcount,
                   lock, requests, dispatchVars, networkVars>>

\* A trap, a refused init, or a Shutdown command read from the mailbox: the
\* task ends and its receiver drops with whatever is queued.
TaskEnds(p) ==
    /\ pc[p] \in InGuest \cup {"idle"}
    /\ Go(p, "exited")
    /\ mailbox' = [mailbox EXCEPT ![p] = 0]
    /\ asked' = [asked EXCEPT ![p] = [f \in Filters |-> 0]]
    /\ UNCHANGED <<guest, want, gen, flush, router, refcount, lock,
                   requests, dispatchVars, networkVars>>

\* rx.recv: OnMqttMessage is handed to the guest.
TakeMessage(p) ==
    /\ pc[p] = "idle"
    /\ mailbox[p] > 0
    /\ Go(p, "handler")
    /\ mailbox' = [mailbox EXCEPT ![p] = @ - 1]
    /\ UNCHANGED <<guest, want, gen, flush, asked, router, refcount, lock,
                   requests, dispatchVars, networkVars>>

-----------------------------------------------------------------------------
(***************************************************************************)
(* mqtt::subscribe and mqtt::publish.                                      *)
(***************************************************************************)

\* The router registration comes first, then subscribe_filter.  A call the
\* manifest does not cover is denied before either.
CallSubscribe(p, f) ==
    /\ pc[p] \in InGuest
    /\ <<p, f>> \in Granted
    /\ Total(asked[p]) < MaxCalls
    /\ router' = router \cup {[plugin |-> p, filter |-> f, gen |-> gen[p],
                              nth |-> asked[p][f] + 1]}
    /\ asked' = [asked EXCEPT ![p][f] = @ + 1]
    /\ guest' = [guest EXCEPT ![p] = pc[p]]
    /\ want' = [want EXCEPT ![p] = f]
    /\ Go(p, "locking")
    /\ UNCHANGED <<gen, mailbox, flush, refcount, lock, requests,
                   dispatchVars, networkVars>>

\* Mutation of CountSubscriber: a filter that is counted already stays at one.
CountSubscriberOnce(p) ==
    /\ pc[p] = "locking"
    /\ lock = None
    /\ refcount' = [refcount EXCEPT ![want[p]] = 1]
    /\ \/ /\ refcount[want[p]] = 0
          /\ lock' = p
          /\ Go(p, "subscribing")
          /\ UNCHANGED guest
       \/ /\ refcount[want[p]] > 0
          /\ Return(p)
          /\ UNCHANGED lock
    /\ UNCHANGED <<want, gen, mailbox, flush, asked, router, requests,
                   dispatchVars, networkVars>>

\* subscribe_filter up to its await: only 0 -> 1 keeps the mutex, for the
\* SUBSCRIBE request.
CountSubscriber(p) ==
    /\ pc[p] = "locking"
    /\ lock = None
    /\ refcount' = [refcount EXCEPT ![want[p]] = @ + 1]
    /\ \/ /\ refcount[want[p]] = 0
          /\ lock' = p
          /\ Go(p, "subscribing")
          /\ UNCHANGED guest
       \/ /\ refcount[want[p]] > 0
          /\ Return(p)
          /\ UNCHANGED lock
    /\ UNCHANGED <<want, gen, mailbox, flush, asked, router, requests,
                   dispatchVars, networkVars>>

\* client.subscribe().await gets a slot in the request channel.
SendSubscribe(p) ==
    /\ pc[p] = "subscribing"
    /\ want[p] \notin Malformed
    /\ HasSlot
    /\ requests' = Append(requests, [op |-> "subscribe", filter |-> want[p]])
    /\ lock' = None
    /\ Return(p)
    /\ UNCHANGED <<want, gen, mailbox, flush, asked, router, refcount,
                   dispatchVars, networkVars>>

\* client.subscribe() refuses the filter before it asks for a slot.  The call
\* returns an error and the mutex; the count and the route stay.
RefuseSubscribe(p) ==
    /\ pc[p] = "subscribing"
    /\ want[p] \in Malformed
    /\ lock' = None
    /\ Return(p)
    /\ UNCHANGED <<want, gen, mailbox, flush, asked, router, refcount,
                   requests, dispatchVars, networkVars>>

\* Of a topic the client takes: one with a wildcard is refused at once, with
\* nothing changed but the result the guest gets.
CallPublish(p) ==
    /\ pc[p] = "handler"
    /\ p \in Talkers
    /\ Go(p, "publishing")
    /\ guest' = [guest EXCEPT ![p] = "handler"]
    /\ UNCHANGED <<want, gen, mailbox, flush, asked, router, refcount, lock,
                   requests, dispatchVars, networkVars>>

\* client.publish().await gets a slot in the request channel.
SendPublish(p) ==
    /\ pc[p] = "publishing"
    /\ HasSlot
    /\ requests' = Append(requests, [op |-> "publish", filter |-> None])
    /\ Return(p)
    /\ UNCHANGED <<want, gen, mailbox, flush, asked, router, refcount,
                   lock, dispatchVars, networkVars>>

-----------------------------------------------------------------------------
(***************************************************************************)
(* The supervisor's clean-up after join.await.                             *)
(***************************************************************************)

RoutesOf(p) == { route \in router : route.plugin = p }

\* Mutation of Unregister: stale entries are left for dispatch to prune.
UnregisterLazily(p) ==
    /\ pc[p] = "exited"
    /\ flush' = [flush EXCEPT ![p] = RoutesOf(p)]
    /\ Go(p, "flushing")
    /\ UNCHANGED <<guest, want, gen, mailbox, asked, router, refcount, lock,
                   requests, dispatchVars, networkVars>>

\* router.unregister(id): the entries go, their filters are returned.
Unregister(p) ==
    /\ pc[p] = "exited"
    /\ flush' = [flush EXCEPT ![p] = RoutesOf(p)]
    /\ router' = router \ RoutesOf(p)
    /\ Go(p, "flushing")
    /\ UNCHANGED <<guest, want, gen, mailbox, asked, refcount, lock, requests,
                   dispatchVars, networkVars>>

\* Mutation of DropSubscriber: the mutex is released before the broker call,
\* the race of before fix H3.
DropSubscriberUnlocked(p) ==
    /\ pc[p] = "flushing"
    /\ lock = None
    /\ \E route \in flush[p] :
          LET f == route.filter
          IN  /\ refcount' = [refcount EXCEPT ![f] = IF @ = 0 THEN 0 ELSE @ - 1]
              /\ want' = [want EXCEPT ![p] = f]
              /\ Go(p, IF refcount[f] = 1 THEN "unsubscribing" ELSE "flushing")
              /\ flush' = [flush EXCEPT ![p] = @ \ {route}]
    /\ UNCHANGED <<guest, gen, mailbox, asked, router, lock, requests,
                   dispatchVars, networkVars>>

\* unsubscribe_filter up to its await; an absent key is only logged.
DropSubscriber(p) ==
    /\ pc[p] = "flushing"
    /\ lock = None
    /\ \E route \in flush[p] :
          LET f == route.filter
          IN  /\ flush' = [flush EXCEPT ![p] = @ \ {route}]
              /\ \/ /\ refcount[f] = 1
                    /\ refcount' = [refcount EXCEPT ![f] = 0]
                    /\ lock' = p
                    /\ want' = [want EXCEPT ![p] = f]
                    /\ Go(p, "unsubscribing")
                 \/ /\ refcount[f] # 1
                    /\ refcount' = [refcount EXCEPT ![f] = IF @ = 0 THEN 0 ELSE @ - 1]
                    /\ UNCHANGED <<lock, want, pc>>
    /\ UNCHANGED <<guest, gen, mailbox, asked, router, requests, dispatchVars,
                   networkVars>>

\* Mutation of SendUnsubscribe: the mutex guard outlives the call.
SendUnsubscribeLocked(p) ==
    /\ pc[p] = "unsubscribing"
    /\ HasSlot
    /\ requests' = Append(requests, [op |-> "unsubscribe", filter |-> want[p]])
    /\ Go(p, "flushing")
    /\ UNCHANGED <<guest, want, gen, mailbox, flush, asked, router, refcount,
                   lock, dispatchVars, networkVars>>

\* client.unsubscribe().await gets a slot in the request channel, whatever
\* the filter looks like.
SendUnsubscribe(p) ==
    /\ pc[p] = "unsubscribing"
    /\ HasSlot
    /\ requests' = Append(requests, [op |-> "unsubscribe", filter |-> want[p]])
    /\ lock' = None
    /\ Go(p, "flushing")
    /\ UNCHANGED <<guest, want, gen, mailbox, flush, asked, router, refcount,
                   dispatchVars, networkVars>>

\* The loop over the removed filters ends: back-off, dead letter or clean
\* exit (Supervisor decides which; Spawn is the restart).
Flushed(p) ==
    /\ pc[p] = "flushing"
    /\ flush[p] = {}
    /\ Go(p, "down")
    /\ UNCHANGED <<guest, want, gen, mailbox, flush, asked, router, refcount,
                   lock, requests, dispatchVars, networkVars>>

-----------------------------------------------------------------------------
(***************************************************************************)
(* The event loop task: one task polls the connection, drains the request  *)
(* channel and runs dispatch to completion.                                *)
(***************************************************************************)

\* poll sends the oldest request; the broker acts on it.
PollSend ==
    /\ loop = "polling"
    /\ session
    /\ requests # <<>>
    /\ requests' = Tail(requests)
    /\ broker' = LET r == Head(requests)
                 IN  IF r.op = "subscribe" THEN broker \cup {r.filter}
                     ELSE IF r.op = "unsubscribe" THEN broker \ {r.filter}
                     ELSE broker
    /\ UNCHANGED <<pluginVars, router, refcount, lock, dispatchVars, session,
                   inbound, lost>>

\* The send that comes first among these entries, if there is one.
NextSend(routes) == IF routes = {} THEN {None} ELSE routes

\* poll returns a Publish: dispatch snapshots the matching registrations.
PollReceive ==
    /\ loop = "polling"
    /\ inbound # <<>>
    /\ inbound' = Tail(inbound)
    /\ loop' = "dispatching"
    /\ todo' = { route \in router : <<route.filter, Head(inbound)>> \in Matches }
    /\ sending' \in NextSend(todo')
    /\ dead' = {}
    /\ UNCHANGED <<pluginVars, router, refcount, lock, requests, session,
                   broker, lost>>

\* Mutation of DispatchNext: the mailbox is not bounded.
DispatchNextUnbounded ==
    /\ sending # None
    /\ \/ /\ Open(sending)
          /\ mailbox' = [mailbox EXCEPT ![sending.plugin] = @ + 1]
          /\ UNCHANGED dead
       \/ /\ ~Open(sending)
          /\ dead' = dead \cup {<<sending.plugin, sending.filter>>}
          /\ UNCHANGED mailbox
    /\ todo' = todo \ {sending}
    /\ sending' \in NextSend(todo')
    /\ UNCHANGED <<pc, guest, want, gen, flush, asked, router, refcount, lock,
                   requests, loop, networkVars>>

\* tx.send().await on a snapshot entry: it waits while the mailbox is full,
\* and fails when the receiver is gone.
DispatchNext ==
    /\ sending # None
    /\ \/ /\ Open(sending)
          /\ mailbox[sending.plugin] < MailboxDepth
          /\ mailbox' = [mailbox EXCEPT ![sending.plugin] = @ + 1]
          /\ UNCHANGED dead
       \/ /\ ~Open(sending)
          /\ dead' = dead \cup {<<sending.plugin, sending.filter>>}
          /\ UNCHANGED mailbox
    /\ todo' = todo \ {sending}
    /\ sending' \in NextSend(todo')
    /\ UNCHANGED <<pc, guest, want, gen, flush, asked, router, refcount, lock,
                   requests, loop, networkVars>>

\* dispatch prunes by (plugin, filter) and returns to the poll loop.
DispatchDone ==
    /\ loop = "dispatching"
    /\ sending = None
    /\ router' = { route \in router : <<route.plugin, route.filter>> \notin dead }
    /\ loop' = "polling"
    /\ dead' = {}
    /\ UNCHANGED <<pluginVars, refcount, lock, requests, todo, sending, networkVars>>

\* poll fails: the clean session and what was in flight are gone.
ConnectionLost ==
    /\ loop = "polling"
    /\ session
    /\ session' = FALSE
    /\ broker' = {}
    /\ inbound' = <<>>
    /\ lost' = TRUE
    /\ UNCHANGED <<pluginVars, router, refcount, lock, requests, dispatchVars>>

\* After the 2 s sleep poll connects again; the ConnAck is only logged.
Reconnect ==
    /\ loop = "polling"
    /\ ~session
    /\ session' = TRUE
    /\ UNCHANGED <<pluginVars, router, refcount, lock, requests, dispatchVars,
                   broker, inbound, lost>>

\* A device publishes on a topic some filter of the session matches.
DevicePublishes(t) ==
    /\ session
    /\ Len(inbound) < MaxInbound
    /\ \E f \in broker : <<f, t>> \in Matches
    /\ inbound' = Append(inbound, t)
    /\ UNCHANGED <<pluginVars, router, refcount, lock, requests, dispatchVars,
                   session, broker, lost>>

-----------------------------------------------------------------------------
HostCall(p) ==
    \/ CountSubscriber(p)
    \/ SendSubscribe(p)
    \/ RefuseSubscribe(p)
    \/ SendPublish(p)

CleanUp(p) ==
    \/ Unregister(p)
    \/ DropSubscriber(p)
    \/ SendUnsubscribe(p)
    \/ Flushed(p)

Guest(p) ==
    \/ GuestReturns(p)
    \/ TaskEnds(p)
    \/ TakeMessage(p)
    \/ \E f \in Filters : CallSubscribe(p, f)
    \/ CallPublish(p)

EventLoop ==
    \/ PollSend
    \/ PollReceive
    \/ DispatchNext
    \/ DispatchDone
    \/ Reconnect

Next ==
    \/ \E p \in Plugins : Spawn(p) \/ Guest(p) \/ HostCall(p) \/ CleanUp(p)
    \/ EventLoop
    \/ ConnectionLost
    \/ \E t \in Topics : DevicePublishes(t)

Spec == Init /\ [][Next]_vars

(***************************************************************************)
(* Fuel bounds a guest export, so it returns or traps; tokio polls every   *)
(* ready task.  The mutex and both channels are FIFO: a waiter is served   *)
(* if the mutex or a slot is free again and again (strong fairness).  The  *)
(* poll loop alternates between the socket and the request channel.        *)
(***************************************************************************)
FairSpec ==
    /\ Spec
    /\ \A p \in Plugins :
          /\ WF_vars(GuestReturns(p))
          /\ WF_vars(TakeMessage(p))
          /\ SF_vars(HostCall(p))
          /\ SF_vars(CleanUp(p))
    /\ SF_vars(PollSend)
    /\ WF_vars(EventLoop)

-----------------------------------------------------------------------------
(***************************************************************************)
(* Properties.                                                             *)
(***************************************************************************)

(***************************************************************************)
(* Every routing entry belongs to the incarnation that is running, or that *)
(* has just ended and not been unregistered: a restart never inherits an   *)
(* entry with a dead tx (clean-up in `supervise', "without this, stale     *)
(* entries hold a dead tx").                                               *)
(***************************************************************************)
NoInheritedRoute ==
    \A route \in router :
        /\ route.gen = gen[route.plugin]
        /\ Alive(route.plugin) \/ pc[route.plugin] = "exited"

(***************************************************************************)
(* No route without a reference: a filter is counted at least once for     *)
(* every routing entry and for every entry a supervisor still has to drop, *)
(* except while a subscribe call stands between `register' and the count.  *)
(* Otherwise the exit of one plugin would unsubscribe a filter another     *)
(* plugin still listens to.                                                *)
(***************************************************************************)
Held(f) ==
    { route \in router \cup UNION { flush[p] : p \in Plugins } : route.filter = f }

Uncounted(f) == { p \in Plugins : pc[p] = "locking" /\ want[p] = f }

RouteIsCounted ==
    \A f \in Filters : refcount[f] + Cardinality(Uncounted(f)) >= Cardinality(Held(f))

(***************************************************************************)
(* SUBSCRIBE and UNSUBSCRIBE reach the broker in the order of the refcount *)
(* decisions (fix H3): once the request channel is drained the session     *)
(* holds exactly the counted filters the client does not refuse.  Stated   *)
(* for a session that was never lost, and for moments at which nobody is   *)
(* between decision and request.                                           *)
(***************************************************************************)
About(f) == { i \in DOMAIN requests : requests[i].filter = f }

\* The last queued request about a filter decides, if there is one.
Drained ==
    { f \in Filters :
        \/ About(f) = {} /\ f \in broker
        \/ \E i \in About(f) :
              /\ requests[i].op = "subscribe"
              /\ \A j \in About(f) : j <= i }

WireFollowsRefcount ==
    lock = None /\ ~lost => Drained = { f \in Filters \ Malformed : refcount[f] > 0 }

(***************************************************************************)
(* What the refcount and its mutex promise, FilterWire: decisions one at a *)
(* time, each of them on the wire, or refused, before the next one.        *)
(***************************************************************************)
Wire == INSTANCE FilterWire
    WITH count <- refcount,
         owed  <- IF lock = None THEN None ELSE want[lock],
         wire  <- Drained

ImplementsFilterWire == Wire!Spec

(***************************************************************************)
(* The event loop waits for a mailbox whose plugin waits, directly or for  *)
(* the refcount mutex, for a slot in the request channel that only the     *)
(* event loop empties.                                                     *)
(***************************************************************************)
NeedsSlot(p) ==
    \/ pc[p] \in {"publishing", "unsubscribing"}
    \/ pc[p] = "subscribing" /\ want[p] \notin Malformed

WaitsForSlot(p) ==
    \/ NeedsSlot(p)
    \/ pc[p] = "locking" /\ lock # None /\ NeedsSlot(lock)

Wedged ==
    /\ sending # None
    /\ Open(sending)
    /\ mailbox[sending.plugin] = MailboxDepth
    /\ WaitsForSlot(sending.plugin)
    /\ ~HasSlot

(***************************************************************************)
(* That cycle is the only way a host call or a clean-up can hang: every    *)
(* subscribe, publish and exit clean-up completes unless the host wedges.  *)
(***************************************************************************)
HostWorksFor(p) == pc[p] \in InHostCall \cup {"exited", "flushing", "unsubscribing"}

NobodyHangs ==
    \A p \in Plugins : HostWorksFor(p) ~> ~HostWorksFor(p) \/ Wedged

(***************************************************************************)
(* Refuted by the code: dispatch prunes closed senders "so we don't try    *)
(* again next dispatch"; a live plugin's registrations all stay.           *)
(***************************************************************************)
LiveRouteKept ==
    \A p \in Plugins, f \in Filters :
        Alive(p) => Cardinality({ route \in RoutesOf(p) : route.filter = f }) = asked[p][f]

=============================================================================
