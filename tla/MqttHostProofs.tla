--------------------------- MODULE MqttHostProofs ---------------------------
(***************************************************************************)
(* Proofs about MQTT in the plugin host, for any number of plugins,        *)
(* filters and topics, and any depth of the queues.                        *)
(***************************************************************************)
EXTENDS MqttHost, FiniteSetTheorems, SequenceTheorems, TLAPS

\* Whoever is between a decision and its request holds the mutex, and the
\* count it left tells which request it is.
LockInv ==
    \A p \in Plugins :
        /\ pc[p] \in {"subscribing", "unsubscribing"} <=> lock = p
        /\ pc[p] = "subscribing" => refcount[want[p]] > 0
        /\ pc[p] = "unsubscribing" => refcount[want[p]] = 0

\* A supervisor has entries to drop only while it cleans up after its plugin.
FlushInv ==
    \A p \in Plugins :
        /\ \A route \in flush[p] : route.plugin = p
        /\ flush[p] # {} => pc[p] \in {"flushing", "unsubscribing"}

Finite == IsFiniteSet(router) /\ \A p \in Plugins : IsFiniteSet(flush[p])

IInv == TypeOK /\ LockInv /\ FlushInv /\ Finite /\ NoInheritedRoute

-----------------------------------------------------------------------------
LEMMA InitInv == Init => IInv
<1> SUFFICES ASSUME Init  PROVE IInv
  OBVIOUS
<1>1. PluginTypeOK
  <2>1. (CHOOSE f \in Filters : TRUE) \in Filters
    BY HostAssumption
  <2>2. 0 \in 0 .. MailboxDepth
    BY HostAssumption
  <2>3. "down" \in Points /\ "init" \in InGuest
    BY DEF Points, InGuest
  <2> QED  BY <2>1, <2>2, <2>3 DEF Init, PluginTypeOK
<1>2. RoutingTypeOK
  BY DEF Init, RoutingTypeOK
<1>3. WireTypeOK
  <2>1. session \in BOOLEAN /\ lost \in BOOLEAN
    BY Zenon DEF Init
  <2>2. refcount \in [Filters -> Nat] /\ lock \in Plugins \cup {None}
    BY DEF Init
  <2>3. requests \in Seq(Request) /\ Len(requests) <= RequestDepth
    BY HostAssumption DEF Init
  <2>4. inbound \in Seq(Topics) /\ broker \in SUBSET Filters
    BY DEF Init
  <2> QED  BY <2>1, <2>2, <2>3, <2>4 DEF WireTypeOK
<1>4. LockInv /\ FlushInv /\ NoInheritedRoute
  BY HostAssumption DEF Init, LockInv, FlushInv, NoInheritedRoute
<1>5. Finite
  BY FS_EmptySet DEF Init, Finite
<1> QED  BY <1>1, <1>2, <1>3, <1>4, <1>5 DEF IInv, TypeOK

LEMMA PluginTypeStep ==
    ASSUME PluginTypeOK, WireTypeOK, RoutingTypeOK, [Next]_vars
    PROVE  PluginTypeOK'
<1> USE DEF PluginTypeOK
<1>1. MailboxDepth \in Nat \ {0}
  BY HostAssumption
<1>2. \A q \in Plugins, point \in Points : Go(q, point) => pc' \in [Plugins -> Points]
  BY DEF Go
<1>3. InGuest \subseteq Points /\ \A q \in Plugins : guest[q] \in InGuest
  BY DEF Points
<1>4. \A q \in Plugins : Return(q) =>
            pc' \in [Plugins -> Points] /\ guest' \in [Plugins -> InGuest]
  BY <1>2, <1>3 DEF Return, InGuest
<1> HIDE DEF InGuest
<1>5. {"init", "idle", "exited", "handler", "locking", "publishing", "flushing",
       "unsubscribing", "down", "subscribing"} \subseteq Points
  BY DEF Points, InGuest, InHostCall
<1>6. ASSUME NEW p \in Plugins, Spawn(p)  PROVE PluginTypeOK'
  BY <1>2, <1>5, <1>6 DEF Spawn
<1>7. ASSUME NEW p \in Plugins, GuestReturns(p) \/ Flushed(p)  PROVE PluginTypeOK'
  BY <1>2, <1>5, <1>7 DEF GuestReturns, Flushed
<1>8. ASSUME NEW p \in Plugins, TaskEnds(p)  PROVE PluginTypeOK'
  BY <1>1, <1>2, <1>5, <1>8 DEF TaskEnds
<1>9. ASSUME NEW p \in Plugins, TakeMessage(p)  PROVE PluginTypeOK'
  BY <1>1, <1>2, <1>5, <1>9 DEF TakeMessage
<1>10. ASSUME NEW p \in Plugins, NEW f \in Filters, CallSubscribe(p, f)
       PROVE PluginTypeOK'
  BY <1>2, <1>5, <1>10 DEF CallSubscribe
<1>11. ASSUME NEW p \in Plugins, CountSubscriber(p)  PROVE PluginTypeOK'
  BY <1>2, <1>4, <1>5, <1>11 DEF CountSubscriber
<1>12. ASSUME NEW p \in Plugins, SendSubscribe(p) \/ RefuseSubscribe(p) \/ SendPublish(p)
       PROVE PluginTypeOK'
  BY <1>4, <1>12 DEF SendSubscribe, RefuseSubscribe, SendPublish
<1>13. ASSUME NEW p \in Plugins, CallPublish(p)  PROVE PluginTypeOK'
  BY <1>2, <1>5, <1>13 DEF CallPublish, InGuest
<1>14. ASSUME NEW p \in Plugins, Unregister(p) \/ SendUnsubscribe(p)
       PROVE PluginTypeOK'
  BY <1>2, <1>5, <1>14 DEF Unregister, SendUnsubscribe
<1>15. ASSUME NEW p \in Plugins, DropSubscriber(p)  PROVE PluginTypeOK'
  <2>1. \A route \in flush[p] : route.filter \in Filters
    BY DEF RoutingTypeOK, Route
  <2> QED  BY <1>2, <1>5, <1>15, <2>1 DEF DropSubscriber
<1>16. CASE DispatchNext
  <2>1. sending # None => sending.plugin \in Plugins
    BY DEF RoutingTypeOK, Route
  <2> QED  BY <1>1, <1>16, <2>1 DEF DispatchNext
<1>17. CASE \/ PollSend \/ PollReceive \/ DispatchDone \/ Reconnect
            \/ ConnectionLost \/ \E t \in Topics : DevicePublishes(t)
            \/ UNCHANGED vars
  BY <1>17 DEF PollSend, PollReceive, DispatchDone, Reconnect, ConnectionLost,
               DevicePublishes, vars, pluginVars
<1> QED
  BY <1>6, <1>7, <1>8, <1>9, <1>10, <1>11, <1>12, <1>13, <1>14, <1>15, <1>16, <1>17
  DEF Next, Guest, HostCall, CleanUp, EventLoop

LEMMA RoutingTypeStep ==
    ASSUME PluginTypeOK, WireTypeOK, RoutingTypeOK, [Next]_vars
    PROVE  RoutingTypeOK'
<1> USE DEF RoutingTypeOK
<1>1. ASSUME NEW p \in Plugins, NEW f \in Filters, CallSubscribe(p, f)
      PROVE RoutingTypeOK'
  <2>1. gen[p] \in Nat /\ asked[p][f] + 1 \in Nat
    BY DEF PluginTypeOK
  <2>2. [plugin |-> p, filter |-> f, gen |-> gen[p], nth |-> asked[p][f] + 1] \in Route
    BY <2>1 DEF Route
  <2> QED  BY <1>1, <2>2 DEF CallSubscribe, dispatchVars
<1>2. ASSUME NEW p \in Plugins, Unregister(p)  PROVE RoutingTypeOK'
  BY <1>2 DEF Unregister, RoutesOf, dispatchVars
<1>3. ASSUME NEW p \in Plugins, DropSubscriber(p)  PROVE RoutingTypeOK'
  BY <1>3 DEF DropSubscriber, dispatchVars
<1>4. CASE PollReceive
  BY <1>4 DEF PollReceive, NextSend, pluginVars
<1>5. CASE DispatchNext
  <2>1. sending # None => <<sending.plugin, sending.filter>> \in Plugins \X Filters
    BY DEF Route
  <2> QED  BY <1>5, <2>1 DEF DispatchNext, NextSend
<1>6. CASE DispatchDone
  BY <1>6 DEF DispatchDone, pluginVars
<1>7. CASE \E p \in Plugins :
              \/ Spawn(p) \/ GuestReturns(p) \/ TaskEnds(p) \/ TakeMessage(p)
              \/ CallPublish(p) \/ HostCall(p) \/ SendUnsubscribe(p) \/ Flushed(p)
  BY <1>7 DEF Spawn, GuestReturns, TaskEnds, TakeMessage, CallPublish, HostCall,
     CountSubscriber, SendSubscribe, RefuseSubscribe, SendPublish, SendUnsubscribe,
     Flushed, dispatchVars
<1>8. CASE \/ PollSend \/ Reconnect \/ ConnectionLost
           \/ \E t \in Topics : DevicePublishes(t)
           \/ UNCHANGED vars
  BY <1>8 DEF PollSend, Reconnect, ConnectionLost, DevicePublishes, vars,
              pluginVars, dispatchVars
<1> QED
  BY <1>1, <1>2, <1>3, <1>4, <1>5, <1>6, <1>7, <1>8
  DEF Next, Guest, CleanUp, EventLoop

LEMMA WireTypeStep ==
    ASSUME PluginTypeOK, WireTypeOK, RoutingTypeOK, [Next]_vars
    PROVE  WireTypeOK'
<1> USE DEF WireTypeOK
<1>1. \A p \in Plugins : want[p] \in Filters
  BY DEF PluginTypeOK
<1>2. RequestDepth \in Nat
  BY HostAssumption
<1>3. \A r \in Request :
          HasSlot => /\ Append(requests, r) \in Seq(Request)
                     /\ Len(Append(requests, r)) <= RequestDepth
  BY <1>2, AppendProperties DEF HasSlot
<1>4. ASSUME NEW p \in Plugins, CountSubscriber(p)  PROVE WireTypeOK'
  BY <1>1, <1>4 DEF CountSubscriber, networkVars
<1>5. ASSUME NEW p \in Plugins, SendSubscribe(p) \/ SendUnsubscribe(p) \/ SendPublish(p)
      PROVE WireTypeOK'
  <2>1. /\ [op |-> "subscribe", filter |-> want[p]] \in Request
        /\ [op |-> "unsubscribe", filter |-> want[p]] \in Request
        /\ [op |-> "publish", filter |-> None] \in Request
    BY <1>1 DEF Request
  <2>2. \E r \in Request : HasSlot /\ requests' = Append(requests, r)
    BY <1>5, <2>1 DEF SendSubscribe, SendUnsubscribe, SendPublish
  <2>3. requests' \in Seq(Request) /\ Len(requests') <= RequestDepth
    BY <1>3, <2>2
  <2>4. session' \in BOOLEAN /\ lost' \in BOOLEAN
    BY <1>5, Zenon DEF SendSubscribe, SendUnsubscribe, SendPublish, networkVars
  <2>5. refcount' \in [Filters -> Nat] /\ lock' \in Plugins \cup {None}
    BY <1>5 DEF SendSubscribe, SendUnsubscribe, SendPublish
  <2>6. broker' \in SUBSET Filters /\ inbound' \in Seq(Topics)
    BY <1>5 DEF SendSubscribe, SendUnsubscribe, SendPublish, networkVars
  <2> QED  BY ONLY <2>3, <2>4, <2>5, <2>6, Zenon DEF WireTypeOK
<1>6. ASSUME NEW p \in Plugins, DropSubscriber(p)  PROVE WireTypeOK'
  <2>1. \A route \in flush[p] : route.filter \in Filters
    BY DEF RoutingTypeOK, Route
  <2>2. session' \in BOOLEAN /\ lost' \in BOOLEAN
    BY <1>6, Zenon DEF DropSubscriber, networkVars
  <2>3. PICK route \in flush[p] : DropSubscriber(p)!3!(route)
    BY <1>6 DEF DropSubscriber
  <2>4. refcount' \in [Filters -> Nat] /\ lock' \in Plugins \cup {None}
    BY <2>1, <2>3
  <2>5. requests' \in Seq(Request) /\ Len(requests') <= RequestDepth
    BY <1>6 DEF DropSubscriber
  <2>6. broker' \in SUBSET Filters /\ inbound' \in Seq(Topics)
    BY <1>6 DEF DropSubscriber, networkVars
  <2> QED  BY ONLY <2>2, <2>4, <2>5, <2>6, Zenon DEF WireTypeOK
<1>7. CASE PollSend
  <2>1. Head(requests) \in Request /\ Tail(requests) \in Seq(Request)
        /\ Len(Tail(requests)) <= RequestDepth
    BY <1>2, <1>7, HeadTailProperties DEF PollSend
  <2>2. broker' \in SUBSET Filters
    BY <1>7, <2>1 DEF PollSend, Request
  <2> QED  BY <1>7, <2>1, <2>2 DEF PollSend
<1>8. CASE PollReceive
  <2>1. session' \in BOOLEAN /\ lost' \in BOOLEAN
    BY <1>8, Zenon DEF PollReceive
  <2>2. inbound' \in Seq(Topics)
    BY <1>8, HeadTailProperties DEF PollReceive
  <2>3. /\ refcount' \in [Filters -> Nat] /\ lock' \in Plugins \cup {None}
        /\ requests' \in Seq(Request) /\ Len(requests') <= RequestDepth
        /\ broker' \in SUBSET Filters
    BY <1>8 DEF PollReceive
  <2> QED  BY ONLY <2>1, <2>2, <2>3, Zenon DEF WireTypeOK
<1>9. CASE ConnectionLost \/ Reconnect
  <2>1. session' \in BOOLEAN /\ lost' \in BOOLEAN
    BY <1>9, Zenon DEF ConnectionLost, Reconnect
  <2>2. /\ refcount' \in [Filters -> Nat] /\ lock' \in Plugins \cup {None}
        /\ requests' \in Seq(Request) /\ Len(requests') <= RequestDepth
    BY <1>9 DEF ConnectionLost, Reconnect
  <2>3. broker' \in SUBSET Filters /\ inbound' \in Seq(Topics)
    <3>1. inbound' = <<>> \/ inbound' = inbound
      BY <1>9 DEF ConnectionLost, Reconnect
    <3>2. broker' = {} \/ broker' = broker
      BY <1>9 DEF ConnectionLost, Reconnect
    <3>3. <<>> \in Seq(Topics) /\ inbound \in Seq(Topics) /\ broker \in SUBSET Filters
      BY EmptySeq
    <3> QED  BY ONLY <3>1, <3>2, <3>3
  <2> QED  BY ONLY <2>1, <2>2, <2>3, Zenon DEF WireTypeOK
<1>10. ASSUME NEW t \in Topics, DevicePublishes(t)  PROVE WireTypeOK'
  BY <1>10 DEF DevicePublishes
<1>11. CASE \/ DispatchNext \/ DispatchDone \/ UNCHANGED vars
            \/ \E p \in Plugins : \/ Spawn(p) \/ GuestReturns(p) \/ TaskEnds(p)
                                  \/ TakeMessage(p) \/ CallPublish(p)
                                  \/ Unregister(p) \/ Flushed(p)
                                  \/ RefuseSubscribe(p)
                                  \/ \E f \in Filters : CallSubscribe(p, f)
  BY <1>11 DEF DispatchNext, DispatchDone, vars, Spawn, GuestReturns, TaskEnds,
     TakeMessage, CallPublish, Unregister, Flushed, RefuseSubscribe, CallSubscribe,
     networkVars
<1> QED
  BY <1>4, <1>5, <1>6, <1>7, <1>8, <1>9, <1>10, <1>11
  DEF Next, Guest, HostCall, CleanUp, EventLoop

-----------------------------------------------------------------------------
\* Who holds the mutex across the broker call.
LEMMA LockStep ==
    ASSUME IInv, [Next]_vars
    PROVE  LockInv'
<1> USE DEF IInv, TypeOK, LockInv
<1>1. /\ pc \in [Plugins -> Points]
      /\ want \in [Plugins -> Filters]
      /\ guest \in [Plugins -> {"init", "handler"}]
      /\ refcount \in [Filters -> Nat]
  BY DEF PluginTypeOK, WireTypeOK, InGuest
<1> HIDE DEF IInv, TypeOK
<1>2. LockInv
  BY DEF IInv
<1> USE HostAssumption DEF Go
<1>3. ASSUME NEW p \in Plugins, Spawn(p)  PROVE LockInv'
  BY <1>1, <1>2, <1>3 DEF Spawn
<1>4. ASSUME NEW p \in Plugins, GuestReturns(p) \/ TaskEnds(p) \/ TakeMessage(p)
      PROVE LockInv'
  BY <1>1, <1>2, <1>4 DEF GuestReturns, TaskEnds, TakeMessage, InGuest
<1>5. ASSUME NEW p \in Plugins, NEW f \in Filters, CallSubscribe(p, f)
      PROVE LockInv'
  BY <1>1, <1>2, <1>5 DEF CallSubscribe, InGuest
<1>6. ASSUME NEW p \in Plugins, CountSubscriber(p)  PROVE LockInv'
  <2>1. want' = want /\ lock = None /\ pc[p] = "locking"
    BY <1>6 DEF CountSubscriber
  <2>2. refcount' = [refcount EXCEPT ![want[p]] = @ + 1]
    BY <1>6 DEF CountSubscriber
  <2>3. CASE refcount[want[p]] = 0 /\ lock' = p /\ Go(p, "subscribing")
    BY <1>1, <1>2, <2>1, <2>2, <2>3
  <2>4. CASE UNCHANGED lock /\ Return(p)
    BY <1>1, <1>2, <2>1, <2>2, <2>4 DEF Return
  <2> QED  BY <1>6, <2>3, <2>4 DEF CountSubscriber
<1>7. ASSUME NEW p \in Plugins, SendSubscribe(p) \/ RefuseSubscribe(p)  PROVE LockInv'
  BY <1>1, <1>2, <1>7 DEF SendSubscribe, RefuseSubscribe, Return
<1>8. ASSUME NEW p \in Plugins, CallPublish(p) \/ SendPublish(p)  PROVE LockInv'
  BY <1>1, <1>2, <1>8 DEF CallPublish, SendPublish, Return
<1>9. ASSUME NEW p \in Plugins, Unregister(p) \/ Flushed(p)  PROVE LockInv'
  BY <1>1, <1>2, <1>9 DEF Unregister, Flushed
<1>10. ASSUME NEW p \in Plugins, DropSubscriber(p)  PROVE LockInv'
  <2>1. PICK route \in flush[p] : DropSubscriber(p)!3!(route)
    BY <1>10 DEF DropSubscriber
  <2>2. route.filter \in Filters /\ lock = None /\ pc[p] = "flushing"
    BY <1>10, <2>1 DEF DropSubscriber, IInv, TypeOK, RoutingTypeOK, Route
  <2> QED  BY <1>1, <1>2, <2>1, <2>2
<1>11. ASSUME NEW p \in Plugins, SendUnsubscribe(p)  PROVE LockInv'
  BY <1>1, <1>2, <1>11 DEF SendUnsubscribe
<1>12. CASE \/ EventLoop \/ ConnectionLost \/ UNCHANGED vars
            \/ \E t \in Topics : DevicePublishes(t)
  BY <1>2, <1>12 DEF EventLoop, PollSend, PollReceive, DispatchNext, DispatchDone,
     Reconnect, ConnectionLost, DevicePublishes, vars, pluginVars
<1> QED
  BY <1>3, <1>4, <1>5, <1>6, <1>7, <1>8, <1>9, <1>10, <1>11, <1>12
  DEF Next, Guest, HostCall, CleanUp

\* What a supervisor has left to drop.
LEMMA FlushStep ==
    ASSUME IInv, [Next]_vars
    PROVE  FlushInv'
<1> USE DEF Go, Return
<1>1. /\ pc \in [Plugins -> Points]
      /\ guest \in [Plugins -> InGuest]
      /\ flush \in [Plugins -> SUBSET Route]
  BY DEF IInv, TypeOK, PluginTypeOK, RoutingTypeOK
<1>2. FlushInv
  BY DEF IInv
<1> USE DEF FlushInv
<1>3. ASSUME NEW p \in Plugins, Unregister(p)  PROVE FlushInv'
  BY <1>1, <1>2, <1>3 DEF Unregister, RoutesOf
<1>4. ASSUME NEW p \in Plugins, DropSubscriber(p)  PROVE FlushInv'
  BY <1>1, <1>2, <1>4 DEF DropSubscriber
<1>5. ASSUME NEW p \in Plugins, SendUnsubscribe(p) \/ Flushed(p)  PROVE FlushInv'
  BY <1>1, <1>2, <1>5 DEF SendUnsubscribe, Flushed
<1>6. ASSUME NEW p \in Plugins,
             \/ Spawn(p) \/ GuestReturns(p) \/ TaskEnds(p) \/ TakeMessage(p)
             \/ CallPublish(p) \/ \E f \in Filters : CallSubscribe(p, f)
      PROVE FlushInv'
  BY <1>1, <1>2, <1>6 DEF Spawn, GuestReturns, TaskEnds, TakeMessage, CallPublish,
     CallSubscribe, InGuest
<1>7. ASSUME NEW p \in Plugins, HostCall(p)  PROVE FlushInv'
  BY <1>1, <1>2, <1>7 DEF HostCall, CountSubscriber, SendSubscribe, RefuseSubscribe,
     SendPublish, InGuest
<1>8. CASE \/ EventLoop \/ ConnectionLost \/ UNCHANGED vars
            \/ \E t \in Topics : DevicePublishes(t)
  BY <1>2, <1>8 DEF EventLoop, PollSend, PollReceive, DispatchNext, DispatchDone,
     Reconnect, ConnectionLost, DevicePublishes, vars, pluginVars
<1> QED
  BY <1>3, <1>4, <1>5, <1>6, <1>7, <1>8 DEF Next, Guest, CleanUp

LEMMA FiniteStep ==
    ASSUME IInv, [Next]_vars
    PROVE  Finite'
<1>1. IsFiniteSet(router) /\ \A p \in Plugins : IsFiniteSet(flush[p])
  BY DEF IInv, Finite
<1>2. flush \in [Plugins -> SUBSET Route]
  BY DEF IInv, TypeOK, RoutingTypeOK
<1>3. ASSUME NEW p \in Plugins, NEW f \in Filters, CallSubscribe(p, f)  PROVE Finite'
  BY <1>1, <1>3, FS_AddElement DEF CallSubscribe, Finite
<1>4. ASSUME NEW p \in Plugins, Unregister(p)  PROVE Finite'
  <2>1. IsFiniteSet(RoutesOf(p)) /\ IsFiniteSet(router \ RoutesOf(p))
    BY <1>1, FS_Subset DEF RoutesOf
  <2> QED  BY <1>1, <1>2, <1>4, <2>1 DEF Unregister, Finite
<1>5. ASSUME NEW p \in Plugins, DropSubscriber(p)  PROVE Finite'
  <2>1. PICK route \in flush[p] : flush' = [flush EXCEPT ![p] = @ \ {route}]
    BY <1>5 DEF DropSubscriber
  <2>2. IsFiniteSet(flush[p] \ {route}) /\ router' = router
    BY <1>1, <1>5, FS_Subset DEF DropSubscriber
  <2> QED  BY <1>1, <1>2, <2>1, <2>2 DEF Finite
<1>6. CASE DispatchDone
  <2>1. router' \subseteq router /\ flush' = flush
    BY <1>6 DEF DispatchDone, pluginVars
  <2> QED  BY <1>1, <2>1, FS_Subset DEF Finite
<1>7. CASE UNCHANGED <<router, flush>>
  BY <1>1, <1>7 DEF Finite
<1>8. ASSUME NEW p \in Plugins,
             \/ Spawn(p) \/ GuestReturns(p) \/ TaskEnds(p) \/ TakeMessage(p)
             \/ CallPublish(p) \/ HostCall(p) \/ SendUnsubscribe(p) \/ Flushed(p)
      PROVE UNCHANGED <<router, flush>>
  BY <1>8 DEF Spawn, GuestReturns, TaskEnds, TakeMessage, CallPublish, HostCall,
     CountSubscriber, SendSubscribe, RefuseSubscribe, SendPublish, SendUnsubscribe,
     Flushed
<1>9. ASSUME \/ PollSend \/ PollReceive \/ DispatchNext \/ Reconnect \/ ConnectionLost
             \/ UNCHANGED vars \/ \E t \in Topics : DevicePublishes(t)
      PROVE UNCHANGED <<router, flush>>
  BY <1>9 DEF PollSend, PollReceive, DispatchNext, Reconnect, ConnectionLost,
     DevicePublishes, vars, pluginVars
<1> QED
  BY <1>3, <1>4, <1>5, <1>6, <1>7, <1>8, <1>9
  DEF Next, Guest, CleanUp, EventLoop

LEMMA RouteStep ==
    ASSUME IInv, [Next]_vars
    PROVE  NoInheritedRoute'
<1> USE DEF Go, Alive, InGuest, InHostCall
<1>1. /\ pc \in [Plugins -> Points]
      /\ guest \in [Plugins -> {"init", "handler"}]
      /\ gen \in [Plugins -> Nat]
      /\ \A route \in router : route.plugin \in Plugins
  BY DEF IInv, TypeOK, PluginTypeOK, RoutingTypeOK, Route
<1>2. NoInheritedRoute
  BY DEF IInv
<1> USE DEF NoInheritedRoute
<1>3. ASSUME NEW p \in Plugins, Spawn(p)  PROVE NoInheritedRoute'
  BY <1>1, <1>2, <1>3 DEF Spawn
<1>4. ASSUME NEW p \in Plugins, GuestReturns(p) \/ TaskEnds(p) \/ TakeMessage(p)
      PROVE NoInheritedRoute'
  BY <1>1, <1>2, <1>4 DEF GuestReturns, TaskEnds, TakeMessage
<1>5. ASSUME NEW p \in Plugins, NEW f \in Filters, CallSubscribe(p, f)
      PROVE NoInheritedRoute'
  BY <1>1, <1>2, <1>5 DEF CallSubscribe
<1>6. ASSUME NEW p \in Plugins, HostCall(p)  PROVE NoInheritedRoute'
  BY <1>1, <1>2, <1>6 DEF HostCall, CountSubscriber, SendSubscribe, RefuseSubscribe,
     SendPublish, Return
<1>7. ASSUME NEW p \in Plugins, CallPublish(p)  PROVE NoInheritedRoute'
  BY <1>1, <1>2, <1>7 DEF CallPublish
<1>8. ASSUME NEW p \in Plugins, Unregister(p)  PROVE NoInheritedRoute'
  BY <1>1, <1>2, <1>8 DEF Unregister, RoutesOf
<1>9. ASSUME NEW p \in Plugins, DropSubscriber(p) \/ SendUnsubscribe(p) \/ Flushed(p)
      PROVE NoInheritedRoute'
  BY <1>1, <1>2, <1>9 DEF DropSubscriber, SendUnsubscribe, Flushed
<1>10. CASE \/ EventLoop \/ ConnectionLost \/ UNCHANGED vars
            \/ \E t \in Topics : DevicePublishes(t)
  BY <1>2, <1>10 DEF EventLoop, PollSend, PollReceive, DispatchNext, DispatchDone,
     Reconnect, ConnectionLost, DevicePublishes, vars, pluginVars
<1> QED
  BY <1>3, <1>4, <1>5, <1>6, <1>7, <1>8, <1>9, <1>10 DEF Next, Guest, CleanUp

LEMMA NextInv == IInv /\ [Next]_vars => IInv'
BY PluginTypeStep, RoutingTypeStep, WireTypeStep, LockStep, FlushStep, FiniteStep,
   RouteStep
DEF IInv, TypeOK

THEOREM SpecInv == Spec => []IInv
<1>1. Init => IInv
  BY InitInv
<1>2. IInv /\ [Next]_vars => IInv'
  BY NextInv
<1> QED  BY <1>1, <1>2, PTL DEF Spec

(***************************************************************************)
(* The state of the host keeps its types; no mailbox and no request        *)
(* channel holds more than its depth (MAILBOX_DEPTH, the 64 of `connect'). *)
(***************************************************************************)
THEOREM HostTypeCorrect == Spec => []TypeOK
<1>1. IInv => TypeOK
  BY DEF IInv
<1> QED  BY <1>1, SpecInv, PTL

(***************************************************************************)
(* A restarted plugin inherits no route of the incarnation that died: the  *)
(* supervisor's clean-up comes before the next load.                       *)
(***************************************************************************)
THEOREM NothingInherited == Spec => []NoInheritedRoute
<1>1. IInv => NoInheritedRoute
  BY DEF IInv
<1> QED  BY <1>1, SpecInv, PTL

-----------------------------------------------------------------------------
(***************************************************************************)
(* Counting.                                                               *)
(***************************************************************************)
LEMMA FiniteCounts ==
    ASSUME IInv, NEW f \in Filters
    PROVE  /\ IsFiniteSet(Held(f)) /\ IsFiniteSet(Uncounted(f))
           /\ Cardinality(Held(f)) \in Nat /\ Cardinality(Uncounted(f)) \in Nat
<1>1. IsFiniteSet(Plugins)
  BY HostAssumption
<1>2. IsFiniteSet({ flush[p] : p \in Plugins })
  <2>1. flush \in Surjection(Plugins, { flush[p] : p \in Plugins })
    BY DEF Surjection, IInv, TypeOK, RoutingTypeOK
  <2> QED  BY <1>1, <2>1, FS_Surjection
<1>3. \A S \in { flush[p] : p \in Plugins } : IsFiniteSet(S)
  BY DEF IInv, Finite
<1>4. IsFiniteSet(UNION { flush[p] : p \in Plugins })
  BY <1>2, <1>3, FS_UNION
<1>5. IsFiniteSet(router \cup UNION { flush[p] : p \in Plugins })
  BY <1>4, FS_Union DEF IInv, Finite
<1>6. IsFiniteSet(Held(f)) /\ IsFiniteSet(Uncounted(f))
  BY <1>1, <1>5, FS_Subset DEF Held, Uncounted
<1> QED  BY <1>6, FS_CardinalityType

\* Fewer entries, the same callers and the same count.
LEMMA Fewer ==
    ASSUME IInv, RouteIsCounted, UNCHANGED refcount,
           \A f \in Filters : Held(f)' \subseteq Held(f) /\ Uncounted(f)' = Uncounted(f)
    PROVE  RouteIsCounted'
<1> SUFFICES ASSUME NEW f \in Filters
             PROVE  (refcount[f] + Cardinality(Uncounted(f)) >= Cardinality(Held(f)))'
  BY DEF RouteIsCounted
<1>1. Cardinality(Held(f)') \in Nat /\ Cardinality(Held(f)') <= Cardinality(Held(f))
  BY FiniteCounts, FS_Subset, FS_CardinalityType
<1>2. refcount[f] \in Nat
  BY DEF IInv, TypeOK, WireTypeOK
<1> QED  BY <1>1, <1>2, FiniteCounts DEF RouteIsCounted

LEMMA CountStep ==
    ASSUME IInv, RouteIsCounted, [Next]_vars
    PROVE  RouteIsCounted'
<1> USE DEF Go
<1>1. /\ pc \in [Plugins -> Points]
      /\ guest \in [Plugins -> InGuest]
      /\ want \in [Plugins -> Filters]
      /\ flush \in [Plugins -> SUBSET Route]
      /\ refcount \in [Filters -> Nat]
  BY DEF IInv, TypeOK, PluginTypeOK, RoutingTypeOK, WireTypeOK
<1>2. FlushInv /\ NoInheritedRoute
  BY DEF IInv
<1>3. ASSUME NEW p \in Plugins,
             \/ Spawn(p) \/ GuestReturns(p) \/ TaskEnds(p) \/ TakeMessage(p)
             \/ CallPublish(p) \/ SendSubscribe(p) \/ RefuseSubscribe(p)
             \/ SendPublish(p) \/ SendUnsubscribe(p) \/ Flushed(p)
      PROVE RouteIsCounted'
  <2>1. UNCHANGED <<refcount, router, flush, want>>
    BY <1>3 DEF Spawn, GuestReturns, TaskEnds, TakeMessage, CallPublish,
       SendSubscribe, RefuseSubscribe, SendPublish, SendUnsubscribe, Flushed
  <2>2. pc' = [pc EXCEPT ![p] = pc'[p]] /\ pc[p] # "locking" /\ pc'[p] # "locking"
    BY <1>1, <1>3 DEF Spawn, GuestReturns, TaskEnds, TakeMessage, CallPublish,
       SendSubscribe, RefuseSubscribe, SendPublish, SendUnsubscribe, Flushed, Return,
       InGuest
  <2>3. \A f \in Filters : Held(f)' = Held(f) /\ Uncounted(f)' = Uncounted(f)
    BY <1>1, <2>1, <2>2 DEF Held, Uncounted
  <2> QED  BY <2>1, <2>3, Fewer
<1>4. ASSUME NEW p \in Plugins, NEW g \in Filters, CallSubscribe(p, g)
      PROVE RouteIsCounted'
  <2> SUFFICES ASSUME NEW f \in Filters
               PROVE  (refcount[f] + Cardinality(Uncounted(f)) >= Cardinality(Held(f)))'
    BY DEF RouteIsCounted
  <2>1. refcount' = refcount /\ flush' = flush
    BY <1>4 DEF CallSubscribe
  <2> DEFINE route == [plugin |-> p, filter |-> g, gen |-> gen[p], nth |-> asked[p][g] + 1]
  <2>2. router' = router \cup {route} /\ route.filter = g
    BY <1>4 DEF CallSubscribe
  <2> HIDE DEF route
  <2>3. /\ pc[p] # "locking"
        /\ pc' = [pc EXCEPT ![p] = "locking"]
        /\ want' = [want EXCEPT ![p] = g]
    BY <1>4 DEF CallSubscribe, InGuest
  <2>4. CASE f = g
    <3>1. Held(f)' = Held(f) \cup {route}
      BY <2>1, <2>2, <2>4 DEF Held
    <3>2. Uncounted(f)' = Uncounted(f) \cup {p} /\ p \notin Uncounted(f)
      BY <1>1, <2>3, <2>4 DEF Uncounted
    <3>3. Cardinality(Held(f)') \in Nat /\ Cardinality(Held(f)') <= Cardinality(Held(f)) + 1
      <4>1. /\ Cardinality(Held(f)) \in Nat
            /\ Cardinality(Held(f) \cup {route})
                   = IF route \in Held(f) THEN Cardinality(Held(f))
                     ELSE Cardinality(Held(f)) + 1
        BY FiniteCounts, FS_AddElement
      <4> QED  BY <3>1, <4>1
    <3>4. Cardinality(Uncounted(f)') = Cardinality(Uncounted(f)) + 1
      BY <3>2, FiniteCounts, FS_AddElement
    <3> QED  BY <1>1, <2>1, <3>3, <3>4, FiniteCounts DEF RouteIsCounted
  <2>5. CASE f # g
    <3>1. Held(f)' = Held(f) /\ Uncounted(f)' = Uncounted(f)
      BY <1>1, <2>1, <2>2, <2>3, <2>5 DEF Held, Uncounted
    <3> QED  BY <2>1, <3>1 DEF RouteIsCounted
  <2> QED  BY <2>4, <2>5
<1>5. ASSUME NEW p \in Plugins, CountSubscriber(p)  PROVE RouteIsCounted'
  <2> SUFFICES ASSUME NEW f \in Filters
               PROVE  (refcount[f] + Cardinality(Uncounted(f)) >= Cardinality(Held(f)))'
    BY DEF RouteIsCounted
  <2>1. /\ UNCHANGED <<router, flush, want>>
        /\ pc[p] = "locking"
        /\ refcount' = [refcount EXCEPT ![want[p]] = @ + 1]
    BY <1>5 DEF CountSubscriber
  <2>2. pc' = [pc EXCEPT ![p] = pc'[p]] /\ pc'[p] # "locking"
    BY <1>1, <1>5 DEF CountSubscriber, Return, InGuest
  <2>3. Held(f)' = Held(f)
    BY <2>1 DEF Held
  <2>4. CASE f = want[p]
    <3>1. Uncounted(f)' = Uncounted(f) \ {p} /\ p \in Uncounted(f)
      BY <1>1, <2>1, <2>2, <2>4 DEF Uncounted
    <3>2. Cardinality(Uncounted(f)') = Cardinality(Uncounted(f)) - 1
      BY <3>1, FiniteCounts, FS_RemoveElement
    <3> QED  BY <1>1, <2>1, <2>3, <2>4, <3>2, FiniteCounts DEF RouteIsCounted
  <2>5. CASE f # want[p]
    <3>1. Uncounted(f)' = Uncounted(f)
      BY <1>1, <2>1, <2>2, <2>5 DEF Uncounted
    <3> QED  BY <1>1, <2>1, <2>3, <2>5, <3>1 DEF RouteIsCounted
  <2> QED  BY <2>4, <2>5
<1>6. ASSUME NEW p \in Plugins, Unregister(p)  PROVE RouteIsCounted'
  <2>1. /\ UNCHANGED <<refcount, want>>
        /\ router' = router \ RoutesOf(p)
        /\ flush' = [flush EXCEPT ![p] = RoutesOf(p)]
        /\ pc[p] = "exited" /\ pc' = [pc EXCEPT ![p] = "flushing"]
    BY <1>6 DEF Unregister
  <2>2. \A f \in Filters : Held(f)' \subseteq Held(f)
    BY <1>1, <2>1 DEF Held, RoutesOf
  <2>3. \A f \in Filters : Uncounted(f)' = Uncounted(f)
    BY <1>1, <2>1 DEF Uncounted
  <2> QED  BY <2>1, <2>2, <2>3, Fewer
<1>7. ASSUME NEW p \in Plugins, DropSubscriber(p)  PROVE RouteIsCounted'
  <2> SUFFICES ASSUME NEW f \in Filters
               PROVE  (refcount[f] + Cardinality(Uncounted(f)) >= Cardinality(Held(f)))'
    BY DEF RouteIsCounted
  <2>1. PICK route \in flush[p] : DropSubscriber(p)!3!(route)
    BY <1>7 DEF DropSubscriber
  <2> DEFINE g == route.filter
  <2>2. /\ router' = router
        /\ flush' = [flush EXCEPT ![p] = @ \ {route}]
        /\ pc[p] = "flushing"
        /\ pc' = [pc EXCEPT ![p] = pc'[p]] /\ pc'[p] # "locking"
        /\ \A q \in Plugins \ {p} : want'[q] = want[q]
    BY <1>1, <1>7, <2>1 DEF DropSubscriber
  <2>3. route \in Route /\ g \in Filters /\ route.plugin = p
    BY <1>1, <1>2 DEF Route, FlushInv
  <2>4. refcount' = [refcount EXCEPT ![g] = IF @ = 0 THEN 0 ELSE @ - 1]
    BY <1>1, <2>1, <2>3
  <2>5. Uncounted(f)' = Uncounted(f)
    BY <1>1, <2>2 DEF Uncounted
  <2>6. route \notin router /\ \A q \in Plugins : route \in flush[q] => q = p
    BY <1>2, <2>2, <2>3 DEF NoInheritedRoute, FlushInv, Alive, InGuest, InHostCall
  <2>7. CASE f = g
    <3>1. Held(f)' = Held(f) \ {route} /\ route \in Held(f)
      BY <1>1, <2>2, <2>6, <2>7 DEF Held
    <3>2. Cardinality(Held(f)') = Cardinality(Held(f)) - 1
      BY <3>1, FiniteCounts, FS_RemoveElement
    <3> QED  BY <1>1, <2>4, <2>5, <2>7, <3>2, FiniteCounts DEF RouteIsCounted
  <2>8. CASE f # g
    <3>1. Held(f)' = Held(f)
      BY <1>1, <2>2, <2>8 DEF Held
    <3> QED  BY <1>1, <2>3, <2>4, <2>5, <2>8, <3>1 DEF RouteIsCounted
  <2> QED  BY <2>7, <2>8
<1>8. CASE DispatchDone
  <2>1. router' \subseteq router /\ UNCHANGED <<flush, pc, want, refcount>>
    BY <1>8 DEF DispatchDone, pluginVars
  <2>2. \A f \in Filters : Held(f)' \subseteq Held(f) /\ Uncounted(f)' = Uncounted(f)
    BY <2>1 DEF Held, Uncounted
  <2> QED  BY <2>1, <2>2, Fewer
<1>9. CASE \/ PollSend \/ PollReceive \/ DispatchNext \/ Reconnect \/ ConnectionLost
           \/ UNCHANGED vars \/ \E t \in Topics : DevicePublishes(t)
  <2>1. UNCHANGED <<router, flush, pc, want, refcount>>
    BY <1>9 DEF PollSend, PollReceive, DispatchNext, Reconnect, ConnectionLost,
       DevicePublishes, vars, pluginVars
  <2>2. \A f \in Filters : Held(f)' = Held(f) /\ Uncounted(f)' = Uncounted(f)
    BY <2>1 DEF Held, Uncounted
  <2> QED  BY <2>1, <2>2, Fewer
<1> QED
  BY <1>3, <1>4, <1>5, <1>6, <1>7, <1>8, <1>9
  DEF Next, Guest, HostCall, CleanUp, EventLoop

(***************************************************************************)
(* The count of a filter never falls below the entries that rely on it, so *)
(* the exit of one plugin unsubscribes no filter another one listens to.   *)
(***************************************************************************)
THEOREM RoutesAreCounted == Spec => []RouteIsCounted
<1>1. Init => RouteIsCounted
  <2> SUFFICES ASSUME Init, NEW f \in Filters
               PROVE  refcount[f] + Cardinality(Uncounted(f)) >= Cardinality(Held(f))
    BY DEF RouteIsCounted
  <2>1. Held(f) = {} /\ Uncounted(f) = {} /\ refcount[f] = 0
    BY DEF Init, Held, Uncounted
  <2> QED  BY <2>1, FS_EmptySet
<1>2. IInv /\ RouteIsCounted /\ [Next]_vars => RouteIsCounted'
  BY CountStep
<1> QED  BY <1>1, <1>2, SpecInv, PTL DEF Spec

-----------------------------------------------------------------------------
(***************************************************************************)
(* The wire.                                                               *)
(***************************************************************************)

\* A request that is queued decides what the wire will say of its filter.
LEMMA Queued ==
    ASSUME TypeOK, NEW r \in Request, requests' = Append(requests, r), broker' = broker,
           NEW f \in Filters
    PROVE  f \in Drained' <=> IF r.filter = f THEN r.op = "subscribe" ELSE f \in Drained
<1> DEFINE n == Len(requests)
<1>1. /\ n \in Nat /\ Len(requests') = n + 1
      /\ \A i \in 1 .. n : requests'[i] = requests[i]
      /\ requests'[n + 1] = r
      /\ DOMAIN requests = 1 .. n /\ DOMAIN requests' = 1 .. n + 1
  BY AppendProperties DEF TypeOK, WireTypeOK
<1>2. \A i : i \in About(f) => i \in 1 .. n
  BY <1>1 DEF About
<1> HIDE DEF n
<1>3. CASE r.filter = f
  <2>1. n + 1 \in About(f)' /\ \A i \in About(f)' : i <= n + 1
    BY <1>1, <1>3 DEF About
  <2>2. \A i \in About(f)' : (\A j \in About(f)' : j <= i) => i = n + 1
    BY <1>1, <2>1 DEF About
  <2> QED  BY <1>1, <1>3, <2>1, <2>2 DEF Drained
<1>4. CASE r.filter # f
  <2>1. About(f)' = About(f)
    BY <1>1, <1>4 DEF About
  <2>2. \A i \in About(f) : requests'[i] = requests[i]
    BY <1>1, <1>2
  <2> QED  BY <1>4, <2>1, <2>2 DEF Drained
<1> QED  BY <1>3, <1>4

\* Sending a request changes nothing of what the wire will say.
LEMMA Sent ==
    ASSUME TypeOK, PollSend
    PROVE  Drained' = Drained
<1> SUFFICES ASSUME NEW f \in Filters  PROVE f \in Drained' <=> f \in Drained
  BY DEF Drained
<1> DEFINE n == Len(requests)
           first == requests[1]
<1>1. /\ n \in Nat /\ n >= 1 /\ Len(requests') = n - 1
      /\ \A i \in 1 .. n - 1 : requests'[i] = requests[i + 1]
      /\ DOMAIN requests = 1 .. n /\ DOMAIN requests' = 1 .. n - 1
      /\ first \in Request /\ first = Head(requests)
  BY HeadTailProperties, EmptySeq DEF TypeOK, WireTypeOK, PollSend
<1>2. f \in broker' <=> IF first.filter = f /\ first.op # "publish"
                        THEN first.op = "subscribe" ELSE f \in broker
  BY <1>1, HostAssumption DEF PollSend, Request
<1>3. first.filter = f => first.op # "publish"
  BY <1>1, HostAssumption DEF Request
<1> HIDE DEF n, first
<1>4. \A i : i \in About(f)' <=> i \in Nat /\ i >= 1 /\ i + 1 \in About(f)
  BY <1>1 DEF About
<1>5. 1 \in About(f) <=> first.filter = f
  BY <1>1 DEF About, first
<1>6. \A i \in About(f) : i \in Nat /\ (i = 1 \/ i - 1 \in About(f)')
  BY <1>1 DEF About
<1>7. CASE About(f)' = {}
  <2>1. \A i \in About(f) : i = 1
    BY <1>6, <1>7
  <2> QED  BY <1>2, <1>3, <1>5, <1>7, <2>1 DEF Drained, first
<1>8. CASE About(f)' # {}
  <2>1. ASSUME NEW i \in About(f)'
        PROVE  /\ i + 1 \in About(f) /\ requests'[i] = requests[i + 1]
               /\ (\A j \in About(f)' : j <= i) <=> (\A j \in About(f) : j <= i + 1)
    <3>1. i \in Nat /\ i + 1 \in About(f) /\ i \in 1 .. n - 1
      BY <1>1, <1>4 DEF About
    <3>2. ASSUME \A j \in About(f)' : j <= i, NEW j \in About(f)  PROVE j <= i + 1
      BY <1>6, <3>1, <3>2
    <3>3. ASSUME \A j \in About(f) : j <= i + 1, NEW j \in About(f)'  PROVE j <= i
      BY <1>4, <3>1, <3>3
    <3> QED  BY <1>1, <3>1, <3>2, <3>3
  <2>2. ASSUME f \in Drained'  PROVE f \in Drained
    BY <1>8, <2>1, <2>2 DEF Drained
  <2>3. ASSUME f \in Drained  PROVE f \in Drained'
    <3>1. PICK k \in About(f) :
              requests[k].op = "subscribe" /\ \A j \in About(f) : j <= k
      BY <1>4, <1>8, <2>3 DEF Drained
    <3>2. k # 1
      BY <1>4, <1>8, <3>1
    <3>3. k \in Nat /\ k - 1 \in About(f)' /\ (k - 1) + 1 = k
      BY <1>6, <3>2
    <3> QED  BY <2>1, <3>1, <3>3 DEF Drained
  <2> QED  BY <2>2, <2>3
<1> QED  BY <1>7, <1>8

LEMMA WireStep ==
    ASSUME IInv, [Next]_vars
    PROVE  [Wire!Next]_(Wire!vars)
<1> USE DEF Wire!vars
<1>1. /\ pc \in [Plugins -> Points]
      /\ want \in [Plugins -> Filters]
      /\ refcount \in [Filters -> Nat]
      /\ lock \in Plugins \cup {None}
      /\ None \notin Plugins \cup Filters
      /\ LockInv
      /\ TypeOK
  BY HostAssumption DEF IInv, TypeOK, PluginTypeOK, WireTypeOK
<1>2. UNCHANGED <<requests, broker>> => Drained' = Drained
  BY DEF Drained, About
<1>3. ASSUME NEW p \in Plugins, CountSubscriber(p)  PROVE Wire!Join(want[p])
  <2>1. /\ pc[p] = "locking" /\ lock = None
        /\ refcount' = [refcount EXCEPT ![want[p]] = @ + 1]
        /\ UNCHANGED <<want, requests, broker, lost>>
        /\ \/ refcount[want[p]] = 0 /\ lock' = p
           \/ refcount[want[p]] > 0 /\ lock' = lock
    BY <1>3 DEF CountSubscriber, networkVars
  <2> QED  BY <1>1, <1>2, <2>1 DEF Wire!Join
<1>4. ASSUME NEW p \in Plugins, DropSubscriber(p)  PROVE [Wire!Next]_(Wire!vars)
  <2>1. PICK route \in flush[p] : DropSubscriber(p)!3!(route)
    BY <1>4 DEF DropSubscriber
  <2> DEFINE g == route.filter
  <2>2. g \in Filters /\ lock = None /\ UNCHANGED <<requests, broker, lost>>
    BY <1>4 DEF DropSubscriber, networkVars, IInv, TypeOK, RoutingTypeOK, Route
  <2>3. CASE refcount[g] = 1 /\ lock' = p
    <3>1. want' = [want EXCEPT ![p] = g] /\ refcount' = [refcount EXCEPT ![g] = @ - 1]
      BY <1>1, <2>1, <2>2, <2>3
    <3>2. Wire!Leave(g)
      BY <1>1, <1>2, <2>2, <2>3, <3>1 DEF Wire!Leave
    <3> QED  BY <2>2, <3>2 DEF Wire!Next
  <2>4. CASE refcount[g] > 1
    <3>1. lock' = lock /\ refcount' = [refcount EXCEPT ![g] = @ - 1]
      BY <1>1, <2>1, <2>2, <2>4
    <3>2. Wire!Leave(g)
      BY <1>1, <1>2, <2>2, <2>4, <3>1 DEF Wire!Leave
    <3> QED  BY <2>2, <3>2 DEF Wire!Next
  <2>5. CASE refcount[g] = 0
    BY <1>1, <1>2, <2>1, <2>2, <2>5
  <2> QED  BY <1>1, <2>1, <2>2, <2>3, <2>4, <2>5
<1>5. ASSUME NEW p \in Plugins, NEW op \in {"subscribe", "unsubscribe"}, lock = p,
             requests' = Append(requests, [op |-> op, filter |-> want[p]]), lock' = None,
             UNCHANGED <<broker, refcount, lost>>,
             op = "subscribe" <=> refcount[want[p]] > 0,
             op = "subscribe" => want[p] \notin Malformed
      PROVE Wire!Tell
  <2>1. want[p] \in Filters /\ [op |-> op, filter |-> want[p]] \in Request
    BY <1>1 DEF Request
  <2>2. \A f \in Filters :
            f \in Drained' <=> IF want[p] = f THEN op = "subscribe" ELSE f \in Drained
    BY <1>1, <1>5, <2>1, Queued
  <2>3. Drained \subseteq Filters /\ Drained' \subseteq Filters
    BY DEF Drained
  <2>4. Drained' = IF refcount[want[p]] > 0 THEN Drained \cup {want[p]}
                   ELSE Drained \ {want[p]}
    BY <1>5, <2>1, <2>2, <2>3
  <2>5. want[p] # None /\ lock # None
    BY <1>1, <1>5, <2>1
  <2>6. UNCHANGED <<refcount, lost>>
    BY <1>5
  <2> QED  BY <1>5, <2>4, <2>5, <2>6 DEF Wire!Tell
<1>6. ASSUME NEW p \in Plugins, SendSubscribe(p)  PROVE Wire!Tell
  <2>1. lock = p /\ refcount[want[p]] > 0 /\ want[p] \notin Malformed
    BY <1>1, <1>6 DEF SendSubscribe, LockInv
  <2> QED  BY <1>5, <1>6, <2>1 DEF SendSubscribe, networkVars
<1>7. ASSUME NEW p \in Plugins, SendUnsubscribe(p)  PROVE Wire!Tell
  <2>1. lock = p /\ refcount[want[p]] = 0
    BY <1>1, <1>7 DEF SendUnsubscribe, LockInv
  <2>2. /\ requests' = Append(requests, [op |-> "unsubscribe", filter |-> want[p]])
        /\ lock' = None
        /\ UNCHANGED <<broker, refcount, lost>>
    BY <1>7 DEF SendUnsubscribe, networkVars
  <2>3. /\ "unsubscribe" = "subscribe" <=> refcount[want[p]] > 0
        /\ "unsubscribe" = "subscribe" => want[p] \notin Malformed
    BY <2>1
  <2> HIDE DEF Wire!Tell, Wire!vars
  <2> QED  BY ONLY <1>5, <2>1, <2>2, <2>3, p \in Plugins, Zenon
<1>8. ASSUME NEW p \in Plugins, SendPublish(p)  PROVE UNCHANGED Wire!vars
  <2>1. [op |-> "publish", filter |-> None] \in Request
    BY DEF Request
  <2>2. \A f \in Filters : f \in Drained' <=> f \in Drained
    BY <1>1, <1>8, <2>1, Queued DEF SendPublish, networkVars
  <2>3. Drained' = Drained
    BY <2>2 DEF Drained
  <2> QED  BY <1>8, <2>3 DEF SendPublish, networkVars
<1>9. ASSUME NEW p \in Plugins, NEW f \in Filters, CallSubscribe(p, f)
      PROVE UNCHANGED Wire!vars
  <2>1. lock # p
    BY <1>1, <1>9 DEF CallSubscribe, LockInv, InGuest
  <2>2. /\ want' = [want EXCEPT ![p] = f]
        /\ UNCHANGED <<lock, requests, broker, refcount, lost>>
    BY <1>9 DEF CallSubscribe, networkVars
  <2> QED  BY <1>1, <1>2, <2>1, <2>2
<1>10. ASSUME UNCHANGED <<lock, want, refcount, requests, broker, lost>>
       PROVE UNCHANGED Wire!vars
  BY <1>2, <1>10
<1>11. ASSUME NEW p \in Plugins,
              \/ Spawn(p) \/ GuestReturns(p) \/ TaskEnds(p) \/ TakeMessage(p)
              \/ CallPublish(p) \/ Unregister(p) \/ Flushed(p)
       PROVE UNCHANGED Wire!vars
  BY <1>10, <1>11 DEF Spawn, GuestReturns, TaskEnds, TakeMessage, CallPublish,
     Unregister, Flushed, networkVars
<1>12. CASE PollSend
  BY <1>1, <1>12, Sent DEF PollSend, pluginVars
<1>13. CASE ConnectionLost
  <2>1. Drained' \subseteq Drained
    BY <1>13 DEF ConnectionLost, Drained, About
  <2> QED  BY <1>13, <2>1 DEF ConnectionLost, pluginVars, Wire!Next, Wire!Lose
<1>14. CASE \/ PollReceive \/ DispatchNext \/ DispatchDone \/ Reconnect
            \/ UNCHANGED vars \/ \E t \in Topics : DevicePublishes(t)
  BY <1>10, <1>14 DEF PollReceive, DispatchNext, DispatchDone, Reconnect,
     DevicePublishes, vars, pluginVars, networkVars
<1>15. ASSUME NEW p \in Plugins, RefuseSubscribe(p)  PROVE Wire!Refuse
  <2>1. lock = p /\ refcount[want[p]] > 0 /\ want[p] # None
    BY <1>1, <1>15 DEF RefuseSubscribe, LockInv
  <2>2. /\ want[p] \in Malformed /\ lock' = None
        /\ UNCHANGED <<want, refcount, requests, broker, lost>>
    BY <1>15 DEF RefuseSubscribe, networkVars
  <2> QED  BY <1>1, <1>2, <2>1, <2>2 DEF Wire!Refuse
<1>16. Wire!Tell \/ Wire!Refuse \/ (\E f \in Filters : Wire!Join(f)) => Wire!Next
  BY DEF Wire!Next
<1>17. \A p \in Plugins : want[p] \in Filters
  BY <1>1
<1> HIDE DEF Wire!vars
<1> QED
  BY <1>3, <1>4, <1>6, <1>7, <1>8, <1>9, <1>11, <1>12, <1>13, <1>14, <1>15, <1>16, <1>17
  DEF Next, Guest, HostCall, CleanUp, EventLoop

(***************************************************************************)
(* MqttBroker keeps what FilterWire promises: whatever the tasks do, every *)
(* decision of the refcount is on the wire before the next one is made     *)
(* (fix H3), or refused by the client, and then the count stays and no     *)
(* later reference puts the filter on the wire.                            *)
(***************************************************************************)
THEOREM HostImplementsWire == Spec => ImplementsFilterWire
<1>1. Init => Wire!Init
  <2> SUFFICES ASSUME Init  PROVE Wire!Init
    OBVIOUS
  <2>1. Drained = {}
    BY DEF Init, Drained, About
  <2> QED  BY <2>1 DEF Init, Wire!Init
<1>2. IInv /\ [Next]_vars => [Wire!Next]_(Wire!vars)
  BY WireStep
<1> QED  BY <1>1, <1>2, SpecInv, PTL DEF Spec, ImplementsFilterWire, Wire!Spec

\* No malformed filter is ever on the wire.
NoneMalformed == Drained \cap Malformed = {}

\* What FilterWire says of every filter but the one it owes the wire.
WireInv ==
    ~lost => \A f \in Filters :
        (lock # None => f # want[lock]) => (f \in Drained <=> refcount[f] > 0 /\ f \notin Malformed)

(***************************************************************************)
(* With nobody between decision and request and no session lost, the wire  *)
(* carries the counted filters the client does not refuse, and no others.  *)
(* This follows from the steps of FilterWire alone.                        *)
(***************************************************************************)
THEOREM WireIsCounted == Spec => []WireFollowsRefcount
<1>1. Init => WireInv /\ NoneMalformed
  <2>1. Init => NoneMalformed
    BY DEF Init, Drained, About, NoneMalformed
  <2> SUFFICES ASSUME Init, NEW f \in Filters
               PROVE  f \in Drained <=> refcount[f] > 0 /\ f \notin Malformed
    BY <2>1 DEF WireInv
  <2> QED  BY DEF Init, Drained, About
<1>2. NoneMalformed /\ [Wire!Next]_(Wire!vars) => NoneMalformed'
  <2>1. NoneMalformed /\ Wire!Tell => NoneMalformed'
    BY DEF NoneMalformed, Wire!Tell
  <2>2. NoneMalformed /\ (Wire!Lose \/ Wire!Refuse \/ UNCHANGED Wire!vars) => NoneMalformed'
    BY DEF NoneMalformed, Wire!Lose, Wire!Refuse, Wire!vars
  <2>3. \A f \in Filters : NoneMalformed /\ (Wire!Join(f) \/ Wire!Leave(f)) => NoneMalformed'
    BY DEF NoneMalformed, Wire!Join, Wire!Leave
  <2> QED  BY <2>1, <2>2, <2>3 DEF Wire!Next
<1>3. IInv /\ IInv' /\ WireInv /\ NoneMalformed /\ [Wire!Next]_(Wire!vars) => WireInv'
  <2> SUFFICES ASSUME IInv, IInv', WireInv, NoneMalformed,
                      [Wire!Next]_(Wire!vars), ~lost',
                      NEW f \in Filters, lock' # None => f # want'[lock']
               PROVE  f \in Drained' <=> refcount'[f] > 0 /\ f \notin Malformed
    BY DEF WireInv
  <2> DEFINE owed == IF lock = None THEN None ELSE want[lock]
  <2>1. /\ want \in [Plugins -> Filters] /\ want' \in [Plugins -> Filters]
        /\ lock \in Plugins \cup {None} /\ lock' \in Plugins \cup {None}
        /\ refcount \in [Filters -> Nat]
        /\ None \notin Plugins \cup Filters
    BY HostAssumption DEF IInv, TypeOK, PluginTypeOK, WireTypeOK
  <2>2. owed' # f /\ (owed # None => lock # None /\ owed = want[lock])
    BY <2>1
  <2>3. ASSUME NEW g \in Filters, Wire!Join(g)
        PROVE f \in Drained' <=> refcount'[f] > 0 /\ f \notin Malformed
    BY <2>1, <2>2, <2>3 DEF Wire!Join, WireInv
  <2>4. ASSUME NEW g \in Filters, Wire!Leave(g)
        PROVE f \in Drained' <=> refcount'[f] > 0 /\ f \notin Malformed
    BY <2>1, <2>2, <2>4 DEF Wire!Leave, WireInv
  <2>5. CASE Wire!Tell
    BY <2>1, <2>2, <2>5 DEF Wire!Tell, WireInv
  <2>6. CASE Wire!Refuse
    BY <2>1, <2>2, <2>6 DEF Wire!Refuse, WireInv, NoneMalformed
  <2>7. CASE UNCHANGED Wire!vars
    BY <2>1, <2>2, <2>7 DEF Wire!vars, WireInv
  <2>8. ~Wire!Lose
    BY DEF Wire!Lose
  <2> QED  BY <2>3, <2>4, <2>5, <2>6, <2>7, <2>8 DEF Wire!Next
<1>4. WireInv /\ IInv => WireFollowsRefcount
  BY DEF WireInv, WireFollowsRefcount, Drained
<1>5. IInv /\ [Next]_vars => [Wire!Next]_(Wire!vars)
  BY WireStep
<1> QED  BY <1>1, <1>2, <1>3, <1>4, <1>5, SpecInv, PTL DEF Spec

-----------------------------------------------------------------------------
(***************************************************************************)
(* Where the host can stand still.  ENABLED is beyond the prover, so the   *)
(* guards are written out: nobody waits, but for messages to come.         *)
(***************************************************************************)

\* The guards of HostCall and CleanUp.
CallCanGo(p) ==
    \/ pc[p] = "locking" /\ lock = None
    \/ NeedsSlot(p) /\ HasSlot
    \/ pc[p] = "subscribing" /\ want[p] \in Malformed
    \/ pc[p] = "exited"
    \/ pc[p] = "flushing" /\ (lock = None \/ flush[p] = {})

\* Those of GuestReturns and TakeMessage.
GuestCanGo(p) ==
    \/ pc[p] \in InGuest
    \/ pc[p] = "idle" /\ mailbox[p] > 0

\* That of EventLoop.
LoopCanGo ==
    \/ loop = "polling" /\ (~session \/ requests # <<>> \/ inbound # <<>>)
    \/ sending # None /\ (Open(sending) => mailbox[sending.plugin] < MailboxDepth)
    \/ loop = "dispatching" /\ sending = None

StandsStill ==
    /\ ~LoopCanGo
    /\ \A p \in Plugins : ~CallCanGo(p) /\ ~GuestCanGo(p)

OneDeadlock == StandsStill /\ (\E p \in Plugins : HostWorksFor(p)) => Wedged

(***************************************************************************)
(* For any number of plugins and filters and any depth of the queues, the  *)
(* cycle of Wedged is the only deadlock: if a call or a clean-up is still  *)
(* to be done and nothing in the host can go on, the event loop waits for  *)
(* the mailbox of a plugin that waits for the event loop (dispatch,        *)
(* subscribe_filter, unsubscribe_filter, publish).                         *)
(***************************************************************************)
THEOREM OneWayToHang == Spec => []OneDeadlock
<1>1. ASSUME IInv PROVE OneDeadlock
  <2> SUFFICES ASSUME StandsStill, NEW p \in Plugins, HostWorksFor(p)
               PROVE  Wedged
    BY DEF OneDeadlock
  <2> USE <1>1 DEF IInv
  <2>1. \A q \in Plugins :
            pc[q] \in {"subscribing", "publishing", "unsubscribing"} => NeedsSlot(q) /\ ~HasSlot
    BY DEF StandsStill, CallCanGo, NeedsSlot
  <2>2. lock # None => NeedsSlot(lock) /\ ~HasSlot
    BY <2>1 DEF LockInv, TypeOK, WireTypeOK
  <2>3. ~HasSlot
    <3>1. pc[p] \in {"locking", "flushing"} => lock # None
      BY DEF StandsStill, CallCanGo
    <3> QED BY <2>1, <2>2, <3>1 DEF HostWorksFor, InHostCall, StandsStill, CallCanGo
  <2>4. requests # <<>>
    BY <2>3, HostAssumption DEF HasSlot
  <2>5. loop = "dispatching" /\ sending # None
    BY <2>4 DEF StandsStill, LoopCanGo, TypeOK, RoutingTypeOK
  <2>6. Open(sending) /\ ~(mailbox[sending.plugin] < MailboxDepth)
    BY <2>5 DEF StandsStill, LoopCanGo
  <2>7. sending.plugin \in Plugins
    BY <2>5 DEF TypeOK, RoutingTypeOK, Route
  <2>8. mailbox[sending.plugin] = MailboxDepth /\ mailbox[sending.plugin] > 0
    <3>1. mailbox[sending.plugin] \in 0 .. MailboxDepth /\ MailboxDepth \in Nat \ {0}
      BY <2>7, HostAssumption DEF TypeOK, PluginTypeOK
    <3> QED BY <2>6, <3>1
  <2>9. pc[sending.plugin] \in InHostCall
    BY <2>6, <2>7, <2>8 DEF Open, Alive, StandsStill, GuestCanGo
  <2>10. WaitsForSlot(sending.plugin)
    BY <2>1, <2>2, <2>7, <2>9 DEF InHostCall, WaitsForSlot, StandsStill, CallCanGo
  <2> QED BY <2>3, <2>5, <2>6, <2>8, <2>10 DEF Wedged
<1> QED BY <1>1, SpecInv, PTL

=============================================================================
