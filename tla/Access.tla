------------------------------- MODULE Access -------------------------------
(***************************************************************************)
(* What a plugin may do: the capabilities of the manifest it was loaded    *)
(* with, checked at every host call (component.rs), and the ACL that       *)
(* `iotctl mosquitto regen-acl' derives from the installed manifests for   *)
(* the one MQTT connection all plugins share (mqtt_acl.rs, mosquitto.rs).  *)
(*                                                                         *)
(* The manifest on disk, the one a plugin runs with, the ACL file and the  *)
(* ACL the broker has loaded change at different times.                    *)
(***************************************************************************)
EXTENDS Capabilities, FiniteSets

CONSTANTS
    Plugins,
    Manifests,     \* CapabilityMaps: publish, write, read, outbound
    Topics,        \* topics of the broker
    Filters,       \* filters a plugin may ask for
    Urls,          \* URLs a plugin may ask for
    None,
    ReqCap,        \* MAX_REQ_BODY_BYTES
    RespCap,       \* MAX_RESP_BODY_BYTES
    MaxBytes,      \* bound: request bodies and response chunks
    MaxRoutes      \* bound: filters an incarnation registers

ASSUME AccessAssumption ==
    /\ None \notin Manifests
    /\ {ReqCap, RespCap, MaxBytes, MaxRoutes} \subseteq Nat
    /\ \A m \in Manifests : m.read \subseteq Filters
    /\ Filters \subseteq Seq(STRING) /\ Topics \subseteq Seq(STRING)

VARIABLES
    installed,   \* the manifest in the install directory
    running,     \* PluginState.capabilities
    routes,      \* the filters the plugin has registered
    file,        \* acl.conf
    acl,         \* what the broker read of it
    call,        \* the plugin's net.http call
    due          \* history: what the operator still has to do after a change

vars == <<installed, running, routes, file, acl, call, due>>

Installed == { p \in Plugins : installed[p] # None }
Running == { p \in Plugins : running[p] # None }

\* generate: the union of what the manifests declare, as read and write rules.
Generate(dir) ==
    LET ms == { dir[p] : p \in Plugins } \ {None}
    IN  [read |-> UNION { m.read : m \in ms }, write |-> UNION { m.write : m \in ms }]

Grants == [read : SUBSET UNION { m.read : m \in Manifests },
           write : SUBSET UNION { m.write : m \in Manifests }]

Idle == [stage |-> "idle"]
Calls == {Idle} \cup [stage : {"sent", "reading"}, url : Urls, got : 0 .. RespCap]

TypeOK ==
    /\ installed \in [Plugins -> Manifests \cup {None}]
    /\ running \in [Plugins -> Manifests \cup {None}]
    /\ routes \in [Plugins -> SUBSET Filters]
    /\ \A p \in Plugins : routes[p] # {} \/ call[p] # Idle => p \in Running
    /\ {file, acl} \subseteq Grants
    /\ call \in [Plugins -> Calls]
    /\ due \in {"regenerate", "reload", "nothing"}

Init ==
    /\ installed \in [Plugins -> Manifests \cup {None}]
    /\ running = [p \in Plugins |-> None]
    /\ routes = [p \in Plugins |-> {}]
    /\ file = Generate(running)
    /\ acl = file
    /\ call = [p \in Plugins |-> Idle]
    /\ due = "regenerate"

-----------------------------------------------------------------------------
(***************************************************************************)
(* The operator.                                                           *)
(***************************************************************************)

\* plugin install --force or uninstall (Provision has the steps).
ManifestChanges(p) ==
    /\ \E m \in Manifests \cup {None} : installed' = [installed EXCEPT ![p] = m]
    /\ due' = "regenerate"
    /\ UNCHANGED <<running, routes, file, acl, call>>

\* Mutation of RegenAcl: rules for the plugins that run.
RegenAclOfRunning ==
    /\ file' = Generate(running)
    /\ due' = "reload"
    /\ UNCHANGED <<installed, running, routes, acl, call>>

RegenAcl ==
    /\ file' = Generate(installed)
    /\ due' = "reload"
    /\ UNCHANGED <<installed, running, routes, acl, call>>

\* kill -HUP
BrokerReloads ==
    /\ acl' = file
    /\ due' = IF due = "reload" THEN "nothing" ELSE due
    /\ UNCHANGED <<installed, running, routes, file, call>>

-----------------------------------------------------------------------------
(***************************************************************************)
(* The plugin and its host calls.                                          *)
(***************************************************************************)

Load(p) ==
    /\ running[p] = None
    /\ installed[p] # None
    /\ running' = [running EXCEPT ![p] = installed[p]]
    /\ UNCHANGED <<installed, routes, file, acl, call, due>>

\* The task ends, a call in progress with it, and the supervisor unregisters
\* the routes before it loads again.
Exit(p) ==
    /\ p \in Running
    /\ running' = [running EXCEPT ![p] = None]
    /\ routes' = [routes EXCEPT ![p] = {}]
    /\ call' = [call EXCEPT ![p] = Idle]
    /\ UNCHANGED <<installed, file, acl, due>>

\* mqtt.subscribe of a filter that is denied only leaves an audit entry.
Subscribe(p, filter) ==
    /\ p \in Running
    /\ CheckMqttSubscribe(running[p], filter)
    /\ Cardinality(routes[p] \cup {filter}) <= MaxRoutes
    /\ routes' = [routes EXCEPT ![p] = @ \cup {filter}]
    /\ UNCHANGED <<installed, running, file, acl, call, due>>

\* net.http up to send: a URL that is denied, a method that does not parse or
\* a body over the cap ends the call.
Http(p, url, body) ==
    /\ p \in Running
    /\ call[p] = Idle
    /\ CheckNetOutbound(running[p], url)
    /\ body <= ReqCap
    /\ call' = [call EXCEPT ![p] = [stage |-> "sent", url |-> url, got |-> 0]]
    /\ UNCHANGED <<installed, running, routes, file, acl, due>>

\* The head of the response; an advertised length over the cap ends the call.
\* The body may be longer than advertised, or of no advertised length.
ResponseHead(p) ==
    /\ call[p].stage = "sent"
    /\ call' = [call EXCEPT ![p].stage = "reading"]
    /\ UNCHANGED <<installed, running, routes, file, acl, due>>

\* Mutation of Chunk: the cap is looked at before the chunk is added.
ChunkThenCap(p, bytes) ==
    /\ call[p].stage = "reading"
    /\ call' = IF call[p].got > RespCap
               THEN [call EXCEPT ![p] = Idle]
               ELSE [call EXCEPT ![p].got = @ + bytes]
    /\ UNCHANGED <<installed, running, routes, file, acl, due>>

Chunk(p, bytes) ==
    /\ call[p].stage = "reading"
    /\ call' = IF call[p].got + bytes > RespCap
               THEN [call EXCEPT ![p] = Idle]
               ELSE [call EXCEPT ![p].got = @ + bytes]
    /\ UNCHANGED <<installed, running, routes, file, acl, due>>

\* The body is complete, a cap is hit, the transport fails or the client's
\* total timeout runs out.
HttpEnds(p) ==
    /\ call[p] # Idle
    /\ call' = [call EXCEPT ![p] = Idle]
    /\ UNCHANGED <<installed, running, routes, file, acl, due>>

-----------------------------------------------------------------------------
HostCall(p) ==
    \/ \E filter \in Filters : Subscribe(p, filter)
    \/ \E url \in Urls, body \in 0 .. MaxBytes : Http(p, url, body)
    \/ ResponseHead(p)
    \/ \E bytes \in 1 .. MaxBytes : Chunk(p, bytes)
    \/ HttpEnds(p)

Next ==
    \/ \E p \in Plugins : ManifestChanges(p) \/ Load(p) \/ Exit(p) \/ HostCall(p)
    \/ RegenAcl
    \/ BrokerReloads

Spec == Init /\ [][Next]_vars

-----------------------------------------------------------------------------
(***************************************************************************)
(* Properties.                                                             *)
(***************************************************************************)

Matched(filters, topic) == \E f \in filters : MatchesTopic(f, topic)

(***************************************************************************)
(* A plugin can only narrow: whatever topic a registered filter matches in *)
(* dispatch, a filter its manifest declares matches too, although the      *)
(* check compares filters and never sees a topic (check_mqtt_subscribe).   *)
(* All plugins share one session, so nothing else keeps them apart.        *)
(***************************************************************************)
HearsOnlyGranted ==
    \A p \in Plugins, t \in Topics :
        Matched(routes[p], t) => p \in Running /\ Matched(running[p].read, t)

(***************************************************************************)
(* Once the operator has regenerated and reloaded the ACL, the broker      *)
(* keeps nothing back from a plugin that runs with its installed manifest, *)
(* on any topic of its routes or any topic the host lets it publish on,    *)
(* and grants neither a read nor a write that no installed manifest        *)
(* declares ("exactly the union", mqtt_acl.rs).                            *)
(***************************************************************************)
AclServesPlugins ==
    due = "nothing" =>
        \A t \in Topics :
            /\ \A p \in Running : running[p] = installed[p] =>
                   /\ Matched(routes[p], t) => Matched(acl.read, t)
                   /\ CheckMqttPublish(running[p], t) => Matched(acl.write, t)
            /\ Matched(acl.read, t) =>
                   \E p \in Installed : Matched(installed[p].read, t)
            /\ Matched(acl.write, t) =>
                   \E p \in Installed : Matched(installed[p].write, t)

=============================================================================
