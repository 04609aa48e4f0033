----------------------------- MODULE Readings ------------------------------
(***************************************************************************)
(* A reading on its way: from a device over its adapter, on a plugin host  *)
(* that has a bus, to the registry's watcher and the history, and what an  *)
(* operator can find and delete of it there.                               *)
(*                                                                         *)
(* The registry mints an id for every pair of integration and device token *)
(* it sees; the history stores the token.                                  *)
(***************************************************************************)
EXTENDS Adapters, History

CONSTANTS
    Devices,        \* [plugin, name] for zigbee2mqtt, [plugin, model, id, channel] for sdr433
    Payloads,       \* sets of JSON keys
    MaxReadings,    \* bound: messages of devices
    MaxNow          \* bound: time

VARIABLES
    now,
    loop,       \* per plugin, the publishes its on_mqtt_message still has to make
    bus,        \* what is on the way to the watcher
    devices,    \* the registry: [id, integration, external]
    rows,       \* the history
    minted,
    readings,   \* for the bound
    pruned      \* history: [of, before], what was pruned by its id

vars == <<now, loop, bus, devices, rows, minted, readings, pruned>>

Plugins == {"zigbee2mqtt", "sdr433"}

Publishes(d, keys) ==
    IF d.plugin = "zigbee2mqtt" THEN ZigbeePublishes(Topic(d.name), keys)
    ELSE SdrPublishes(d, keys)

\* A ULID as the registry prints it: a token of no device.
Ulid(n) == <<[ulid |-> n]>>

Init ==
    /\ now = 0 /\ loop = [p \in Plugins |-> {}] /\ bus = <<>>
    /\ devices = {} /\ rows = {} /\ minted = 0 /\ readings = 0 /\ pruned = {}

\* One message at a time: on_mqtt_message runs to its end.
OnMqttMessage(d, keys) ==
    /\ readings < MaxReadings
    /\ readings' = readings + 1
    /\ loop[d.plugin] = {}
    /\ loop' = [loop EXCEPT ![d.plugin] = { [subject |-> s, of |-> d] : s \in Publishes(d, keys) }]
    /\ UNCHANGED <<now, bus, devices, rows, minted, pruned>>

\* publish_all: a publish that fails is logged, and the loop goes on.
PublishNext(p) ==
    \E m \in loop[p] :
        /\ loop' = [loop EXCEPT ![p] = @ \ {m}]
        /\ bus' \in {Append(bus, m), bus}
        /\ UNCHANGED <<now, devices, rows, minted, readings, pruned>>

\* handle and then the history, which goes on without each other.
Watch ==
    /\ bus # <<>>
    /\ bus' = Tail(bus)
    /\ LET key == ParseDeviceSubject(Head(bus).subject)
           known == \E x \in devices : <<x.integration, x.external>> = key
           new == [id |-> Ulid(minted + 1), integration |-> key[1], external |-> key[2]]
       IN  IF key = <<>> THEN UNCHANGED <<devices, minted, rows>>
           ELSE /\ \/ ~known /\ devices' = devices \cup {new} /\ minted' = minted + 1
                   \/ UNCHANGED <<devices, minted>>
                /\ rows' \in {Record(rows, key[2], now, Head(bus).of), rows}
    /\ UNCHANGED <<now, loop, readings, pruned>>

\* delete_device, over gRPC: the history is not told.
DeleteDevice(x) ==
    /\ x \in devices
    /\ devices' = devices \ {x}
    /\ UNCHANGED <<now, loop, bus, rows, minted, readings, pruned>>

\* "Pass the device ULID exactly as it appears in the registry."
PruneById(x, cutoff) ==
    /\ x \in devices
    /\ rows' = Prune(rows, x.id, cutoff)
    /\ pruned' = pruned \cup {[of |-> x, before |-> IF cutoff = None THEN now ELSE cutoff]}
    /\ UNCHANGED <<now, loop, bus, devices, minted, readings>>

PruneByTime(cutoff) ==
    /\ rows' = Prune(rows, None, cutoff)
    /\ UNCHANGED <<now, loop, bus, devices, minted, readings, pruned>>

Tick ==
    /\ now < MaxNow
    /\ now' = now + 1
    /\ UNCHANGED <<loop, bus, devices, rows, minted, readings, pruned>>

Next ==
    \/ \E d \in Devices, keys \in Payloads : OnMqttMessage(d, keys)
    \/ \E p \in Plugins : PublishNext(p)
    \/ Watch
    \/ \E x \in devices : DeleteDevice(x) \/ \E c \in {None} \cup (0 .. now) : PruneById(x, c)
    \/ \E c \in 0 .. now : PruneByTime(c)
    \/ Tick

Spec == Init /\ [][Next]_vars

-----------------------------------------------------------------------------
(***************************************************************************)
(* Properties.                                                             *)
(***************************************************************************)

(***************************************************************************)
(* What an operator deletes of a device is gone: iotctl history prune asks *)
(* for "the device ULID exactly as it appears in the registry"             *)
(* (crates/iot-cli/src/history.rs:39).                                     *)
(***************************************************************************)
PrunedIsGone ==
    \A p \in pruned, r \in rows :
        ~(/\ r.of.plugin = p.of.integration
          /\ r.device_id = p.of.external
          /\ r.ts < p.before)

=============================================================================
