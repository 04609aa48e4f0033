----------------------------- MODULE MCRegistry -----------------------------
(***************************************************************************)
(* Two gRPC requests in progress beside the watcher, two native devices    *)
(* and two committed upserts: enough for a registration to meet another    *)
(* one of the same device, for a delete to come between any two reads, for *)
(* an update to come between the row and the child rows of a `get', and    *)
(* for a message that names a deleted device by its ULID.  One message on  *)
(* the way and one in the watcher's hands make two.                        *)
(*                                                                         *)
(* The tokens of DevicePublishes come from the adapters: names of up to    *)
(* two words, two texts, with and without capitals and other characters,   *)
(* or empty.                                                               *)
(* NamesArrive, SanitizedArrive and SubjectsReadBack in RegistryProofs say *)
(* of names of any length what is said of these here.                      *)
(***************************************************************************)
EXTENDS Registry, Adapters, RegistryReads

Names == UNION { [1 .. n -> Word] : n \in 1 .. 2 }
SafeNames == { name \in Names : Safe(name) }
Device(publishes) == { ParseDeviceSubject(s) : s \in publishes }

\* Every device whose name is a valid token is read back by the watcher as
\* this name, for each of the keys in the catalog and for no other.
ASSUME SafeNamesArrive ==
    \A name \in SafeNames :
        /\ Device(ZigbeePublishes(Topic(name), {"contact", "action", "last_seen"}))
             = {<<"zigbee2mqtt", name>>}
        /\ Device(SdrPublishes([model |-> {name}, id |-> Empty, channel |-> Empty], {"count", "mic"}))
             = {<<"sdr433", name>>}
        /\ Cardinality(ZigbeePublishes(Topic(name), {"motion", "occupancy", "update"})) = 2

\* What sdr433 publishes is valid whatever the envelope says, unless it is
\* all empty, and nothing without a model; a zigbee2mqtt name with a dot
\* never gets to the watcher, and of an empty one the empty token does.
ASSUME OddNames ==
    /\ \A name \in Names, id \in [1 .. 1 -> Word] :
          LET e == [model |-> {name}, id |-> id, channel |-> id]
          IN  /\ Cardinality(Device(SdrPublishes(e, {"count"}))) = 1
              /\ \A d \in Device(SdrPublishes(e, {"count"})) :
                    d[1] = "sdr433" /\ (Safe(d[2]) <=> ~(name = Empty /\ id = Empty))
    /\ SdrPublishes([model |-> {}, id |-> Empty, channel |-> Empty], {"count"}) = {}
    /\ ZigbeePublishes(Topic(Empty), {"contact"}) = {<<"device", "zigbee2mqtt", Empty, "contact", "state">>}
    /\ SdrPublishes([model |-> {Empty}, id |-> <<[EmptyWord EXCEPT !.text = "a"]>>, channel |-> Empty], {"count"})
         = {<<"device", "sdr433", <<EmptyWord, [EmptyWord EXCEPT !.text = "a"]>>, "count", "state">>}
    /\ \A name \in Names :
          (\E i \in DOMAIN name : name[i].odd = "dot")
              => Device(ZigbeePublishes(Topic(name), {"contact"})) = {<<>>}

\* A subject that is built has as many tokens as it was given, and the
\* watcher reads the plugin and the device out of the three kinds that are
\* about devices, and out of no other; from one token that is not valid,
\* nothing is built.
ASSUME BuiltIsReadBack ==
    \A p, e \in { <<w>> : w \in { v \in Word : ~v.upper \/ v.odd = "none" } }, d \in Names :
        LET all == {DeviceState(p, d, e), DeviceEvent(p, d, e), DeviceAvail(p, d), Command(p, d, e)}
        IN  IF Safe(p) /\ Safe(d) /\ Safe(e)
            THEN /\ { ParseDeviceSubject(s) : s \in all \ {Command(p, d, e)} } = {<<p, d>>}
                 /\ ParseDeviceSubject(Command(p, d, e)) = <<>>
                 /\ Cardinality(all) = 4
            ELSE /\ {DeviceState(p, d, e), Command(p, d, e)} = {<<>>}
                 /\ Safe(p) => (AutomationFired(p) # <<>> /\ MlPrediction(p) # Audit(p))

-----------------------------------------------------------------------------

TrustLevels == {"Unspecified", "Discovered", "Verified", "UserAdded", "unknown"}
ReadWrites == {"Unspecified", "Read", "Write", "ReadWrite", "unknown"}

\* What was stored is read, and read again the same; an enum that says
\* nothing, or nothing that is known, has one it becomes.
ASSUME StoredIsRead ==
    /\ \A t \in TrustLevels :
        LET d == [id |-> "d", integration |-> "z", trust_level |-> t, last_seen |-> 1]
            read == RowToDevice(DeviceToRow(d, 5), 9)
        IN  /\ read.trust_level = IF t \in {"Unspecified", "unknown"} THEN "UserAdded" ELSE t
            /\ read.last_seen = 5
            /\ RowToDevice(DeviceToRow(read, 5), 9) = read
    /\ \A rw \in ReadWrites, id \in {"", "e"} :
        LET read == RowToEntity(EntityToRow([id |-> id, rw |-> rw], "fresh"))
        IN  /\ read.rw = IF rw \in {"Unspecified", "unknown"} THEN "Read" ELSE rw
            /\ read.id # "" /\ RowToEntity(EntityToRow(read, "other")) = read

Stored == [id : 1 .. 3, integration : {"z", "s"}, rooms : SUBSET {"k"}, created_at : 1 .. 3]
Tables == { t \in [1 .. 3 -> Stored] : \A i \in 1 .. 3 : t[i].id = i /\ t[i].created_at = i }

\* A list has every device that matches, once, the newest first; it is all
\* of them or an error, which a delete in the middle of it makes of any list
\* with that device, and a registration in the middle of it does not.
ASSUME WholeOrNothing ==
    \A table \in Tables, gone \in 0 .. 3, integration \in {"", "z"}, room \in {"", "k"} :
        LET matching == { i \in 1 .. 3 : /\ integration = "" \/ table[i].integration = "z"
                                         /\ room = "" \/ table[i].rooms = {"k"} }
            after == SelectSeq(table, LAMBDA d : d.id # gone)
            list == ListDevices(table, after, integration, room)
        IN  /\ list.status = "ok" <=> gone \notin matching
            /\ list.status = "ok" => ToSet(list.ids) = matching
            /\ \A i \in 1 .. Len(list.ids) - 1 : list.ids[i] > list.ids[i + 1]
            /\ gone \in 1 .. 3 =>
                  ListDevices(after, table, integration, room).ids =
                      SelectSeq(ListDevices(table, table, integration, room).ids, LAMBDA id : id # gone)
            /\ IsPrefix(Streamed(list.ids, 1), list.ids)

=============================================================================
