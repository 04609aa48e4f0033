----------------------------- MODULE Adapters ------------------------------
(***************************************************************************)
(* The two adapter plugins that translate MQTT messages into device states *)
(* (plugins/zigbee2mqtt-adapter, plugins/sdr433-adapter), and how the      *)
(* registry reads the subjects they publish on.                            *)
(*                                                                         *)
(* A name is a sequence of words, as hyphens divide it; a word may have    *)
(* capitals and may contain one character that is no letter, digit or      *)
(* underscore, and it may be empty: "-5" has two words, and the name of no *)
(* characters is one empty word.  A subject is a sequence of tokens, a     *)
(* token a name.                                                           *)
(***************************************************************************)
EXTENDS Naturals, Sequences, SequencesExt

CONSTANT Words      \* texts of the words that have characters

ASSUME WordsAreNotEmpty == "empty" \notin Words

Odd == {"none", "underscore", "dot", "space"}
\* The word of no characters: what "-" has on both its sides.
EmptyWord == [text |-> "empty", upper |-> FALSE, odd |-> "none"]
Word == {EmptyWord} \cup [text : Words, upper : BOOLEAN, odd : Odd]
DeviceName == Seq(Word) \ {<<>>}
Empty == <<EmptyWord>>
Plain(w) == ~w.upper /\ w.odd \in {"none", "underscore"}

\* What validate_token accepts.
Safe(name) == name # Empty /\ \A i \in DOMAIN name : Plain(name[i])

Each(Op(_), name) == [i \in DOMAIN name |-> Op(name[i])]

-----------------------------------------------------------------------------
(***************************************************************************)
(* zigbee2mqtt: the friendly name is the topic level below the prefix, and *)
(* only its capitals are changed.  An answer that may be missing is a set. *)
(***************************************************************************)

Topic(name) == <<"zigbee2mqtt", name>>

\* Of <fn>/availability and the like, the first level below the prefix,
\* which is empty in "zigbee2mqtt/" and no less a name.
FriendlyName(topic) == IF Len(topic) > 1 /\ topic[1] = "zigbee2mqtt" THEN {topic[2]} ELSE {}

ToLower(name) == Each(LAMBDA w : [w EXCEPT !.upper = FALSE], name)

ZigbeeEntities ==
    [temperature |-> "temperature", humidity |-> "humidity", pressure |-> "pressure",
     battery |-> "battery", linkquality |-> "link_quality", occupancy |-> "motion",
     motion |-> "motion", contact |-> "contact", action |-> "button"]

-----------------------------------------------------------------------------
(***************************************************************************)
(* sdr433: the id is put together from model, id and channel, each of them *)
(* sanitised.                                                              *)
(***************************************************************************)

Sanitize(name) ==
    Each(LAMBDA w : [w EXCEPT !.upper = FALSE,
                              !.odd = IF w.odd = "none" THEN "none" ELSE "underscore"], name)

\* An id or channel that is missing or of another JSON type is the empty
\* one, and left out; without a model, or with one that is no string, there
\* is no device; with an empty one there is.
Part(name) == IF name = Empty THEN <<>> ELSE Sanitize(name)

DeviceIdFromEnvelope(e) ==
    { Sanitize(model) \o Part(e.id) \o Part(e.channel) : model \in e.model }

SdrEntities ==
    [temperature_C |-> "temperature", temperature_F |-> "temperature_f",
     humidity |-> "humidity", state |-> "contact", contact_open |-> "contact",
     pressure_PSI |-> "pressure_psi", pressure_kPa |-> "pressure_kpa",
     rain_mm |-> "rainfall_mm", rain_in |-> "rainfall_in", power_W |-> "power",
     energy_kWh |-> "energy", count |-> "pulse_count",
     water_consumption |-> "water_total", battery_ok |-> "battery_ok"]

-----------------------------------------------------------------------------
(***************************************************************************)
(* From a message to the subjects it is published on, and back.            *)
(***************************************************************************)

Entities(plugin) == IF plugin = "zigbee2mqtt" THEN ZigbeeEntities ELSE SdrEntities
KnownEntityKeys(plugin, keys) == keys \cap DOMAIN Entities(plugin)

\* A dot divides a token in two.
Split(name) ==
    LET dots == { i \in DOMAIN name : name[i].odd = "dot" }
        part(i, side) == [name[i] EXCEPT !.odd = side]
    IN  IF dots = {} THEN <<name>>
        ELSE LET i == CHOOSE i \in dots : \A j \in dots : i <= j
             IN  << SubSeq(name, 1, i - 1) \o <<part(i, "before")>>,
                    <<part(i, "after")>> \o SubSeq(name, i + 1, Len(name)) >>

Subject(plugin, device, key) == <<"device", plugin>> \o Split(device) \o <<key, "state">>

\* What on_mqtt_message publishes on for a message with these keys: nothing
\* if it is no object, or names no device.
Published(plugin, devices, keys) ==
    { Subject(plugin, d, k) : d \in devices, k \in KnownEntityKeys(plugin, keys) }

ZigbeePublishes(topic, keys) ==
    Published("zigbee2mqtt", { ToLower(name) : name \in FriendlyName(topic) }, keys)

SdrPublishes(envelope, keys) ==
    Published("sdr433", DeviceIdFromEnvelope(envelope), keys)

\* The subjects iot-proto builds, each token checked, and no subject if one
\* of them is not valid.
Built(tokens, subject) == IF \A i \in DOMAIN tokens : Safe(tokens[i]) THEN subject ELSE <<>>

DeviceState(plugin, device, entity) ==
    Built(<<plugin, device, entity>>, <<"device", plugin, device, entity, "state">>)
DeviceEvent(plugin, device, entity) ==
    Built(<<plugin, device, entity>>, <<"device", plugin, device, entity, "event">>)
DeviceAvail(plugin, device) ==
    Built(<<plugin, device>>, <<"device", plugin, device, "avail">>)
Command(plugin, device, entity) ==
    Built(<<plugin, device, entity>>, <<"cmd", plugin, device, entity>>)
AutomationFired(rule) == Built(<<rule>>, <<"automation", rule, "fired">>)
MlPrediction(model) == Built(<<model>>, <<"ml", model, "prediction">>)
Audit(kind) == Built(<<kind>>, <<"audit", kind>>)

\* parse_device_subject: plugin and device token, if the shape is known.
ParseDeviceSubject(subject) ==
    IF /\ Len(subject) \in {4, 5} /\ subject[1] = "device"
       /\ \/ Len(subject) = 4 /\ subject[4] = "avail"
          \/ Len(subject) = 5 /\ subject[5] \in {"state", "event"}
    THEN <<subject[2], subject[3]>> ELSE <<>>

=============================================================================
