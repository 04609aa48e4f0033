------------------------------ MODULE MCEngine ------------------------------
(***************************************************************************)
(* Two rules that feed each other: the first turns a lamp and sends a      *)
(* command, the second answers the lamp with the intent that set the first *)
(* one off.  Time goes to two TTLs: a claim lives, expires at the          *)
(* boundary, and a message may wait until it has.                          *)
(*                                                                         *)
(* The rules are what iotctl rule add makes of their files, and what they  *)
(* pass follows from the messages as they are on the wire.  One message,   *)
(* quoting, has a text that looks like the placeholder of a log template.  *)
(***************************************************************************)
EXTENDS Engine, Rules

CONSTANTS intent, lamp, cmd, quoting, a, b

MCMessages == {intent, lamp, cmd, quoting}
MCRootOf == [m \in MCMessages |-> CASE m = lamp -> "device"
                                    [] m = cmd  -> "elsewhere"
                                    [] OTHER    -> "intent"]

MCRules == << [id |-> a, passes |-> {intent, quoting}, actions |-> <<lamp, Log, cmd>>],
              [id |-> b, passes |-> {lamp}, actions |-> <<intent>>] >>
MCEndless == {<<a, quoting>>}

-----------------------------------------------------------------------------
Target == Placeholder(<<"target">>)
Json(value) == [jsonish |-> TRUE, json |-> value, entity |-> Absent]
Asks(text) == Json(Object([target |-> Text(text)]))
Reading(value) == [jsonish |-> FALSE, json |-> Absent, entity |->
    [device_id |-> "lamp", entity_id |-> Absent, value |-> value, at |-> "now", schema_version |-> 1]]

Wire(m) ==
    CASE m = intent  -> [subject |-> "command.intent.lights.on", payload |-> Asks(<<Word("lamp")>>)]
      [] m = quoting -> [subject |-> "command.intent.lights.on", payload |-> Asks(<<Target>>)]
      [] m = lamp    -> [subject |-> "device.hue.lamp.state", payload |-> Reading(Number(2, FALSE))]
      [] m = cmd     -> [subject |-> "cmd.hue.lamp", payload |-> [jsonish |-> FALSE, json |-> Absent, entity |-> Absent]]

Source(condition) == [size |-> MaxSource, verdict |-> "parsed"] @@ condition

RuleA == [id |-> a, triggers |-> <<"command.intent.lights.on">>,
          when |-> Source([op |-> "has", path |-> <<"target">>]),
          actions |-> MCRules[1].actions, template |-> <<Word("turning on"), Target>>]
RuleB == [id |-> b, triggers |-> <<"device.hue.lamp.state">>,
          when |-> Source([op |-> "gt", path |-> <<"value">>, n |-> 1]),
          actions |-> MCRules[2].actions, template |-> <<>>]

Installed == AddRule(AddRule(<<>>, RuleA, FALSE), RuleB, FALSE)
Compiled(id) ==
    [id      |-> id,
     passes  |-> { m \in MCMessages : Fires(Installed[id], Wire(m)) },
     actions |-> Installed[id].actions]
\* The instance is what these files and messages amount to.
ASSUME RulesOnTheWire ==
    /\ MCRules = <<Compiled(a), Compiled(b)>>
    /\ MCEndless =
           { key \in {a, b} \X MCMessages :
                 ~RenderEnds(Installed[key[1]].template, DecodePayload(Wire(key[2]).payload)) }

Numbers == { Number(n, whole) : n \in -MaxInt - 2 .. MaxUint + 1, whole \in BOOLEAN }
Bodies == { Object([target |-> v]) : v \in Numbers \cup {Null, Bool(TRUE), Text(<<>>)} }
              \cup Numbers \cup {Null, Object(<<>>)}

\* A dry run and the engine agree on every rule, subject and JSON payload,
\* unless the engine does not take the payload for JSON: then it has null.
ASSUME DryRunAgrees ==
    \A raw \in {RuleA, RuleB}, m \in MCMessages, v \in Bodies, jsonish \in BOOLEAN :
        LET on == Wire(m).subject
            payload == [jsonish |-> jsonish, json |-> v, entity |-> Absent]
        IN  Fires(raw, [subject |-> on, payload |-> payload])
                <=> TestRule(raw, on, IF jsonish THEN v ELSE Null) = "true"

\* Numbers keep their value; what comes as a protobuf number is a float.
ASSUME NumbersKept ==
    \A v \in Numbers :
        /\ JsonToCel(v).n = v.n
        /\ JsonToCel(v).kind = "int" => v.n <= MaxInt
        /\ JsonToCel(ProstToJson(v)).kind = "float"

\* JSON goes before an EntityState, and an EntityState before nothing, also
\* for bytes that only look like JSON.
ASSUME DecodesWhatItCan ==
    \A jsonish \in BOOLEAN, v \in Bodies :
        LET bytes == [Reading(Number(2, FALSE)) EXCEPT !.jsonish = jsonish]
            both == [bytes EXCEPT !.json = v]
        IN  /\ DecodePayload(bytes).fields["value"] = Number(2, FALSE)
            /\ DecodePayload(both) = IF jsonish THEN v ELSE DecodePayload(bytes)

Texts == UNION { [1 .. n -> {Word("x"), Target, Placeholder(<<"other">>), Unclosed}] : n \in 0 .. 2 }
Ends(out) == Open(out) = {}

\* Rendering ends if no value leads back to its own placeholder, after seven
\* rounds here, and only then, unless a placeholder that is not closed has
\* swallowed another one.
ASSUME RenderingEnds ==
    \A template, target, other \in Texts :
        LET payload == Object([target |-> Text(target), other |-> Text(other)])
        IN  /\ RenderEnds(template, payload) => Ends(Rendered(template, payload, 7))
            /\ Ends(Rendered(template, payload, 7))
                  => \/ RenderEnds(template, payload)
                     \/ Unclosed \in ToSet(template \o target \o other)

\* Only rules that compile get into the directory, none is replaced without
\* --force, and one that was deleted can be added again.
ASSUME RulesDirectory ==
    \A raw \in {RuleA, RuleB, [RuleA EXCEPT !.actions = <<>>], [RuleB EXCEPT !.id = a],
                [RuleB EXCEPT !.when.size = MaxSource + 1]}, force \in BOOLEAN :
        LET dir == AddRule(Installed, raw, force)
        IN  /\ ListRules(dir) = {a, b}
            /\ ~force => dir = Installed
            /\ Compiles(raw) => AddRule(DeleteRule(dir, raw.id), raw, FALSE)[raw.id] = raw

=============================================================================
