------------------------------- MODULE Rules --------------------------------
(***************************************************************************)
(* What a rule is and what it makes of a message: rule.rs, expr.rs and the *)
(* conversions of engine.rs in crates/iot-automation, and the files that   *)
(* iotctl rule keeps.                                                      *)
(*                                                                         *)
(* A JSON value is a record with its kind; a text is a sequence of pieces, *)
(* each a word, a placeholder or the beginning of one that nothing closes. *)
(* Paths are sequences of field names.  Of bytes it matters whether they   *)
(* look like JSON, and what they are as JSON and as an EntityState.        *)
(***************************************************************************)
EXTENDS Integers, Sequences, FiniteSets, SequencesExt

CONSTANTS
    Absent,         \* where a message has no such field
    MaxInt,         \* i64: -MaxInt - 1 .. MaxInt
    MaxUint,        \* u64: 0 .. MaxUint
    MaxSource       \* MAX_EXPR_SOURCE_BYTES

Null == [kind |-> "null"]
Bool(b) == [kind |-> "bool", is |-> b]
Number(n, whole) == [kind |-> "number", n |-> n, whole |-> whole]
Text(pieces) == [kind |-> "string", text |-> pieces]
Object(fields) == [kind |-> "object", fields |-> fields]

Word(w) == [word |-> w]
Placeholder(path) == [path |-> path]
Unclosed == [unclosed |-> "{{payload."]
Quote == Word("quote")

-----------------------------------------------------------------------------
(***************************************************************************)
(* From bytes to the payload a condition sees.                             *)
(***************************************************************************)

RECURSIVE ProstToJson(_), JsonToCel(_)

\* Numbers are f64; what is no JSON number becomes null.
ProstToJson(v) ==
    CASE v.kind = "number" -> IF v.n = Absent THEN Null ELSE Number(v.n, FALSE)
      [] v.kind = "object" -> Object([f \in DOMAIN v.fields |-> ProstToJson(v.fields[f])])
      [] OTHER -> v

\* entity_state_to_json: the fields that are there, and schema_version.
EntityStateToJson(entity) ==
    LET given == { f \in {"device_id", "entity_id", "value", "at"} : entity[f] # Absent }
    IN  Object([f \in given \cup {"schema_version"} |->
                   IF f = "value" THEN ProstToJson(entity.value)
                   ELSE IF f = "schema_version" THEN Number(entity.schema_version, TRUE)
                   ELSE Text(<<Word(entity[f])>>)])

\* decode_payload: JSON only behind a first byte that JSON values have,
\* which a minus sign or a space is not; what is no JSON after all may still
\* be an EntityState.
DecodePayload(bytes) ==
    IF bytes.jsonish /\ bytes.json # Absent THEN bytes.json
    ELSE IF bytes.entity # Absent THEN EntityStateToJson(bytes.entity)
    ELSE Null

\* json_to_cel: an integer if it fits i64, else an unsigned one, else a float.
JsonToCel(v) ==
    CASE v.kind = "number" ->
             [kind |-> IF v.whole /\ v.n \in -MaxInt - 1 .. MaxInt THEN "int"
                       ELSE IF v.whole /\ v.n \in 0 .. MaxUint THEN "uint"
                       ELSE "float",
              n |-> v.n]
      [] v.kind = "object" -> Object([f \in DOMAIN v.fields |-> JsonToCel(v.fields[f])])
      [] OTHER -> v

-----------------------------------------------------------------------------
(***************************************************************************)
(* Conditions.                                                             *)
(***************************************************************************)

Get(v, f) == IF v # Absent /\ v.kind = "object" /\ f \in DOMAIN v.fields THEN v.fields[f] ELSE Absent
Lookup(v, path) == FoldLeft(Get, v, path)

\* What the interpreter makes of `path > n', has(path) and a path alone:
\* a field that is missing is an error, and so is a comparison of kinds.
Eval(when, payload) ==
    LET v == Lookup(payload, when.path)
    IN  CASE when.op = "has" -> Bool(v # Absent)
          [] v = Absent -> [kind |-> "error"]
          [] when.op = "path" -> v
          [] v.kind \in {"int", "uint", "float"} -> Bool(v.n > when.n)
          [] OTHER -> [kind |-> "error"]

\* eval_bool: a condition must come to true or false.
EvalBool(when, payload) ==
    LET result == Eval(when, JsonToCel(payload))
    IN  IF result.kind # "bool" THEN "error" ELSE IF result.is THEN "true" ELSE "false"

\* parse: the size first; a panic of the parser is an error like another.
Parses(source) == source.size <= MaxSource /\ source.verdict \notin {"error", "panic"}

Compiles(raw) ==
    /\ raw.id # "" /\ raw.triggers # <<>> /\ raw.actions # <<>>
    /\ Parses(raw.when)

\* triggers_on: equal to one of the triggers; no patterns.
TriggersOn(rule, subject) == subject \in ToSet(rule.triggers)

Fires(rule, message) ==
    /\ TriggersOn(rule, message.subject)
    /\ EvalBool(rule.when, DecodePayload(message.payload)) = "true"

-----------------------------------------------------------------------------
(***************************************************************************)
(* render_template: {{trigger}} everywhere, then the first {{payload.path}} *)
(* of the text as it is by now, until none is left or nothing closes it.   *)
(* A value is inserted as JSON, and what it contains is looked at again.   *)
(* Only a placeholder has the braces that close one.                       *)
(***************************************************************************)

RECURSIVE JsonText(_), Rendered(_, _, _)

JsonText(v) ==
    CASE v = Absent -> <<Word("null")>>
      [] v.kind = "string" -> <<Quote>> \o v.text \o <<Quote>>
      [] v.kind = "object" -> FlattenSeq(SetToSeq({ JsonText(v.fields[f]) : f \in DOMAIN v.fields }))
      [] OTHER -> <<Word(v.kind)>>

Open(out) == { i \in DOMAIN out : "path" \in DOMAIN out[i] }

\* The text after so many rounds.  A placeholder that is not closed runs on
\* to the end of the next one, and names no field then.
Rendered(out, payload, rounds) ==
    IF Open(out) = {} \/ rounds = 0 THEN out
    ELSE LET start == Min(Open(out) \cup { i \in DOMAIN out : out[i] = Unclosed })
             end == Min(Open(out))
             value == IF start = end THEN Lookup(payload, out[end].path) ELSE Absent
         IN  Rendered(SubSeq(out, 1, start - 1) \o JsonText(value) \o SubSeq(out, end + 1, Len(out)),
                      payload, rounds - 1)

\* The placeholders a text leads to, through values that contain some.
RECURSIVE LeadsTo(_, _)
LeadsTo(paths, payload) ==
    LET next == paths \cup UNION { LET text == JsonText(Lookup(payload, p))
                                   IN  { text[i].path : i \in Open(text) } : p \in paths }
    IN  IF next = paths THEN paths ELSE LeadsTo(next, payload)

\* No value that is inserted leads back to its own placeholder: without
\* placeholders that nothing closes, rendering ends just then.
RenderEnds(template, payload) ==
    LET inside(p) == LET text == JsonText(Lookup(payload, p)) IN { text[i].path : i \in Open(text) }
    IN  \A p \in LeadsTo({ template[i].path : i \in Open(template) }, payload) :
            p \notin LeadsTo(inside(p), payload)

-----------------------------------------------------------------------------
(***************************************************************************)
(* iotctl rule: the directory holds one file per id.                       *)
(***************************************************************************)

AddRule(dir, raw, force) ==
    IF Compiles(raw) /\ (force \/ raw.id \notin DOMAIN dir)
    THEN [id \in DOMAIN dir \cup {raw.id} |-> IF id = raw.id THEN raw ELSE dir[id]]
    ELSE dir

DeleteRule(dir, id) == [other \in DOMAIN dir \ {id} |-> dir[other]]

\* A file that was edited in place and no longer compiles is passed over.
ListRules(dir) == { id \in DOMAIN dir : Compiles(dir[id]) }

\* rule test: no bus, and a payload that is JSON; without a subject the
\* first trigger is taken.
TestRule(raw, subject, payload) ==
    LET on == IF subject = Absent THEN Head(raw.triggers) ELSE subject
    IN  CASE ~Compiles(raw) -> "refused"
          [] ~TriggersOn(raw, on) -> "no match"
          [] OTHER -> EvalBool(raw.when, payload)

=============================================================================
