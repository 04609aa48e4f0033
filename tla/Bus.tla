-------------------------------- MODULE Bus --------------------------------
(***************************************************************************)
(* What a process brings to the bus and puts on a message: the connection  *)
(* and the headers of crates/iot-bus/src/lib.rs, the trace context of      *)
(* iot-observability/src/traceparent.rs that travels in one of them, and   *)
(* the host call of a plugin that publishes (iot-plugin-host/src/          *)
(* component.rs).                                                          *)
(*                                                                         *)
(* A header's value is a sequence of segments, as hyphens divide it.  What *)
(* the operating system draws at random is a parameter, called fresh.      *)
(***************************************************************************)
EXTENDS Capabilities, SequencesExt

NoHeader == << >>
NoContext == [trace |-> 0]

-----------------------------------------------------------------------------
(***************************************************************************)
(* The trace context.                                                      *)
(***************************************************************************)

\* An identifier of zeros is no identifier.
NonZero(n) == IF n = 0 THEN 1 ELSE n

NewRoot(fresh) == [trace |-> NonZero(fresh.trace), span |-> NonZero(fresh.span), flags |-> 1]

ChildOf(tc, fresh) == [tc EXCEPT !.span = NonZero(fresh.span)]

Hex(bytes, n) == [digits |-> 2 * bytes, case |-> "lower", value |-> n]

ToHeader(tc) == <<Hex(1, 0), Hex(16, tc.trace), Hex(8, tc.span), Hex(1, tc.flags)>>

\* hex_decode_fixed: so many digits, none of them a capital.
Decodes(segment, bytes) == segment.digits = 2 * bytes /\ segment.case = "lower"

\* TraceContext::parse: of the versions there are it speaks 00.
Parse(header) ==
    IF /\ Len(header) = 4
       /\ header[1] = Hex(1, 0)
       /\ Decodes(header[2], 16) /\ header[2].value # 0
       /\ Decodes(header[3], 8) /\ header[3].value # 0
       /\ Decodes(header[4], 1)
    THEN [trace |-> header[2].value, span |-> header[3].value, flags |-> header[4].value]
    ELSE NoContext

\* The context a message or request is handled in, at the gateway, in the
\* registry, its watcher and the engine alike: a child of what came with it.
Scope(header, fresh) ==
    IF Parse(header) # NoContext THEN ChildOf(Parse(header), fresh)
    ELSE NewRoot(fresh)

\* The gateway's client stamps its requests to the registry.
InjectTraceparent(current) == IF current = NoContext THEN NoHeader ELSE ToHeader(current)

-----------------------------------------------------------------------------
(***************************************************************************)
(* Bus.                                                                    *)
(***************************************************************************)

\* Config::from_env: a variable that is not set is absent from env.
FromEnv(env, publisher) ==
    LET get(name, default) == IF name \in DOMAIN env THEN env[name] ELSE default
        root == get("IOT_DEV_CERTS_ROOT", "./tools/devcerts/generated")
        component == get("IOT_BUS_COMPONENT", "client")
    IN  [url |-> get("IOT_NATS_URL", "tls://127.0.0.1:4222"),
         ca |-> <<root, "ca", "ca.crt">>,
         cert |-> <<root, component, component, "crt">>,
         key |-> <<root, component, component, "key">>,
         creds |-> get("IOT_NATS_CREDS", ""),
         publisher |-> publisher]

\* Bus::connect: an empty path is still a path, and cannot be read.  Whom
\* the server accepts is its own affair.
Connect(cfg, creds_set, readable, accepted) ==
    LET hello == [tls |-> TRUE, cert |-> cfg.cert, name |-> cfg.publisher,
                  jwt |-> creds_set]
    IN  IF creds_set /\ cfg.creds \notin readable THEN "creds"
        ELSE IF hello \in accepted THEN "connected" ELSE "connect"

\* The headers of publish_proto: those of the caller stay, except the four
\* that are the bus's own, and a traceparent of the caller goes before the
\* one of the task.
PublishProto(publisher, iot_type, extra, current) ==
    LET own == [iot_publisher |-> publisher, iot_schema_version |-> "1",
                iot_type |-> iot_type, content_type |-> "protobuf"]
        traced == IF current = NoContext THEN << >> ELSE [traceparent |-> ToHeader(current)]
    IN  own @@ extra @@ traced

\* extract_trace_context.
ExtractHeader(headers) ==
    IF "traceparent" \in DOMAIN headers THEN headers["traceparent"] ELSE NoHeader

-----------------------------------------------------------------------------
(***************************************************************************)
(* bus.publish of a plugin.  The bus may be absent, which is a dry run, or *)
(* fail, and so may the audit log.                                         *)
(***************************************************************************)

RecordDenied(audit, id, subject) ==
    IF audit = "ok" THEN {[kind |-> "plugin.denied", plugin_id |-> id, subject |-> subject]}
    ELSE {}

HostPublish(plugin, subject, audit, bus) ==
    IF ~CheckBusPublish(plugin.caps, subject)
    THEN [result |-> "capability.denied", out |-> FALSE,
          audited |-> RecordDenied(audit, plugin.id, subject)]
    ELSE [result |-> IF bus = "fails" THEN "bus.publish_failed" ELSE "ok",
          out |-> bus = "ok", audited |-> {}]

=============================================================================
