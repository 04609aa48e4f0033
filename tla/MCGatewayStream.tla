-------------------------- MODULE MCGatewayStream --------------------------
(***************************************************************************)
(* Three subjects, a cap of two: a wildcard replay is complete in two      *)
(* batches of one, or truncated.  Five messages: three to be retained, two *)
(* to arrive during the replay, one of them to replace what is being read. *)
(*                                                                         *)
(* The operators of Bus, by which those messages are put on the wire, are  *)
(* checked over small sets of identifiers, headers and grants.             *)
(***************************************************************************)
EXTENDS GatewayStream, Bus

Fresh == [trace : {0, 2}, span : {0, 2}]
Contexts == [trace : 1 .. 2, span : 1 .. 2, flags : 0 .. 1]

Segments == [digits : {2, 16, 32}, case : {"lower", "upper"}, value : 0 .. 1]
Headers == {NoHeader} \cup UNION { [1 .. n -> Segments] : n \in 3 .. 4 }

\* A header as it should be, with at most one segment changed.
Received ==
    {NoHeader} \cup
    { [ToHeader(tc) EXCEPT ![i] = segment] : tc \in Contexts, i \in 1 .. 4, segment \in Segments }

\* A header is understood exactly if some context is written like that: no
\* identifier of zeros, no capital and no other length gets through, and
\* what was written is read.
ASSUME HeadersAreContexts ==
    /\ \A tc \in Contexts : Parse(ToHeader(tc)) = tc
    /\ \A header \in Headers :
          Parse(header) # NoContext => ToHeader(Parse(header)) = header

\* Whatever a caller sends, the context of the handler can be sent on; and
\* from the gateway over the registry and the bus to the watcher one trace
\* is kept, with a span for each of them.
ASSUME TraceIsKept ==
    \A header \in Received, f1, f2, f3 \in Fresh :
        LET gateway == Scope(header, f1)
            registry == Scope(InjectTraceparent(gateway), f2)
            message == PublishProto("iot-registry", "Device", << >>, registry)
            watcher == Scope(ExtractHeader(message), f3)
        IN  /\ gateway.trace # 0 /\ gateway.span # 0
            /\ watcher.trace = gateway.trace /\ watcher.flags = gateway.flags
            /\ watcher.span = NonZero(f3.span)
            /\ Parse(header) # NoContext => watcher.trace = header[2].value

\* A caller can bring its own trace, and nothing that says who publishes.
ASSUME PublisherIsTold ==
    \A tc, own \in Contexts :
        LET extra == [iot_publisher |-> "other", traceparent |-> ToHeader(own)]
            message == PublishProto("iot-registry", "Device", extra, tc)
        IN  /\ message["iot_publisher"] = "iot-registry"
            /\ ExtractHeader(message) = ToHeader(own)
            /\ ExtractHeader(PublishProto("p", "Device", << >>, NoContext)) = NoHeader

\* A process presents its component's own certificate, and nobody connects
\* where the credentials it was told to use cannot be read.
ASSUME OwnCertificate ==
    \A component \in {"client", "gateway"}, creds \in {"", "a.creds"} :
        LET env == [IOT_BUS_COMPONENT |-> component, IOT_NATS_CREDS |-> creds]
            cfg == FromEnv(env, "iot-gateway")
            known == [tls |-> TRUE, name |-> "iot-gateway", jwt |-> TRUE,
                      cert |-> <<"./tools/devcerts/generated", component, component, "crt">>]
        IN  /\ Connect(cfg, TRUE, {"a.creds"}, {known}) =
                  IF creds = "" THEN "creds" ELSE "connected"
            /\ FromEnv([IOT_DEV_CERTS_ROOT |-> "/certs"], "p").ca[1] = "/certs"

\* What leaves the host was granted; a plugin is told when it was not, even
\* with the audit log failing, and only in a dry run does it hear "ok" of a
\* message that went nowhere.
ASSUME GrantedOrTold ==
    LET device == <<"device">>
        zigbee == <<"zigbee">>
        subjects == UNION { [1 .. n -> {device, zigbee}] : n \in 1 .. 2 }
        caps == [publish : SUBSET {<<device, Rest>>, <<zigbee>>, <<device, Star>>}]
    IN  \A c \in caps, subject \in subjects, audit \in {"ok", "fails", "none"},
           bus \in {"ok", "fails", "none"} :
            LET call == HostPublish([id |-> "p", caps |-> c], subject, audit, bus)
                granted == \/ <<device, Rest>> \in c.publish
                              /\ Len(subject) = 2 /\ subject[1] = device
                           \/ <<zigbee>> \in c.publish /\ subject = <<zigbee>>
            IN  /\ call.out => granted
                /\ call.result = "capability.denied" <=> ~granted
                /\ call.audited # {} <=> ~granted /\ audit = "ok"
                /\ call.result = "ok" /\ ~call.out => bus = "none"

=============================================================================
