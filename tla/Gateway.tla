------------------------------ MODULE Gateway ------------------------------
(***************************************************************************)
(* Requests at the gateway: the bearer middleware and the key cache of     *)
(* crates/iot-gateway/src/auth.rs, the handlers behind it and the          *)
(* handshake of /stream, with OIDC configured.                             *)
(*                                                                         *)
(* The issuer publishes its signing keys as a document that it replaces    *)
(* now and then.  The gateway caches the document; every request looks its *)
(* key up and, unless it finds it fresh, fetches the document and looks    *)
(* again.  No lock is held over a fetch: requests fetch side by side, and  *)
(* each stores the answer it got, whatever was stored meanwhile.           *)
(***************************************************************************)
EXTENDS Naturals, Sequences, FiniteSets, FiniteSetsExt

CONSTANTS
    Requests,
    Streams,        \* those that are WebSocket handshakes of a browser
    Kids,           \* key ids
    Docs,           \* the documents the issuer publishes, one after the other
    Codes,          \* the gRPC codes the registry answers with
    JwksTtl,        \* jwks_cache_secs
    FetchTimeout,   \* of the HTTP client
    MaxNow          \* bound: seconds

\* A key of another type or algorithm has its id in the document, too.
ASSUME GatewayAssumption ==
    /\ Streams \subseteq Requests
    /\ Docs \in Seq(SUBSET [kid : Kids, rs256 : BOOLEAN]) /\ Docs # <<>>
    /\ JwksTtl \in Nat /\ FetchTimeout \in Nat /\ MaxNow \in Nat

VARIABLES
    now,
    turned,     \* the times at which the issuer published its documents
    jwks,       \* the cache: number of the document (0: none yet), fetched_at
    req         \* per request, where it stands

gatewayVars == <<now, turned, jwks, req>>

Published == Len(turned)

Idle == [phase |-> "idle"]
Answered(status) == [phase |-> "done", status |-> status]

\* grpc_to_api.
HttpStatus(code) ==
    CASE code = "Ok" -> 200
      [] code = "NotFound" -> 404
      [] code = "InvalidArgument" -> 400
      [] code = "PermissionDenied" -> 403
      [] code = "Unauthenticated" -> 401
      [] code = "FailedPrecondition" -> 409
      [] OTHER -> 502

\* One call of the registry; 500 when its answer holds no device.
RegistryStatuses == { HttpStatus(c) : c \in Codes } \cup {500}

\* No history configured, a malformed bound, a failed query.
HistoryStatuses == {503, 400, 502, 200}

\* What axum refuses behind the middleware, before the handler: the method,
\* a path, query or body that does not parse, one too long, of another type
\* or that is no device.
RefusedStatuses == {405, 400, 413, 415, 422}

RestStatuses == RegistryStatuses \cup HistoryStatuses \cup RefusedStatuses

\* AuthError::status for the middleware; stream_handler knows only one.
AuthStatus(r, err) == IF err = "Jwks" /\ r \notin Streams THEN 502 ELSE 401

Statuses == RestStatuses \cup {101, 401, 502}

Fetch == [phase : {"lookup", "asked", "carried", "stored"}, kid : Kids,
          asked : 0 .. MaxNow, doc : 0 .. Len(Docs)]

GatewayTypeOK ==
    /\ now \in 0 .. MaxNow
    /\ turned \in Seq(0 .. now) /\ Published \in 1 .. Len(Docs)
    /\ jwks \in [doc : 0 .. Published, fetched_at : 0 .. now]
    /\ \A r \in Requests :
          \/ req[r] = Idle
          \/ req[r] \in [phase : {"done"}, status : Statuses]
          \/ /\ req[r] \in Fetch
             /\ req[r].phase \in {"asked", "carried"} => now <= req[r].asked + FetchTimeout

GatewayInit ==
    /\ now = 0
    /\ turned = <<0>>
    /\ jwks = [doc |-> 0, fetched_at |-> 0]
    /\ req = [r \in Requests |-> Idle]

-----------------------------------------------------------------------------
(***************************************************************************)
(* The issuer and the clock.                                               *)
(***************************************************************************)

Turn ==
    /\ Published < Len(Docs)
    /\ turned' = Append(turned, now)
    /\ UNCHANGED <<now, jwks, req>>

\* The HTTP client gives up after its timeout.  The clock counts seconds: a
\* request that waits for nothing is through before the next one.
Tick ==
    /\ now < MaxNow
    /\ \A r \in Requests :
          /\ req[r].phase \notin {"lookup", "stored"}
          /\ req[r].phase \in {"asked", "carried"} => now < req[r].asked + FetchTimeout
    /\ now' = now + 1
    /\ UNCHANGED <<turned, jwks, req>>

-----------------------------------------------------------------------------
(***************************************************************************)
(* Verifier::verify.                                                       *)
(***************************************************************************)

Free(r) == req[r].phase \in {"idle", "done"}

\* A token that names a key.
Arrive(r, k) ==
    /\ Free(r)
    /\ req' = [req EXCEPT ![r] = [phase |-> "lookup", kid |-> k, asked |-> 0, doc |-> 0]]
    /\ UNCHANGED <<now, turned, jwks>>

\* No token, a malformed one, or one without a key id.
Turnaway(r) ==
    /\ Free(r)
    /\ req' = [req EXCEPT ![r] = Answered(401)]
    /\ UNCHANGED <<now, turned, jwks>>

Usable(d) == IF d = 0 THEN {} ELSE { j.kid : j \in { j \in Docs[d] : j.rs256 } }
Cached(k) == k \in Usable(jwks.doc)
Fresh == jwks.doc # 0 /\ now < jwks.fetched_at + JwksTtl

\* The key decides on the signature, the claims on the rest.  What comes
\* after it is the handler or the upgrade.
Decode(r) ==
    \E status \in {401} \cup (IF r \in Streams THEN {101} ELSE RestStatuses) :
        req' = [req EXCEPT ![r] = Answered(status)]

\* Mutation of LookupHit: a key is good for as long as it is cached.
LookupHitAnyAge(r) ==
    /\ req[r].phase = "lookup"
    /\ Cached(req[r].kid)
    /\ Decode(r)
    /\ UNCHANGED <<now, turned, jwks>>

LookupHit(r) ==
    /\ req[r].phase = "lookup"
    /\ Cached(req[r].kid) /\ Fresh
    /\ Decode(r)
    /\ UNCHANGED <<now, turned, jwks>>

Refresh(r) ==
    /\ req[r].phase = "lookup"
    /\ ~(Cached(req[r].kid) /\ Fresh)
    /\ req' = [req EXCEPT ![r].phase = "asked", ![r].asked = now]
    /\ UNCHANGED <<now, turned, jwks>>

\* The issuer sends the document of the moment.
IssuerAnswers(r) ==
    /\ req[r].phase = "asked"
    /\ req' = [req EXCEPT ![r].phase = "carried", ![r].doc = Published]
    /\ UNCHANGED <<now, turned, jwks>>

\* No connection, an error status, not the JSON expected, or the timeout.
FetchFails(r) ==
    /\ req[r].phase \in {"asked", "carried"}
    /\ req' = [req EXCEPT ![r] = Answered(AuthStatus(r, "Jwks"))]
    /\ UNCHANGED <<now, turned, jwks>>

\* The answer replaces the cache, also a newer one.
Store(r) ==
    /\ req[r].phase = "carried"
    /\ jwks' = [doc |-> req[r].doc, fetched_at |-> now]
    /\ req' = [req EXCEPT ![r].phase = "stored", ![r].asked = 0, ![r].doc = 0]
    /\ UNCHANGED <<now, turned>>

\* The second look at the cache does not ask for its age.
LookAgain(r) ==
    /\ req[r].phase = "stored"
    /\ IF Cached(req[r].kid) THEN Decode(r)
       ELSE req' = [req EXCEPT ![r] = Answered(AuthStatus(r, "UnknownKid"))]
    /\ UNCHANGED <<now, turned, jwks>>

Handle(r) ==
    \/ LookupHit(r) \/ Refresh(r) \/ IssuerAnswers(r) \/ FetchFails(r)
    \/ Store(r) \/ LookAgain(r)

-----------------------------------------------------------------------------
(***************************************************************************)
(* Properties.                                                             *)
(***************************************************************************)

\* The time at which a key was last in the published document.
Withdrawn(k) ==
    LET in == { d \in 1 .. Published : k \in Usable(d) }
    IN  IF in = {} THEN 0
        ELSE IF Published \in in THEN now
        ELSE turned[Max(in) + 1]

Verifies(r) ==
    /\ req[r].phase \in {"lookup", "stored"}
    /\ req'[r].phase = "done"
    /\ req'[r].status \notin {401}

(***************************************************************************)
(* A key that the issuer withdrew is trusted for one lifetime of the cache *)
(* and one fetch at most.  Answers overtake each other, and an old one     *)
(* counts as fresh from the time it is stored (refresh, "cache.fetched_at  *)
(* = Some(Instant::now())"): the bound is by the timeout of the fetch, and *)
(* not by the lifetime alone.                                              *)
(***************************************************************************)
TrustEnds ==
    [][\A r \in Requests :
          Verifies(r) => now <= Withdrawn(req[r].kid) + JwksTtl + FetchTimeout]_gatewayVars

=============================================================================
