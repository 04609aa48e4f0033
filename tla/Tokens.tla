------------------------------- MODULE Tokens -------------------------------
(***************************************************************************)
(* What stands in the files Provision moves about: the JWTs of             *)
(* crates/iot-bus/src/jwt.rs, the identity and the credentials iotctl      *)
(* makes with them (iot-cli/src/plugin.rs, nats.rs), and what `iotctl      *)
(* plugin list' says of a directory of plugins.                            *)
(*                                                                         *)
(* A JWT is the sequence of what stands between its dots.  A segment that  *)
(* is base64 holds the content it encodes.  A key pair is told by its      *)
(* public key, and a signature says who made it over what.                 *)
(***************************************************************************)
EXTENDS Naturals, Sequences, SequencesExt

Encoded(content) == [base64 |-> TRUE, content |-> content]
Garbage == [base64 |-> FALSE]

Header == [typ |-> "JWT", alg |-> "ed25519-nkey"]

\* A list that is empty is left out of the claims, and is empty when absent.
Permissions(allow) == IF allow = {} THEN [unset |-> TRUE] ELSE [allow |-> allow]
Allowed(permissions) == IF "allow" \in DOMAIN permissions THEN permissions.allow ELSE {}

Signed(issuer, claims) ==
    LET header == Encoded(Header)
        payload == Encoded(claims)
    IN  <<header, payload, Encoded([by |-> issuer, over |-> <<header, payload>>])>>

IssueUserJwt(issuer, subject, name, acl, iat, exp, jti) ==
    Signed(issuer,
           [iss |-> issuer, sub |-> subject, name |-> name, iat |-> iat, exp |-> exp, jti |-> jti,
            type |-> "user",
            pub |-> Permissions(acl.allow_pub), subs |-> Permissions(acl.allow_sub)])

IssueAccountJwt(operator, account, name, limits, iat) ==
    Signed(operator, [iss |-> operator, sub |-> account, name |-> name, iat |-> iat,
                      type |-> "account", limits |-> limits])

\* The fields without which the claims do not parse; what else there is does
\* not matter, and neither does the type.
UserFields == {"iss", "sub", "iat", "exp", "jti", "name", "type", "pub", "subs"}
AccountFields == {"iss", "sub", "iat", "name", "type"}

\* verify_user_jwt and verify_account_jwt, in the order of their errors.
Verify(key, token, fields) ==
    IF Len(token) # 3 THEN "malformed"
    ELSE IF ~token[3].base64 THEN "base64"
    ELSE IF token[3].content # [by |-> key, over |-> <<token[1], token[2]>>] THEN "signature"
    ELSE IF ~token[2].base64 THEN "base64"
    ELSE IF ~(fields \subseteq DOMAIN token[2].content) THEN "json"
    ELSE "ok"

VerifyUserJwt(issuer, token) == Verify(issuer, token, UserFields)
VerifyAccountJwt(operator, token) == Verify(operator, token, AccountFields)

-----------------------------------------------------------------------------
(***************************************************************************)
(* From a manifest to credentials.                                         *)
(***************************************************************************)

\* generate_nats_identity: the key pair is drawn, the ACL is the manifest's.
GenerateNatsIdentity(user, id, bus) ==
    [seed |-> user,
     acl |-> [plugin_id |-> id, user_nkey |-> user,
              allow_pub |-> bus.publish, allow_sub |-> bus.subscribe]]

\* parse_acl: a list that is missing, or is none, grants nothing; of a list
\* the strings count.
ParseAcl(acl, Strings) ==
    LET subjects(key) == IF key \in DOMAIN acl THEN acl[key] \cap Strings ELSE {}
    IN  [allow_pub |-> subjects("allow_pub"), allow_sub |-> subjects("allow_sub")]

\* issue_and_format_creds: u64 saturates, and the last value is no expiry.
IssueAndFormatCreds(account, user, name, acl, now, jti, TTL, MaxU64) ==
    [jwt |-> IssueUserJwt(account, user, name, acl, now,
                          IF now + TTL > MaxU64 THEN MaxU64 ELSE now + TTL, jti),
     seed |-> user]

-----------------------------------------------------------------------------
(***************************************************************************)
(* `plugin list'.  A directory has a manifest, "absent" or "unreadable" or *)
(* a record, and a signature file or none.                                 *)
(***************************************************************************)

\* verify_signature: the key, the signature and the component are read, and
\* belong together.
VerifySignature(dir, trust) ==
    trust.readable /\ dir.sig = [by |-> trust.key, over |-> dir.wasm]

NoSignature == [by |-> "nobody", over |-> "nothing"]
NoTrust == [readable |-> FALSE, key |-> "none"]

\* The key is read a second time for its fingerprint; a label shows sixteen
\* characters of it, which "unknown" does not have.
SignatureStatus(dir, trust, still_readable) ==
    IF dir.sig = NoSignature THEN "unsigned"
    ELSE IF trust = NoTrust THEN "signed (unverified)"
    ELSE IF ~VerifySignature(dir, trust) THEN "verification-failed"
    ELSE IF still_readable THEN "verified" ELSE "panic"

Identity(manifest) ==
    IF manifest.signatures = << >> THEN <<"", "">>
    ELSE LET claim == Head(manifest.signatures)
         IN  IF claim.identity = "" THEN <<"", "">> ELSE <<claim.identity, claim.issuer>>

Row(dir, trust, still_readable) ==
    [id |-> dir.manifest.id,
     health |-> IF dir.dead_lettered THEN "dead-lettered" ELSE "healthy",
     signature |-> SignatureStatus(dir, trust, still_readable),
     identity |-> Identity(dir.manifest)]

\* What read_dir yields comes in no particular order; the rows are sorted by
\* id.  A panic ends the command among the rows.
List(dirs, trust, still_readable) ==
    LET readable(dir) == dir.is_dir /\ dir.manifest \notin {[absent |-> TRUE], [unreadable |-> TRUE]}
        sorted == SortSeq(SelectSeq(dirs, readable), LAMBDA a, b : a.manifest.id < b.manifest.id)
        rows == [i \in DOMAIN sorted |-> Row(sorted[i], trust, still_readable)]
        panics == { i \in DOMAIN rows : rows[i].signature = "panic" }
    IN  IF panics = {} THEN rows
        ELSE SubSeq(rows, 1, (CHOOSE i \in panics : \A j \in panics : i <= j) - 1)

=============================================================================
