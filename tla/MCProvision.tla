---------------------------- MODULE MCProvision ----------------------------
(***************************************************************************)
(* Model values for Provision, and the operators of Tokens checked over    *)
(* two keys, two grants and directories that differ in what matters.       *)
(***************************************************************************)
EXTENDS Provision, Tokens

\* No finding; one below the threshold; a finding with several ratings; a
\* finding without any.
MCSboms == {{}, {{"low"}}, {{"low"}, {"medium", "critical"}}, {{}}}

-----------------------------------------------------------------------------

Keys == {"account", "other"}
Grants == SUBSET {"device.a", "device.b"}
Acls == [allow_pub : Grants, allow_sub : Grants]

UserTokens == { IssueUserJwt(k, "user", "plugin", acl, 0, 1, "nonce") : k \in Keys, acl \in Acls }
AccountTokens == { IssueAccountJwt(k, "account", "IOT", {}, 0) : k \in Keys }

\* A token is good under the key that made it and under no other; and with
\* any segment taken from elsewhere, left out or added it is good under none.
ASSUME TokensHold ==
    LET some == {<<Garbage>>, IssueUserJwt("account", "user", "plugin", [allow_pub |-> {}, allow_sub |-> {}], 0, 1, "other")}
                    \cup AccountTokens
    IN  \A token \in UserTokens, k \in Keys :
            /\ VerifyUserJwt(k, token) =
                  IF token[2].content.iss = k THEN "ok" ELSE "signature"
            /\ \A i \in 1 .. 3, donor \in some :
                  LET mixed == [token EXCEPT ![i] = donor[IF i <= Len(donor) THEN i ELSE 1]]
                  IN  mixed # token => VerifyUserJwt(k, mixed) # "ok"
            /\ VerifyUserJwt(k, Front(token)) = "malformed"
            /\ VerifyUserJwt(k, Append(token, Garbage)) = "malformed"

\* An account's token is no user's, though the key be right.  The other way
\* round it passes: the type is not looked at.
ASSUME TypeNotLookedAt ==
    /\ \A token \in AccountTokens, k \in Keys : VerifyUserJwt(k, token) # "ok"
    /\ \A token \in UserTokens : VerifyAccountJwt(token[2].content.iss, token) = "ok"

\* The credentials of a plugin grant its nkey what the manifest asks for, and
\* do not expire before they are made, however late it is.
ASSUME ManifestIsGranted ==
    \A bus \in [publish : Grants, subscribe : Grants], now \in 0 .. 5 :
        LET identity == GenerateNatsIdentity("user", "plugin", bus)
            acl == ParseAcl(identity.acl, {"device.a", "device.b"})
            made == IssueAndFormatCreds("account", identity.seed, "plugin", acl, now, "nonce", 2, 5)
            claims == made.jwt[2].content
        IN  /\ VerifyUserJwt("account", made.jwt) = "ok"
            /\ claims.sub = made.seed
            /\ Allowed(claims.pub) = bus.publish /\ Allowed(claims.subs) = bus.subscribe
            /\ claims.iat = now /\ claims.exp \in now .. 5 /\ (now < 3 => claims.exp > now + 1)

\* Of an ACL that was edited, what is no string, or is missing, goes.
ASSUME NothingMoreGranted ==
    \A acl \in [plugin_id : {"plugin"}, allow_pub : SUBSET {"device.a", "no string"}] :
        LET parsed == ParseAcl(acl, {"device.a"})
        IN  parsed.allow_pub = acl.allow_pub \ {"no string"} /\ parsed.allow_sub = {}

-----------------------------------------------------------------------------

Trusts == {NoTrust} \cup [readable : BOOLEAN, key : Keys]
Signatures == {NoSignature} \cup [by : Keys, over : {"component"}]

Manifests == {[absent |-> TRUE], [unreadable |-> TRUE]}
                \cup [id : 1 .. 2, signatures : {<< >>, <<[identity |-> "ci", issuer |-> ""]>>}]

Dirs == [is_dir : BOOLEAN, manifest : Manifests, wasm : {"component", "tampered"},
         sig : Signatures, dead_lettered : {FALSE}]

\* What an install lets in, a list with the same key calls by its name: it
\* is verified, or unsigned because the operator said so.
ASSUME InstalledIsListedSo ==
    \A d \in Dirs, trust \in Trusts, unsigned \in BOOLEAN :
        LET signature == IF d.sig = NoSignature THEN "absent"
                         ELSE IF VerifySignature(d, trust) THEN "valid" ELSE "invalid"
        IN  SignatureAccepted(signature, trust # NoTrust, unsigned) =>
                SignatureStatus(d, trust, TRUE) = IF signature = "valid" THEN "verified" ELSE "unsigned"

\* Every plugin with a manifest that can be read is listed once, in the order
\* of the ids, whatever the order of the directory; a row is lost only after
\* the key has gone away in the middle.
ASSUME EachIsListed ==
    LET few == { d \in Dirs : d.wasm = "component" /\ (d.manifest \in Manifests \ [id : 1 .. 2, signatures : {<< >>}])
                                  /\ (d.is_dir \/ d.sig = NoSignature) }
        trust == [readable |-> TRUE, key |-> "account"]
        ids(rows) == [i \in DOMAIN rows |-> rows[i].id]
    IN  \A a, b, c \in few :
            LET dirs == <<a, b, c>>
                rows == List(dirs, trust, TRUE)
                installed == { i \in 1 .. 3 : dirs[i].is_dir /\ "id" \in DOMAIN dirs[i].manifest }
            IN  /\ Len(rows) = Cardinality(installed)
                /\ { rows[i].id : i \in DOMAIN rows } = { dirs[i].manifest.id : i \in installed }
                /\ \A i \in 1 .. Len(rows) - 1 : rows[i].id <= rows[i + 1].id
                /\ ids(List(<<c, b, a>>, trust, TRUE)) = ids(rows)
                /\ IsPrefix(ids(List(dirs, trust, FALSE)), ids(rows))
                /\ ids(List(dirs, trust, FALSE)) # ids(rows)
                     <=> \E i \in DOMAIN rows : rows[i].signature = "verified"

=============================================================================
