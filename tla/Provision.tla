----------------------------- MODULE Provision -----------------------------
(***************************************************************************)
(* Provisioning one plugin: `iotctl plugin install' and `uninstall'        *)
(* (iot-cli/src/plugin.rs), `iotctl nats bootstrap' and `mint-user'        *)
(* (iot-cli/src/nats.rs, minting by iot-bus/src/jwt.rs), and the host that *)
(* loads from the same directory (`supervise' and `load_plugin_dir').      *)
(*                                                                         *)
(* A command writes file by file, takes no lock and undoes nothing: it may *)
(* be killed, or fail, between any two steps.  One operator runs one       *)
(* command at a time; the host runs all along.  A file's content is the    *)
(* number of the run that wrote it, so two files belong together when they *)
(* carry the same number.  Left out: the files nothing reads after they    *)
(* are written, or only `plugin list' does (signature, certificate and     *)
(* SBOM of an installed bundle, the two .pub files).                       *)
(***************************************************************************)
EXTENDS Integers, Sequences

CONSTANTS
    Sboms,          \* the SBOMs bundles come with, each a set of findings
    NoSbom,         \* a bundle without sbom.cdx.json
    MaxInstalls,    \* bound on install runs
    MaxBootstraps   \* bound on bootstrap runs

ASSUME ProvisionAssumption ==
    /\ NoSbom \notin Sboms
    /\ MaxInstalls \in Nat
    /\ MaxBootstraps \in Nat

Manifest == "manifest.yaml"
Wasm == "plugin.wasm"
Nkey == "nats.nkey"
Acl == "acl.json"
Creds == "nats.creds"
PluginFiles == {Manifest, Wasm, Nkey, Acl, Creds}

AccountSeed == "iot-account.nk"
Resolver == "resolver.conf"
RootFiles == {"operator.nk", AccountSeed, "iot-account.jwt", Resolver}

Absent == 0
Torn == -1          \* truncated by a write that was not finished
Content == {Torn, Absent} \cup Nat

VARIABLES
    dir,        \* <plugin_dir>/<id>: what each file holds
    exists,     \* whether that directory exists
    marker,     \* whether it holds .dead-lettered
    creds,      \* the claims in nats.creds: issuing account, nkey, acl
    root,       \* the trust root: what each file holds
    op,         \* the phase of the command that runs, "idle" between two
    plan,       \* the files it still has to write, in order
    installs, bootstraps,  \* runs started so far: they number contents
    forced,     \* the last bootstrap run with --force
    pc,         \* where the supervise loop of the directory stands
    manifest,   \* the manifest the loop read last
    wasm,       \* the component it read with it
    readAt      \* history: installs that had written by the time it read that

disk == <<dir, exists, marker, creds>>
command == <<op, plan>>
runs == <<installs, bootstraps, forced>>
host == <<pc, manifest, wasm, readAt>>
vars == <<disk, root, command, runs, host>>

Phases == {"idle", "clear", "make", "write", "uninstall", "bootstrap", "mint"}
Points == {"starting", "manifest", "wasm", "running", "ended"}

TypeOK ==
    /\ dir \in [PluginFiles -> Content]
    /\ root \in [RootFiles -> Content]
    /\ exists \in BOOLEAN /\ marker \in BOOLEAN
    /\ creds \in [iss : Nat, sub : Nat, allow : Nat]
    /\ op \in Phases
    /\ plan \in Seq(PluginFiles \cup RootFiles)
    /\ op \in {"write", "mint"} => exists
    /\ ~exists => ~marker /\ \A f \in PluginFiles : dir[f] = Absent
    /\ installs \in Nat /\ bootstraps \in Nat /\ forced \in Nat
    /\ pc \in Points
    /\ manifest \in Nat /\ wasm \in Nat /\ readAt \in Nat

Init ==
    /\ dir = [f \in PluginFiles |-> Absent]
    /\ exists = FALSE
    /\ marker = FALSE
    /\ creds = [iss |-> 0, sub |-> 0, allow |-> 0]
    /\ root = [f \in RootFiles |-> Absent]
    /\ op = "idle"
    /\ plan = <<>>
    /\ installs = 0 /\ bootstraps = 0 /\ forced = 0
    /\ pc = "ended"
    /\ manifest = 0 /\ wasm = 0 /\ readAt = 0

-----------------------------------------------------------------------------
(***************************************************************************)
(* The gates of an install.                                                *)
(***************************************************************************)

\* Severity, in the order the enum derives.
SeverityOrder == <<"none", "info", "low", "medium", "high", "critical", "unknown">>

Rank(severity) == CHOOSE i \in DOMAIN SeverityOrder : SeverityOrder[i] = severity

\* scan_sbom: a finding is its set of ratings and counts as the worst of
\* them; one without a rating is unknown.
Severity(finding) ==
    IF finding = {} THEN "unknown"
    ELSE CHOOSE s \in finding : \A t \in finding : Rank(t) <= Rank(s)

\* enforce_sbom_policy.
SbomAccepted(sbom, allowVulnerabilities) ==
    sbom # NoSbom /\ ~allowVulnerabilities
        => \A finding \in sbom : Rank(Severity(finding)) < Rank("high")

\* enforce_signature_policy: a signature file has to verify against the
\* trusted key; without one --allow-unsigned is needed.
SignatureAccepted(signature, trustPub, allowUnsigned) ==
    \/ signature = "valid" /\ trustPub
    \/ signature = "absent" /\ allowUnsigned

\* The writes of an install, in order: the bundle, the identity, and the
\* credentials when an account seed is configured.
InstallPlan(seeded) ==
    <<Manifest, Wasm, Nkey, Acl>> \o IF seeded THEN <<Creds>> ELSE <<>>

-----------------------------------------------------------------------------
(***************************************************************************)
(* The operator's commands.                                                *)
(***************************************************************************)

Begins(phase, files) ==
    /\ op = "idle"
    /\ op' = phase
    /\ plan' = files

\* Mutation of Install: --force writes over what is there.
InstallOver(signature, sbom, flags) ==
    /\ installs < MaxInstalls
    /\ SignatureAccepted(signature, flags.trustPub, flags.allowUnsigned)
    /\ SbomAccepted(sbom, flags.allowVulnerabilities)
    /\ exists => flags.force
    /\ Begins("make", InstallPlan(flags.seeded))
    /\ installs' = installs + 1
    /\ UNCHANGED <<disk, root, bootstraps, forced, host>>

\* install, up to the collision check.
Install(signature, sbom, flags) ==
    /\ installs < MaxInstalls
    /\ SignatureAccepted(signature, flags.trustPub, flags.allowUnsigned)
    /\ SbomAccepted(sbom, flags.allowVulnerabilities)
    /\ exists => flags.force
    /\ Begins(IF exists THEN "clear" ELSE "make", InstallPlan(flags.seeded))
    /\ installs' = installs + 1
    /\ UNCHANGED <<disk, root, bootstraps, forced, host>>

\* uninstall refuses a directory that has no manifest.
Uninstall ==
    /\ exists /\ dir[Manifest] # Absent
    /\ Begins("uninstall", <<>>)
    /\ UNCHANGED <<disk, root, runs, host>>

\* remove_dir_all: entry by entry, in no particular order, then the directory.
ClearFile ==
    /\ op \in {"clear", "uninstall"}
    /\ \/ \E f \in PluginFiles :
            /\ dir[f] # Absent
            /\ dir' = [dir EXCEPT ![f] = Absent]
            /\ UNCHANGED marker
       \/ /\ marker
          /\ marker' = FALSE
          /\ UNCHANGED dir
    /\ UNCHANGED <<exists, creds, root, command, runs, host>>

RemoveDir ==
    /\ op \in {"clear", "uninstall"}
    /\ exists /\ ~marker /\ \A f \in PluginFiles : dir[f] = Absent
    /\ exists' = FALSE
    /\ op' = IF op = "clear" THEN "make" ELSE "idle"
    /\ UNCHANGED <<dir, marker, creds, root, plan, runs, host>>

\* create_dir_all.
MakeDir ==
    /\ op = "make"
    /\ exists' = TRUE
    /\ op' = "write"
    /\ UNCHANGED <<dir, marker, creds, root, plan, runs, host>>

\* mint_creds_post_install and cmd_mint_user read the account seed, the nkey
\* and the acl before they write.
CanMint == root[AccountSeed] > 0 /\ dir[Nkey] > 0 /\ dir[Acl] > 0

\* cmd_mint_user, into the directory of the user seed.
MintUser ==
    /\ exists
    /\ Begins("mint", <<Creds>>)
    /\ UNCHANGED <<disk, root, runs, host>>

\* One fs::copy or fs::write.  The claims in the credentials are those of
\* issue_user_jwt: signed by the account, for the nkey in the directory, with
\* the permissions of the acl snapshot.
WritePluginFile ==
    /\ op \in {"write", "mint"} /\ plan # <<>>
    /\ \/ /\ Head(plan) = Creds
          /\ CanMint
          /\ dir' = [dir EXCEPT ![Creds] = dir[Nkey]]
          /\ creds' = [iss |-> root[AccountSeed], sub |-> dir[Nkey], allow |-> dir[Acl]]
       \/ /\ Head(plan) # Creds
          /\ dir' = [dir EXCEPT ![Head(plan)] = installs]
          /\ UNCHANGED creds
    /\ plan' = Tail(plan)
    /\ UNCHANGED <<exists, marker, root, op, runs, host>>

Finish ==
    /\ op \in {"write", "mint", "bootstrap"} /\ plan = <<>>
    /\ op' = "idle"
    /\ UNCHANGED <<disk, root, plan, runs, host>>

RootPlan == <<"operator.nk", AccountSeed, "iot-account.jwt", Resolver>>

\* Mutation of Precious: a finished run is what is looked for.
PreciousJwt == {"iot-account.jwt"}

\* The files whose presence stops a bootstrap without --force.
Precious == {"operator.nk", AccountSeed, "iot-account.jwt"}

Bootstrap(force) ==
    /\ bootstraps < MaxBootstraps
    /\ force \/ \A f \in Precious : root[f] = Absent
    /\ Begins("bootstrap", RootPlan)
    /\ bootstraps' = bootstraps + 1
    /\ forced' = IF force THEN bootstraps + 1 ELSE forced
    /\ UNCHANGED <<disk, root, installs, host>>

WriteRootFile ==
    /\ op = "bootstrap" /\ plan # <<>>
    /\ root' = [root EXCEPT ![Head(plan)] = bootstraps]
    /\ plan' = Tail(plan)
    /\ UNCHANGED <<disk, op, runs, host>>

\* A step fails (disk, permissions, an unreadable seed) or the command is
\* killed: what is on disk stays as it is, the file it was writing truncated
\* perhaps.  (While a write is under way the same truncated file makes a load
\* fail, and Crash is always possible.)
Abort ==
    /\ op # "idle"
    /\ op' = "idle"
    /\ plan' = <<>>
    /\ \/ UNCHANGED <<dir, root>>
       \/ /\ op \in {"write", "mint"} /\ plan # <<>>
          /\ Head(plan) = Creds => CanMint
          /\ dir' = [dir EXCEPT ![Head(plan)] = Torn]
          /\ UNCHANGED root
       \/ /\ op = "bootstrap" /\ plan # <<>>
          /\ root' = [root EXCEPT ![Head(plan)] = Torn]
          /\ UNCHANGED dir
    /\ UNCHANGED <<exists, marker, creds, runs, host>>

ClearDeadLettered ==
    /\ marker
    /\ marker' = FALSE
    /\ UNCHANGED <<dir, exists, creds, root, command, runs, host>>

-----------------------------------------------------------------------------
(***************************************************************************)
(* The host.  Supervisor models when a crash ends supervision; here it may *)
(* at any crash.                                                           *)
(***************************************************************************)

\* The process starts, again: the sweep takes directories with a manifest.
HostStarts ==
    /\ pc' = IF dir[Manifest] # Absent THEN "starting" ELSE "ended"
    /\ manifest' = 0 /\ wasm' = 0 /\ readAt' = 0
    /\ UNCHANGED <<disk, root, command, runs>>

\* supervise is entered.
Enter ==
    /\ pc = "starting"
    /\ pc' = IF marker THEN "ended" ELSE "manifest"
    /\ UNCHANGED <<disk, root, command, runs, manifest, wasm, readAt>>

\* Mutation of OnCrash: the marker is written without the directory.
OnCrashAnyway ==
    /\ wasm' = 0 /\ readAt' = 0
    /\ \/ /\ pc' = "manifest"
          /\ UNCHANGED <<manifest, marker>>
       \/ /\ pc' = "ended"
          /\ manifest' = 0
          /\ marker' = TRUE

\* on_crash: another round after the back-off, or the marker.  Without the
\* directory the marker cannot be written and supervision ends with an error.
OnCrash ==
    /\ wasm' = 0 /\ readAt' = 0
    /\ \/ /\ pc' = "manifest"
          /\ UNCHANGED <<manifest, marker>>
       \/ /\ pc' = "ended"
          /\ manifest' = 0
          /\ marker' = exists

\* Mutation of ReadManifest: a manifest once read is kept over a restart.
ReadManifestOnce ==
    /\ pc = "manifest" /\ dir[Manifest] > 0
    /\ manifest' = IF manifest > 0 THEN manifest ELSE dir[Manifest]
    /\ readAt' = IF op = "clear" THEN installs - 1 ELSE installs
    /\ pc' = "wasm"
    /\ UNCHANGED <<disk, root, command, runs, wasm>>

\* load_plugin_dir parses the manifest ...
ReadManifest ==
    /\ pc = "manifest" /\ dir[Manifest] > 0
    /\ manifest' = dir[Manifest]
    /\ readAt' = IF op = "clear" THEN installs - 1 ELSE installs
    /\ pc' = "wasm"
    /\ UNCHANGED <<disk, root, command, runs, wasm>>

\* ... then reads the entrypoint it names and instantiates that.
ReadWasm ==
    /\ pc = "wasm" /\ dir[Wasm] > 0
    /\ wasm' = dir[Wasm]
    /\ pc' = "running"
    /\ UNCHANGED <<disk, root, command, runs, manifest, readAt>>

\* A manifest that is missing or half-written (a whole one was parsed by the
\* install), a component that cannot be read or instantiated, a plugin that
\* crashes.
Crash ==
    /\ pc \in {"manifest", "wasm", "running"}
    /\ pc = "manifest" => dir[Manifest] <= 0
    /\ OnCrash
    /\ UNCHANGED <<dir, exists, creds, root, command, runs>>

CleanExit ==
    /\ pc = "running"
    /\ pc' = "ended"
    /\ manifest' = 0 /\ wasm' = 0 /\ readAt' = 0
    /\ UNCHANGED <<disk, root, command, runs>>

-----------------------------------------------------------------------------
Flags == [trustPub : BOOLEAN, allowUnsigned : BOOLEAN,
          allowVulnerabilities : BOOLEAN, force : BOOLEAN, seeded : BOOLEAN]

Operator ==
    \/ \E signature \in {"absent", "valid", "invalid"}, sbom \in Sboms \cup {NoSbom}, flags \in Flags :
            Install(signature, sbom, flags)
    \/ Uninstall
    \/ ClearFile \/ RemoveDir \/ MakeDir
    \/ MintUser
    \/ WritePluginFile
    \/ \E force \in BOOLEAN : Bootstrap(force)
    \/ WriteRootFile
    \/ Finish
    \/ Abort
    \/ ClearDeadLettered

Host ==
    \/ HostStarts
    \/ Enter
    \/ ReadManifest
    \/ ReadWasm
    \/ Crash
    \/ CleanExit

Next == Operator \/ Host

Spec == Init /\ [][Next]_vars

-----------------------------------------------------------------------------
(***************************************************************************)
(* Properties.                                                             *)
(***************************************************************************)

(***************************************************************************)
(* At every moment, half-way through a command and after one that was      *)
(* killed included, all that the directory holds comes from one install:   *)
(* never an old component beside a new manifest, nor an acl or credentials *)
(* beside an nkey they were not made for (install: remove_dir_all before   *)
(* the first copy).                                                        *)
(***************************************************************************)
OneInstallPerDirectory ==
    /\ \A f, g \in PluginFiles : dir[f] > 0 /\ dir[g] > 0 => dir[f] = dir[g]
    /\ dir[Creds] > 0 => creds.sub = dir[Creds] /\ creds.allow = dir[Creds]

(***************************************************************************)
(* A plugin runs a component under the manifest of another install only if *)
(* that install wrote its first file after the manifest had been read: the *)
(* loader takes no lock, so an install may overtake a load, but no install *)
(* that was finished, or killed, before the load leads to such a pair      *)
(* (load_plugin_dir reads the manifest, then the component).               *)
(***************************************************************************)
PairSpansOneInstall ==
    pc = "running" => manifest = wasm \/ readAt < wasm

(***************************************************************************)
(* Credentials name the account the broker preloads, unless somebody       *)
(* replaced the trust root on purpose: a bootstrap without --force never   *)
(* invalidates credentials, not even one that follows a bootstrap killed   *)
(* half-way (cmd_bootstrap: "so operators don't accidentally destroy trust *)
(* roots").                                                                *)
(***************************************************************************)
CredsFitResolver ==
    dir[Creds] > 0 /\ root[Resolver] > 0 /\ creds.iss # root[Resolver]
        => forced >= creds.iss /\ forced >= root[Resolver]

=============================================================================
