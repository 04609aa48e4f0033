-------------------------- MODULE ProvisionProofs --------------------------
(***************************************************************************)
(* The invariants of Provision hold for any number of installs and         *)
(* bootstraps and any SBOMs.                                               *)
(***************************************************************************)
EXTENDS Provision, TLAPS

AllFiles == PluginFiles \cup RootFiles

(***************************************************************************)
(* The strengthening, one conjunct per part of the system.                 *)
(***************************************************************************)

\* What a command may still write, by its phase.
PlanInv ==
    /\ op = "make" => ~exists
    /\ op = "mint" => plan \in {<<>>, <<Creds>>}
    /\ op \in {"clear", "make", "write"} => installs > 0

\* A write phase started from an empty directory.
DirInv ==
    /\ OneInstallPerDirectory
    /\ op = "write" => \A f \in PluginFiles : dir[f] \in {Torn, Absent, installs}

\* Where the trust root's next file stands in RootPlan.
SeedWritten == {<<"iot-account.jwt", Resolver>>, <<Resolver>>, <<>>}
RootInv ==
    /\ op = "bootstrap" =>
          /\ plan \in {RootPlan, <<AccountSeed, "iot-account.jwt", Resolver>>} \cup SeedWritten
          /\ plan \in SeedWritten => root[AccountSeed] # Absent
          /\ bootstraps > 0
    /\ root[AccountSeed] = Absent => root[Resolver] = Absent /\ dir[Creds] <= 0

\* Two runs whose accounts are in use side by side: the later was forced.
Agree(x, y) == x = y \/ (forced >= x /\ forced >= y)
AccountInv ==
    /\ root[AccountSeed] <= bootstraps /\ root[Resolver] <= bootstraps
    /\ dir[Creds] > 0 => creds.iss <= bootstraps
    /\ root[AccountSeed] > 0 /\ root[Resolver] > 0 => Agree(root[AccountSeed], root[Resolver])
    /\ dir[Creds] > 0 /\ root[Resolver] > 0 => Agree(creds.iss, root[Resolver])
    /\ dir[Creds] > 0 /\ root[AccountSeed] > 0 => Agree(creds.iss, root[AccountSeed])
    /\ op = "bootstrap" =>
          /\ root[AccountSeed] > 0 => Agree(bootstraps, root[AccountSeed])
          /\ root[Resolver] > 0 => Agree(bootstraps, root[Resolver])
          /\ dir[Creds] > 0 => Agree(bootstraps, creds.iss)

\* What a load has read, against what it may read next.
LoadInv ==
    /\ pc \in {"wasm", "running"} =>
          /\ readAt <= installs
          /\ op \in {"clear", "make"} => readAt < installs
          /\ op = "write" /\ readAt = installs => manifest = installs
    /\ pc = "wasm" /\ dir[Wasm] > 0 => manifest = dir[Wasm] \/ readAt < dir[Wasm]
    /\ PairSpansOneInstall

IInv == TypeOK /\ PlanInv /\ DirInv /\ RootInv /\ AccountInv /\ LoadInv

-----------------------------------------------------------------------------
LEMMA InstallPlanWrites ==
    ASSUME NEW seeded \in BOOLEAN
    PROVE  InstallPlan(seeded) \in Seq(AllFiles)
<1> DEFINE bundle == <<Manifest, Wasm, Nkey, Acl>>
<1>1. bundle \in Seq(AllFiles)
  BY DEF AllFiles, PluginFiles
<1>2. <<Creds>> \in Seq(AllFiles) /\ <<>> \in Seq(AllFiles)
  BY DEF AllFiles, PluginFiles
<1> HIDE DEF bundle
<1>3. bundle \o (IF seeded THEN <<Creds>> ELSE <<>>) \in Seq(AllFiles)
  BY <1>1, <1>2
<1> QED  BY <1>3 DEF InstallPlan, bundle

LEMMA InitHolds == Init => IInv
<1> SUFFICES ASSUME Init  PROVE IInv
  OBVIOUS
<1> USE DEF Init, Absent
<1>1. TypeOK
  <2>1. dir \in [PluginFiles -> Content] /\ root \in [RootFiles -> Content]
    BY DEF Content
  <2>2. creds \in [iss : Nat, sub : Nat, allow : Nat]
    OBVIOUS
  <2>3. plan \in Seq(PluginFiles \cup RootFiles)
    OBVIOUS
  <2> QED  BY <2>1, <2>2, <2>3 DEF TypeOK, Phases, Points
<1>2. PlanInv /\ DirInv
  BY DEF PlanInv, DirInv, OneInstallPerDirectory, PluginFiles
<1>3. RootInv /\ AccountInv
  BY DEF RootInv, AccountInv, PluginFiles, RootFiles
<1>4. LoadInv
  BY DEF LoadInv, PairSpansOneInstall
<1> QED  BY <1>1, <1>2, <1>3, <1>4 DEF IInv

(***************************************************************************)
(* Types.                                                                  *)
(***************************************************************************)
LEMMA TypeStep == TypeOK /\ PlanInv /\ [Next]_vars => TypeOK'
<1> SUFFICES ASSUME TypeOK, PlanInv, [Next]_vars  PROVE TypeOK'
  OBVIOUS
<1> USE DEF TypeOK, PlanInv, Phases, Points, disk, command, runs, host
<1>0. CASE UNCHANGED vars
  BY <1>0 DEF vars
<1>1. ASSUME NEW signature \in {"absent", "valid", "invalid"}, NEW sbom \in Sboms \cup {NoSbom},
             NEW flags \in Flags, Install(signature, sbom, flags)
      PROVE  TypeOK'
  <2>1. InstallPlan(flags.seeded) \in Seq(AllFiles)
    BY InstallPlanWrites DEF Flags
  <2> QED  BY <1>1, <2>1 DEF Install, Begins, AllFiles
<1>3. CASE Uninstall
  BY <1>3 DEF Uninstall, Begins
<1>4. CASE ClearFile
  BY <1>4 DEF ClearFile, Content, Absent
<1>5. CASE RemoveDir
  BY <1>5 DEF RemoveDir
<1>6. CASE MakeDir
  BY <1>6 DEF MakeDir
<1>7. CASE MintUser
  BY <1>7 DEF MintUser, Begins, PluginFiles
<1>8. CASE WritePluginFile
  <2>1. plan' \in Seq(AllFiles)
    BY <1>8 DEF WritePluginFile, AllFiles
  <2>2. dir' \in [PluginFiles -> Content]
    BY <1>8 DEF WritePluginFile, Content, CanMint, PluginFiles
  <2>3. creds' \in [iss : Nat, sub : Nat, allow : Nat]
    BY <1>8 DEF WritePluginFile, Content, CanMint, PluginFiles, RootFiles, Torn, Absent
  <2> QED  BY <1>8, <2>1, <2>2, <2>3 DEF WritePluginFile, AllFiles
<1>9. CASE Finish
  BY <1>9 DEF Finish
<1>10. ASSUME NEW force \in BOOLEAN, Bootstrap(force)  PROVE TypeOK'
  <2>1. RootPlan \in Seq(AllFiles)
    BY DEF RootPlan, AllFiles, RootFiles
  <2> QED  BY <1>10, <2>1 DEF Bootstrap, Begins, AllFiles
<1>11. CASE WriteRootFile
  <2>1. root' \in [RootFiles -> Content]
    BY <1>11 DEF WriteRootFile, Content
  <2>2. plan' \in Seq(PluginFiles \cup RootFiles)
    BY <1>11 DEF WriteRootFile
  <2> QED  BY <1>11, <2>1, <2>2 DEF WriteRootFile
<1>12. CASE Abort
  <2>1. dir' \in [PluginFiles -> Content] /\ root' \in [RootFiles -> Content]
    BY <1>12 DEF Abort, Content
  <2>2. ~exists' => \A f \in PluginFiles : dir'[f] = Absent
    BY <1>12 DEF Abort
  <2>3. plan' \in Seq(PluginFiles \cup RootFiles)
    BY <1>12 DEF Abort
  <2> QED  BY <1>12, <2>1, <2>2, <2>3 DEF Abort
<1>13. CASE ClearDeadLettered
  BY <1>13 DEF ClearDeadLettered
<1>14. CASE HostStarts
  BY <1>14 DEF HostStarts
<1>15. CASE Enter
  BY <1>15 DEF Enter
<1>16. CASE ReadManifest
  <2>1. dir[Manifest] \in Nat /\ readAt' \in Nat
    BY <1>16 DEF ReadManifest, Content, Torn, Absent, PluginFiles
  <2> QED  BY <1>16, <2>1 DEF ReadManifest
<1>17. CASE ReadWasm
  <2>1. dir[Wasm] \in Nat
    BY <1>17 DEF ReadWasm, Content, Torn, Absent, PluginFiles
  <2> QED  BY <1>17, <2>1 DEF ReadWasm
<1>18. CASE Crash
  BY <1>18 DEF Crash, OnCrash
<1>19. CASE CleanExit
  BY <1>19 DEF CleanExit
<1> QED
  BY <1>0, <1>1, <1>3, <1>4, <1>5, <1>6, <1>7, <1>8, <1>9, <1>10, <1>11, <1>12, <1>13,
     <1>14, <1>15, <1>16, <1>17, <1>18, <1>19 DEF Next, Operator, Host

-----------------------------------------------------------------------------
(***************************************************************************)
(* The directory.                                                          *)
(***************************************************************************)
LEMMA DirStep == TypeOK /\ PlanInv /\ DirInv /\ [Next]_vars => PlanInv' /\ DirInv'
<1> SUFFICES ASSUME TypeOK, PlanInv, DirInv, [Next]_vars  PROVE PlanInv' /\ DirInv'
  OBVIOUS
<1> USE DEF PlanInv, DirInv, OneInstallPerDirectory, disk, command, runs, host
<1>0. CASE UNCHANGED vars
  BY <1>0 DEF vars
<1>1. ASSUME NEW signature \in {"absent", "valid", "invalid"}, NEW sbom \in Sboms \cup {NoSbom},
             NEW flags \in Flags, Install(signature, sbom, flags)
      PROVE  PlanInv' /\ DirInv'
  BY <1>1 DEF Install, Begins, TypeOK
<1>3. CASE Uninstall
  BY <1>3 DEF Uninstall, Begins
<1>4. CASE ClearFile
  <2>1. \A f \in PluginFiles : dir'[f] \in {dir[f], Absent}
    BY <1>4 DEF ClearFile, TypeOK
  <2> QED  BY <1>4, <2>1 DEF ClearFile, Absent, PluginFiles
<1>5. CASE RemoveDir
  BY <1>5 DEF RemoveDir
<1>6. CASE MakeDir
  BY <1>6 DEF MakeDir, TypeOK
<1>7. CASE MintUser
  BY <1>7 DEF MintUser, Begins
<1>8. CASE WritePluginFile
  <2>1. CASE Head(plan) = Creds
    <3>1. \A f \in PluginFiles : dir'[f] = IF f = Creds THEN dir[Nkey] ELSE dir[f]
      BY <1>8, <2>1 DEF WritePluginFile, TypeOK
    <3>2. dir[Nkey] > 0 /\ dir[Acl] = dir[Nkey]
      BY <1>8, <2>1 DEF WritePluginFile, CanMint, PluginFiles
    <3>3. OneInstallPerDirectory'
      BY <1>8, <2>1, <3>1, <3>2 DEF WritePluginFile, PluginFiles, Nkey, Acl, Creds
    <3>4. op = "write" => \A f \in PluginFiles : dir'[f] \in {Torn, Absent, installs}
      BY <3>1 DEF PluginFiles
    <3>5. op = "mint" => plan' = <<>>
      <4>1. Tail(<<Creds>>) = <<>>
        OBVIOUS
      <4> QED  BY <1>8, <4>1 DEF WritePluginFile
    <3> QED  BY <1>8, <3>3, <3>4, <3>5 DEF WritePluginFile
  <2>2. CASE Head(plan) # Creds
    <3>1. op = "write" /\ installs > 0
      BY <1>8, <2>2 DEF WritePluginFile
    <3>2. \A f \in PluginFiles : dir'[f] \in {Torn, Absent, installs}
      BY <1>8, <2>2, <3>1 DEF WritePluginFile, TypeOK
    <3>3. dir'[Creds] = dir[Creds] /\ creds' = creds
      BY <1>8, <2>2 DEF WritePluginFile, TypeOK, PluginFiles
    <3>4. OneInstallPerDirectory'
      BY <3>2, <3>3 DEF Torn, Absent
    <3> QED  BY <1>8, <3>1, <3>2, <3>4 DEF WritePluginFile
  <2> QED  BY <2>1, <2>2
<1>9. CASE Finish
  BY <1>9 DEF Finish
<1>10. ASSUME NEW force \in BOOLEAN, Bootstrap(force)  PROVE PlanInv' /\ DirInv'
  BY <1>10 DEF Bootstrap, Begins
<1>11. CASE WriteRootFile
  BY <1>11 DEF WriteRootFile
<1>12. CASE Abort
  <2>1. \A f \in PluginFiles : dir'[f] \in {dir[f], Torn}
    BY <1>12 DEF Abort, TypeOK
  <2> QED  BY <1>12, <2>1 DEF Abort, Torn, PluginFiles
<1>13. CASE ClearDeadLettered
  BY <1>13 DEF ClearDeadLettered
<1>14. CASE HostStarts
  BY <1>14 DEF HostStarts
<1>15. CASE Enter
  BY <1>15 DEF Enter
<1>16. CASE ReadManifest
  BY <1>16 DEF ReadManifest
<1>17. CASE ReadWasm
  BY <1>17 DEF ReadWasm
<1>18. CASE Crash
  BY <1>18 DEF Crash, OnCrash
<1>19. CASE CleanExit
  BY <1>19 DEF CleanExit
<1> QED
  BY <1>0, <1>1, <1>3, <1>4, <1>5, <1>6, <1>7, <1>8, <1>9, <1>10, <1>11, <1>12, <1>13,
     <1>14, <1>15, <1>16, <1>17, <1>18, <1>19 DEF Next, Operator, Host

-----------------------------------------------------------------------------
(***************************************************************************)
(* The trust root and the credentials.                                     *)
(***************************************************************************)
LEMMA RootPlanSuffixes ==
    /\ RootPlan # <<>> /\ Head(RootPlan) = "operator.nk"
    /\ Tail(RootPlan) = <<AccountSeed, "iot-account.jwt", Resolver>>
    /\ Head(<<AccountSeed, "iot-account.jwt", Resolver>>) = AccountSeed
    /\ Tail(<<AccountSeed, "iot-account.jwt", Resolver>>) = <<"iot-account.jwt", Resolver>>
    /\ Head(<<"iot-account.jwt", Resolver>>) = "iot-account.jwt"
    /\ Tail(<<"iot-account.jwt", Resolver>>) = <<Resolver>>
    /\ Head(<<Resolver>>) = Resolver /\ Tail(<<Resolver>>) = <<>>
    /\ RootPlan \notin SeedWritten
    /\ <<AccountSeed, "iot-account.jwt", Resolver>> \notin SeedWritten
BY DEF RootPlan, AccountSeed, Resolver, SeedWritten

\* The values the two invariants speak of, and what a step may do to them.
LEMMA AccountStep ==
    TypeOK /\ RootInv /\ AccountInv /\ [Next]_vars => RootInv' /\ AccountInv'
<1> SUFFICES ASSUME TypeOK, RootInv, AccountInv, [Next]_vars  PROVE RootInv' /\ AccountInv'
  OBVIOUS
<1> DEFINE seed == root[AccountSeed]
           resolver == root[Resolver]
           present == dir[Creds]
<1>t. /\ seed \in Content /\ resolver \in Content /\ present \in Content
      /\ creds.iss \in Nat /\ bootstraps \in Nat /\ forced \in Nat
  BY DEF TypeOK, RootFiles, PluginFiles
<1> USE DEF RootInv, AccountInv, Agree, disk, command, runs, host
\* Most steps leave the trust root alone and at most remove credentials.
<1>a. ASSUME root' = root, creds' = creds, bootstraps' = bootstraps, forced' = forced,
             dir'[Creds] \in {present, Absent, Torn},
             op' # "bootstrap" \/ (op' = op /\ plan' = plan)
      PROVE  RootInv' /\ AccountInv'
  BY <1>a, <1>t DEF Content, Torn, Absent
<1>0. CASE UNCHANGED vars
  BY <1>0, <1>a DEF vars
<1>1. ASSUME NEW signature \in {"absent", "valid", "invalid"}, NEW sbom \in Sboms \cup {NoSbom},
             NEW flags \in Flags, Install(signature, sbom, flags)
      PROVE  RootInv' /\ AccountInv'
  BY <1>1, <1>a DEF Install, Begins
<1>3. CASE Uninstall
  BY <1>3, <1>a DEF Uninstall, Begins
<1>4. CASE ClearFile
  <2>1. dir'[Creds] \in {present, Absent, Torn}
    BY <1>4 DEF ClearFile, TypeOK, PluginFiles, Absent
  <2> QED  BY <1>4, <1>a, <2>1 DEF ClearFile
<1>5. CASE RemoveDir
  BY <1>5, <1>a DEF RemoveDir
<1>6. CASE MakeDir
  BY <1>6, <1>a DEF MakeDir
<1>7. CASE MintUser
  BY <1>7, <1>a DEF MintUser, Begins
<1>8. CASE WritePluginFile
  <2>1. CASE Head(plan) = Creds
    <3>1. creds'.iss = seed /\ seed > 0
      BY <1>8, <2>1 DEF WritePluginFile, CanMint
    <3>2. root' = root /\ op' = op /\ op # "bootstrap" /\ bootstraps' = bootstraps /\ forced' = forced
      BY <1>8 DEF WritePluginFile
    <3> QED  BY <3>1, <3>2, <1>t DEF Absent
  <2>2. CASE Head(plan) # Creds
    <3>1. dir'[Creds] = present /\ creds' = creds
      BY <1>8, <2>2 DEF WritePluginFile, TypeOK, PluginFiles
    <3> QED  BY <1>8, <1>a, <3>1 DEF WritePluginFile
  <2> QED  BY <2>1, <2>2
<1>9. CASE Finish
  BY <1>9, <1>a DEF Finish
<1>10. ASSUME NEW force \in BOOLEAN, Bootstrap(force)  PROVE RootInv' /\ AccountInv'
  <2>1. /\ root' = root /\ dir' = dir /\ creds' = creds
        /\ op' = "bootstrap" /\ plan' = RootPlan /\ bootstraps' = bootstraps + 1
    BY <1>10 DEF Bootstrap, Begins
  <2>2. RootInv'
    BY <2>1, <1>t, RootPlanSuffixes
  <2>3. CASE force
    <3>1. forced' = bootstraps + 1
      BY <1>10, <2>3 DEF Bootstrap
    <3>2. AccountInv'
      BY <2>1, <3>1, <1>t DEF Content, Torn, Absent
    <3> QED  BY <2>2, <3>2
  <2>4. CASE ~force
    <3>1. seed = Absent /\ forced' = forced
      BY <1>10, <2>4 DEF Bootstrap, Precious
    <3>2. AccountInv'
      BY <2>1, <3>1, <1>t DEF Content, Torn, Absent
    <3> QED  BY <2>2, <3>2
  <2> QED  BY <2>3, <2>4
<1>11. CASE WriteRootFile
  <2>1. /\ op = "bootstrap" /\ op' = op /\ plan # <<>> /\ plan' = Tail(plan)
        /\ dir' = dir /\ creds' = creds /\ bootstraps' = bootstraps /\ forced' = forced
    BY <1>11 DEF WriteRootFile
  <2>2. /\ root'[AccountSeed] = IF Head(plan) = AccountSeed THEN bootstraps ELSE seed
        /\ root'[Resolver] = IF Head(plan) = Resolver THEN bootstraps ELSE resolver
    BY <1>11 DEF WriteRootFile, TypeOK, RootFiles, AccountSeed, Resolver
  <2>3. bootstraps # Absent
    BY <2>1 DEF Absent
  <2>4. RootInv'
    BY <2>1, <2>2, <2>3, RootPlanSuffixes DEF SeedWritten, AccountSeed, Resolver
  <2>5. AccountInv'
    BY <2>1, <2>2, <1>t
  <2> QED  BY <2>4, <2>5
<1>12. CASE Abort
  <2>1. dir'[Creds] \in {present, Absent, Torn}
    BY <1>12 DEF Abort, TypeOK, PluginFiles, Torn
  <2>2. root'[AccountSeed] \in {seed, Torn} /\ root'[Resolver] \in {resolver, Torn}
    BY <1>12 DEF Abort, TypeOK, RootFiles
  <2>3. /\ op' = "idle" /\ creds' = creds /\ bootstraps' = bootstraps /\ forced' = forced
    BY <1>12 DEF Abort
  <2>4. root'[AccountSeed] = Absent => root'[Resolver] = Absent
    BY <1>12, RootPlanSuffixes DEF Abort, SeedWritten, AccountSeed, Resolver, TypeOK, RootFiles, Torn, Absent
  <2> QED  BY <2>1, <2>2, <2>3, <2>4, <1>t DEF Content, Torn, Absent
<1>13. CASE ClearDeadLettered
  BY <1>13, <1>a DEF ClearDeadLettered
<1>14. CASE HostStarts
  BY <1>14, <1>a DEF HostStarts
<1>15. CASE Enter
  BY <1>15, <1>a DEF Enter
<1>16. CASE ReadManifest
  BY <1>16, <1>a DEF ReadManifest
<1>17. CASE ReadWasm
  BY <1>17, <1>a DEF ReadWasm
<1>18. CASE Crash
  BY <1>18, <1>a DEF Crash, OnCrash
<1>19. CASE CleanExit
  BY <1>19, <1>a DEF CleanExit
<1> QED
  BY <1>0, <1>1, <1>3, <1>4, <1>5, <1>6, <1>7, <1>8, <1>9, <1>10, <1>11, <1>12, <1>13,
     <1>14, <1>15, <1>16, <1>17, <1>18, <1>19 DEF Next, Operator, Host

-----------------------------------------------------------------------------
(***************************************************************************)
(* The loader.                                                             *)
(***************************************************************************)
LEMMA LoadStep ==
    TypeOK /\ PlanInv /\ DirInv /\ LoadInv /\ [Next]_vars => LoadInv'
<1> SUFFICES ASSUME TypeOK, PlanInv, DirInv, LoadInv, [Next]_vars  PROVE LoadInv'
  OBVIOUS
<1>t. /\ installs \in Nat /\ readAt \in Nat /\ manifest \in Nat /\ wasm \in Nat
      /\ dir[Wasm] \in Content /\ dir[Manifest] \in Content
  BY DEF TypeOK, PluginFiles
<1> USE DEF LoadInv, PairSpansOneInstall, disk, command, runs, host
\* A command's step that installs nothing and at most removes the component.
<1>a. ASSUME UNCHANGED host, installs' = installs, dir'[Wasm] \in {dir[Wasm], Absent, Torn},
             op' \notin {"clear", "make", "write"} \/ op' = op
      PROVE  LoadInv'
  BY <1>a, <1>t DEF Content, Torn, Absent
<1>0. CASE UNCHANGED vars
  BY <1>0, <1>a DEF vars
<1>1. ASSUME NEW signature \in {"absent", "valid", "invalid"}, NEW sbom \in Sboms \cup {NoSbom},
             NEW flags \in Flags, Install(signature, sbom, flags)
      PROVE  LoadInv'
  BY <1>1, <1>t DEF Install, Begins
<1>3. CASE Uninstall
  BY <1>3, <1>a DEF Uninstall, Begins
<1>4. CASE ClearFile
  <2>1. dir'[Wasm] \in {dir[Wasm], Absent, Torn}
    BY <1>4 DEF ClearFile, TypeOK, PluginFiles
  <2> QED  BY <1>4, <1>a, <2>1 DEF ClearFile
<1>5. CASE RemoveDir
  BY <1>5, <1>t DEF RemoveDir
<1>6. CASE MakeDir
  BY <1>6, <1>t DEF MakeDir
<1>7. CASE MintUser
  BY <1>7, <1>a DEF MintUser, Begins
<1>8. CASE WritePluginFile
  <2>1. CASE Head(plan) = Wasm
    <3>1. op = "write"
      BY <1>8, <2>1 DEF WritePluginFile, PlanInv, Wasm, Creds
    <3>2. dir'[Wasm] = installs
      BY <1>8, <2>1 DEF WritePluginFile, TypeOK, PluginFiles, Wasm, Creds
    <3> QED  BY <1>8, <1>t, <3>1, <3>2 DEF WritePluginFile
  <2>2. CASE Head(plan) # Wasm
    <3>1. dir'[Wasm] = dir[Wasm]
      BY <1>8, <2>2 DEF WritePluginFile, TypeOK, PluginFiles, Wasm, Creds
    <3> QED  BY <1>8, <1>a, <3>1 DEF WritePluginFile
  <2> QED  BY <2>1, <2>2
<1>9. CASE Finish
  BY <1>9, <1>a DEF Finish
<1>10. ASSUME NEW force \in BOOLEAN, Bootstrap(force)  PROVE LoadInv'
  BY <1>10, <1>a DEF Bootstrap, Begins
<1>11. CASE WriteRootFile
  BY <1>11, <1>a DEF WriteRootFile
<1>12. CASE Abort
  <2>1. dir'[Wasm] \in {dir[Wasm], Absent, Torn}
    BY <1>12 DEF Abort, TypeOK, PluginFiles
  <2> QED  BY <1>12, <1>a, <2>1 DEF Abort
<1>13. CASE ClearDeadLettered
  BY <1>13, <1>a DEF ClearDeadLettered
<1>14. CASE HostStarts
  BY <1>14 DEF HostStarts
<1>15. CASE Enter
  BY <1>15 DEF Enter
<1>16. CASE ReadManifest
  <2>1. op # "make"
    BY <1>16 DEF ReadManifest, PlanInv, TypeOK, Absent, PluginFiles
  <2>2. op = "write" => dir[Manifest] = installs
    BY <1>16 DEF ReadManifest, DirInv, Torn, Absent, PluginFiles
  <2>3. op = "clear" => installs > 0
    BY DEF PlanInv
  <2>4. dir[Wasm] > 0 => dir[Manifest] = dir[Wasm]
    BY <1>16 DEF ReadManifest, DirInv, OneInstallPerDirectory, PluginFiles
  <2> QED  BY <1>16, <1>t, <2>1, <2>2, <2>3, <2>4 DEF ReadManifest
<1>17. CASE ReadWasm
  BY <1>17, <1>t DEF ReadWasm
<1>18. CASE Crash
  BY <1>18 DEF Crash, OnCrash
<1>19. CASE CleanExit
  BY <1>19 DEF CleanExit
<1> QED
  BY <1>0, <1>1, <1>3, <1>4, <1>5, <1>6, <1>7, <1>8, <1>9, <1>10, <1>11, <1>12, <1>13,
     <1>14, <1>15, <1>16, <1>17, <1>18, <1>19 DEF Next, Operator, Host

-----------------------------------------------------------------------------
LEMMA SpecInv == Spec => []IInv
<1>1. IInv /\ [Next]_vars => IInv'
  BY TypeStep, DirStep, AccountStep, LoadStep DEF IInv
<1> QED  BY InitHolds, <1>1, PTL DEF Spec

(***************************************************************************)
(* The state of Provision keeps its types: files only in a directory that  *)
(* exists.                                                                 *)
(***************************************************************************)
THEOREM ProvisionTypeCorrect == Spec => []TypeOK
<1>1. IInv => TypeOK
  BY DEF IInv
<1> QED  BY SpecInv, <1>1, PTL

(***************************************************************************)
(* Whenever the command is killed, what is in the directory is the work of *)
(* one install.                                                            *)
(***************************************************************************)
THEOREM DirectoryIsOfOneInstall == Spec => []OneInstallPerDirectory
<1>1. IInv => OneInstallPerDirectory
  BY DEF IInv, DirInv
<1> QED  BY SpecInv, <1>1, PTL

(***************************************************************************)
(* The unlocked loader pairs a manifest with the component of another      *)
(* install only when that install overtook the load.                       *)
(***************************************************************************)
THEOREM PairsAreExplained == Spec => []PairSpansOneInstall
<1>1. IInv => PairSpansOneInstall
  BY DEF IInv, LoadInv
<1> QED  BY SpecInv, <1>1, PTL

(***************************************************************************)
(* Without --force a bootstrap never parts the broker from credentials     *)
(* that were minted.                                                       *)
(***************************************************************************)
THEOREM CredentialsStayValid == Spec => []CredsFitResolver
<1>1. IInv => CredsFitResolver
  BY DEF IInv, AccountInv, Agree, CredsFitResolver
<1> QED  BY SpecInv, <1>1, PTL

=============================================================================
