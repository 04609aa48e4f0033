---------------------------- MODULE AccessProofs ----------------------------
(***************************************************************************)
(* The comparison of filters is sound for every topic, and with it the     *)
(* invariants of Access hold for any plugins, manifests and ACL.           *)
(***************************************************************************)
EXTENDS Access, TLAPS

(***************************************************************************)
(* check_mqtt_subscribe: what a covered filter matches, the filter that    *)
(* covers it matches.                                                      *)
(***************************************************************************)
THEOREM CoversIsSound ==
    ASSUME NEW allowed \in Seq(STRING), NEW requested \in Seq(STRING),
           NEW topic \in Seq(STRING),
           FilterCovers(allowed, requested), MatchesTopic(requested, topic)
    PROVE  MatchesTopic(allowed, topic)
<1> DEFINE Narrow(i) == LevelNarrows(allowed, requested, i)
           Asked(i) == LevelMatches(requested, topic, i)
           Given(i) == LevelMatches(allowed, topic, i)
<1>len. Len(allowed) \in Nat /\ Len(requested) \in Nat /\ Len(topic) \in Nat
  OBVIOUS
\* A level that matches the narrower filter matches the wider one.
<1>1. ASSUME NEW i \in Nat, Narrow(i), Asked(i)  PROVE Given(i)
  BY <1>1 DEF LevelNarrows, LevelMatches
\* A "#" of the requested filter stands against the same in the allowed one.
<1>2. ASSUME NEW i \in Nat, Narrow(i), requested[i] = "#"  PROVE allowed[i] = "#"
  BY <1>2 DEF LevelNarrows
<1>3. CASE allowed = requested
  BY <1>3
<1>4. CASE /\ Len(allowed) = Len(requested)
           /\ \A i \in 1 .. Len(allowed) : Narrow(i)
  <2>1. CASE /\ Len(requested) = Len(topic)
             /\ \A i \in 1 .. Len(requested) : Asked(i)
    <3>1. \A i \in 1 .. Len(allowed) : Given(i)
      BY <1>1, <1>4, <1>len, <2>1
    <3> QED  BY <3>1, <1>4, <2>1 DEF MatchesTopic
  <2>2. CASE \E h \in 1 .. Len(requested) :
                requested[h] = "#" /\ \A i \in 1 .. h - 1 : Asked(i)
    <3>1. PICK h \in 1 .. Len(requested) :
                requested[h] = "#" /\ \A i \in 1 .. h - 1 : Asked(i)
      BY <2>2
    <3>2. allowed[h] = "#"
      BY <1>2, <1>4, <1>len, <3>1
    <3>3. \A i \in 1 .. h - 1 : Given(i)
      <4>1. \A i \in 1 .. h - 1 : i \in Nat /\ i \in 1 .. Len(allowed)
        BY <1>4, <1>len, <3>1
      <4> QED  BY <1>1, <1>4, <3>1, <4>1
    <3> QED  BY <3>1, <3>2, <3>3, <1>4 DEF MatchesTopic
  <2> QED  BY <2>1, <2>2 DEF MatchesTopic
<1>5. CASE \E h \in 1 .. Len(allowed) :
              allowed[h] = "#" /\ \A i \in 1 .. h - 1 : Narrow(i)
  <2>1. PICK h \in 1 .. Len(allowed) :
              allowed[h] = "#" /\ \A i \in 1 .. h - 1 : Narrow(i)
    BY <1>5
  <2>2. \A i \in 1 .. h - 1 : i \in Nat /\ i <= Len(requested)
    BY <2>1, <1>len DEF LevelNarrows
  <2>3. CASE /\ Len(requested) = Len(topic)
             /\ \A i \in 1 .. Len(requested) : Asked(i)
    <3>1. \A i \in 1 .. h - 1 : Given(i)
      BY <1>1, <2>1, <2>2, <2>3, <1>len
    <3> QED  BY <2>1, <3>1 DEF MatchesTopic
  <2>4. CASE \E g \in 1 .. Len(requested) :
                requested[g] = "#" /\ \A i \in 1 .. g - 1 : Asked(i)
    <3>1. PICK g \in 1 .. Len(requested) :
                requested[g] = "#" /\ \A i \in 1 .. g - 1 : Asked(i)
      BY <2>4
    <3>2. CASE g < h
      <4>1. g \in 1 .. h - 1 /\ g \in 1 .. Len(allowed) /\ g \in Nat
        BY <3>2, <2>1, <3>1, <1>len
      <4>2. allowed[g] = "#"
        BY <4>1, <1>2, <2>1, <3>1
      <4>3. \A i \in 1 .. g - 1 : i \in Nat /\ i \in 1 .. h - 1
        BY <4>1, <2>1
      <4>4. \A i \in 1 .. g - 1 : Given(i)
        BY <4>3, <1>1, <2>1, <3>1
      <4> QED  BY <4>1, <4>2, <4>4 DEF MatchesTopic
    <3>3. CASE ~(g < h)
      <4>1. \A i \in 1 .. h - 1 : i \in Nat /\ i \in 1 .. g - 1
        BY <3>3, <2>1, <3>1, <1>len
      <4>2. \A i \in 1 .. h - 1 : Given(i)
        BY <4>1, <1>1, <2>1, <3>1
      <4> QED  BY <2>1, <4>2 DEF MatchesTopic
    <3> QED  BY <3>2, <3>3
  <2> QED  BY <2>3, <2>4 DEF MatchesTopic
<1> QED  BY <1>3, <1>4, <1>5 DEF FilterCovers


LEMMA SameTokens ==
    ASSUME NEW S, NEW a \in Seq(S), NEW b \in Seq(S), Len(a) = Len(b),
           \A i \in 1 .. Len(a) : a[i] = b[i]
    PROVE  a = b
OBVIOUS

(***************************************************************************)
(* matches_subject against NATS, which reads the same patterns as the      *)
(* permissions of the plugin's JWT, for patterns and subjects of any       *)
(* length.  The host lets a plugin publish what NATS refuses only where    *)
(* the pattern ends in a longer token with a ">" at its end ("device.z>"), *)
(* has a ">" before its end, or the subject has an empty token; NATS lets  *)
(* it publish what the host refuses only where the pattern has a "*".      *)
(***************************************************************************)
THEOREM HostAgainstNats ==
    ASSUME NEW Char, NEW pattern \in Seq(Seq(Char)), NEW subject \in Seq(Seq(Char)),
           pattern # <<>>, subject # <<>>
    PROVE  /\ MatchesSubject(pattern, subject) /\ ~NatsMatches(pattern, subject) =>
                 \/ EndsInRest(pattern[Len(pattern)]) /\ pattern[Len(pattern)] # Rest
                 \/ \E i \in 1 .. Len(subject) : subject[i] = <<>>
                 \/ \E i \in 1 .. Len(pattern) - 1 : pattern[i] = Rest
           /\ NatsMatches(pattern, subject) /\ ~MatchesSubject(pattern, subject) =>
                 \E i \in 1 .. Len(pattern) : pattern[i] = Star
<1> DEFINE n == Len(pattern)
           last == pattern[n]
           Full == \A i \in 1 .. Len(subject) : subject[i] # <<>>
           Late == \A i \in 1 .. n - 1 : pattern[i] # Rest
           Stars == \E i \in 1 .. n : pattern[i] = Star
           Same(k) == \A i \in 1 .. k : subject[i] = pattern[i]
           Fits(k) == \A i \in 1 .. k : i <= Len(subject) /\ pattern[i] \in {Star, subject[i]}
<1>1. n \in Nat \ {0} /\ Len(subject) \in Nat /\ last \in Seq(Char)
  OBVIOUS
<1>2. \A k \in 0 .. n : Len(subject) >= k /\ Same(k) => Fits(k)
  BY <1>1
<1>3. \A k \in 0 .. n : Fits(k) /\ ~Stars => Same(k)
  BY <1>1
<1>4. n \in 0 .. n /\ n - 1 \in 0 .. n /\ (Len(subject) >= n => Len(subject) >= n - 1)
  BY <1>1
<1>5. CASE last = Rest
  <2>1. Len(last) = 1 /\ EndsInRest(last) /\ 1 .. Len(last) - 1 = {}
    BY <1>5 DEF EndsInRest, Rest
  <2>2. Len(subject) >= n => Len(subject[n]) >= Len(last) - 1
    <3>1. Len(subject) >= n => subject[n] \in Seq(Char)
      BY <1>1
    <3> QED  BY <2>1, <3>1
  <2>3. MatchesSubject(pattern, subject) <=> Len(subject) >= n /\ Same(n - 1)
    BY <2>1, <2>2 DEF MatchesSubject
  <2>4. NatsMatches(pattern, subject) <=> Full /\ Late /\ Len(subject) >= n /\ Fits(n - 1)
    BY <1>5 DEF NatsMatches
  <2> HIDE DEF Same, Fits
  <2> QED  BY <1>2, <1>3, <1>4, <2>3, <2>4
<1>6. CASE last # Rest
  <2>1. NatsMatches(pattern, subject) <=> Full /\ Late /\ Len(subject) = n /\ Fits(n)
    BY <1>6 DEF NatsMatches
  <2>2. Len(subject) = n /\ Same(n) => subject = pattern
    BY SameTokens
  <2>3. subject = pattern => Len(subject) = n /\ Same(n)
    OBVIOUS
  <2>4. ~EndsInRest(last) => (MatchesSubject(pattern, subject) <=> subject = pattern)
    BY DEF MatchesSubject
  <2>5. subject = pattern => MatchesSubject(pattern, subject)
    BY <1>1 DEF MatchesSubject
  <2> HIDE DEF Same, Fits
  <2> QED  BY <1>2, <1>3, <1>4, <1>6, <2>1, <2>2, <2>3, <2>4, <2>5
<1> QED  BY <1>5, <1>6

-----------------------------------------------------------------------------
\* What generate grants is a grant.
LEMMA GenerateType ==
    ASSUME NEW dir \in [Plugins -> Manifests \cup {None}]
    PROVE  Generate(dir) \in Grants
BY DEF Generate, Grants

LEMMA TypeInit == Init => TypeOK
BY GenerateType DEF Init, TypeOK, Installed, Running, Calls, Idle

LEMMA TypeStep == TypeOK /\ [Next]_vars => TypeOK'
<1> SUFFICES ASSUME TypeOK, [Next]_vars  PROVE TypeOK'
  OBVIOUS
<1> USE AccessAssumption DEF TypeOK, Running, Calls, Idle
<1>1. ASSUME NEW p \in Plugins, ManifestChanges(p)  PROVE TypeOK'
  BY <1>1 DEF ManifestChanges
<1>2. ASSUME NEW p \in Plugins, Load(p)  PROVE TypeOK'
  BY <1>2 DEF Load
<1>3. ASSUME NEW p \in Plugins, Exit(p)  PROVE TypeOK'
  BY <1>3 DEF Exit
<1>4. ASSUME NEW p \in Plugins, NEW f \in Filters, Subscribe(p, f)  PROVE TypeOK'
  BY <1>4 DEF Subscribe
<1>5. ASSUME NEW p \in Plugins, NEW url \in Urls, NEW body \in 0 .. MaxBytes,
             Http(p, url, body)
      PROVE TypeOK'
  BY <1>5 DEF Http
<1>6. ASSUME NEW p \in Plugins, ResponseHead(p)  PROVE TypeOK'
  BY <1>6 DEF ResponseHead
<1>7. ASSUME NEW p \in Plugins, NEW bytes \in 1 .. MaxBytes, Chunk(p, bytes)
      PROVE TypeOK'
  <2>1. call[p] \in Calls /\ call[p].got \in Nat /\ bytes \in Nat
    BY <1>7 DEF Chunk
  <2>2. call' \in [Plugins -> Calls]
    BY <1>7, <2>1 DEF Chunk
  <2>3. \A q \in Plugins : call'[q] # Idle => call[q] # Idle
    BY <1>7 DEF Chunk
  <2> QED  BY <1>7, <2>2, <2>3 DEF Chunk
<1>8. ASSUME NEW p \in Plugins, HttpEnds(p)  PROVE TypeOK'
  BY <1>8 DEF HttpEnds
<1>9. CASE RegenAcl
  BY <1>9, GenerateType DEF RegenAcl
<1>10. CASE BrokerReloads
  BY <1>10 DEF BrokerReloads
<1>11. CASE UNCHANGED vars
  BY <1>11 DEF vars
<1> QED
  BY <1>1, <1>2, <1>3, <1>4, <1>5, <1>6, <1>7, <1>8, <1>9, <1>10, <1>11
     DEF Next, HostCall

(***************************************************************************)
(* TypeOK for any plugins, manifests and bounds.                           *)
(***************************************************************************)
THEOREM AccessTypeCorrect == Spec => []TypeOK
BY TypeInit, TypeStep, PTL DEF Spec

-----------------------------------------------------------------------------
(***************************************************************************)
(* Routes are narrower than the manifest as filters; CoversIsSound then    *)
(* makes HearsOnlyGranted of it.                                           *)
(***************************************************************************)
RoutesNarrow ==
    \A p \in Plugins : \A r \in routes[p] :
        p \in Running /\ CheckMqttSubscribe(running[p], r)

LEMMA RoutesNarrowStep == TypeOK /\ RoutesNarrow /\ [Next]_vars => RoutesNarrow'
<1> SUFFICES ASSUME TypeOK, RoutesNarrow, [Next]_vars  PROVE RoutesNarrow'
  OBVIOUS
<1> USE DEF TypeOK, RoutesNarrow, Running
<1>1. ASSUME NEW p \in Plugins, Load(p)  PROVE RoutesNarrow'
  <2>1. routes[p] = {}
    BY <1>1 DEF Load
  <2> QED  BY <1>1, <2>1 DEF Load
<1>2. ASSUME NEW p \in Plugins, Exit(p)  PROVE RoutesNarrow'
  BY <1>2 DEF Exit
<1>3. ASSUME NEW p \in Plugins, NEW f \in Filters, Subscribe(p, f)
      PROVE RoutesNarrow'
  BY <1>3 DEF Subscribe
<1>4. CASE UNCHANGED <<running, routes>>
  BY <1>4
<1> QED
  BY <1>1, <1>2, <1>3, <1>4
     DEF Next, HostCall, ManifestChanges, Http, ResponseHead, Chunk, HttpEnds,
         RegenAcl, BrokerReloads, vars

LEMMA NarrowHearsGranted == TypeOK /\ RoutesNarrow => HearsOnlyGranted
<1> SUFFICES ASSUME TypeOK, RoutesNarrow, NEW p \in Plugins, NEW t \in Topics,
                    NEW r \in routes[p], MatchesTopic(r, t)
             PROVE  p \in Running /\ Matched(running[p].read, t)
  BY DEF HearsOnlyGranted, Matched
<1>1. p \in Running /\ CheckMqttSubscribe(running[p], r)
  BY DEF RoutesNarrow
<1>2. PICK f \in running[p].read : FilterCovers(f, r)
  BY <1>1 DEF CheckMqttSubscribe
<1>3. running[p] \in Manifests /\ r \in Filters
  BY <1>1 DEF TypeOK, Running
<1>4. f \in Seq(STRING) /\ r \in Seq(STRING) /\ t \in Seq(STRING)
  BY <1>2, <1>3, AccessAssumption
<1>5. MatchesTopic(f, t)
  BY <1>2, <1>4, CoversIsSound
<1> QED  BY <1>1, <1>2, <1>5 DEF Matched

(***************************************************************************)
(* HearsOnlyGranted for any manifests, filters and topics.                 *)
(***************************************************************************)
THEOREM OnlyGrantedIsHeard == Spec => []HearsOnlyGranted
<1>1. Init => RoutesNarrow
  BY DEF Init, RoutesNarrow
<1>2. TypeOK /\ RoutesNarrow /\ [Next]_vars => RoutesNarrow'
  BY RoutesNarrowStep
<1>3. TypeOK /\ RoutesNarrow => HearsOnlyGranted
  BY NarrowHearsGranted
<1> QED  BY <1>1, <1>2, <1>3, AccessTypeCorrect, PTL DEF Spec

-----------------------------------------------------------------------------
(***************************************************************************)
(* What the operator has not yet to do again was done for the manifests    *)
(* that are installed.                                                     *)
(***************************************************************************)
GrantsCurrent ==
    /\ due # "regenerate" => file = Generate(installed)
    /\ due = "nothing" => acl = Generate(installed)

LEMMA GrantsCurrentStep == GrantsCurrent /\ [Next]_vars => GrantsCurrent'
<1> SUFFICES ASSUME GrantsCurrent, [Next]_vars  PROVE GrantsCurrent'
  OBVIOUS
<1> USE DEF GrantsCurrent
<1>1. ASSUME NEW p \in Plugins, ManifestChanges(p)  PROVE GrantsCurrent'
  BY <1>1 DEF ManifestChanges
<1>2. CASE RegenAcl
  BY <1>2 DEF RegenAcl, Generate
<1>3. CASE BrokerReloads
  BY <1>3 DEF BrokerReloads, Generate
<1>4. CASE UNCHANGED <<installed, file, acl, due>>
  BY <1>4 DEF Generate
<1> QED
  BY <1>1, <1>2, <1>3, <1>4
     DEF Next, HostCall, Load, Exit, Subscribe, Http, ResponseHead, Chunk,
         HttpEnds, vars

(***************************************************************************)
(* AclServesPlugins for any manifests: the ACL is made of the filters the  *)
(* host compares with and of no others, for reading and for writing, and   *)
(* the routes only hear what those match.                                  *)
(***************************************************************************)
THEOREM AclServes == Spec => []AclServesPlugins
<1>1. Init => GrantsCurrent
  BY DEF Init, GrantsCurrent
<1>2. GrantsCurrent /\ [Next]_vars => GrantsCurrent'
  BY GrantsCurrentStep
<1>3. TypeOK /\ HearsOnlyGranted /\ GrantsCurrent => AclServesPlugins
  <2> SUFFICES ASSUME TypeOK, HearsOnlyGranted, GrantsCurrent, due = "nothing",
                      NEW t \in Topics
               PROVE  /\ \A p \in Running : running[p] = installed[p] =>
                            /\ Matched(routes[p], t) => Matched(acl.read, t)
                            /\ CheckMqttPublish(running[p], t) => Matched(acl.write, t)
                      /\ Matched(acl.read, t) =>
                            \E p \in Installed : Matched(installed[p].read, t)
                      /\ Matched(acl.write, t) =>
                            \E p \in Installed : Matched(installed[p].write, t)
    BY DEF AclServesPlugins
  <2>1. acl = Generate(installed)
    BY DEF GrantsCurrent
  <2>2. \A p \in Installed : /\ installed[p].read \subseteq acl.read
                            /\ installed[p].write \subseteq acl.write
    BY <2>1 DEF Generate, Installed
  <2>3. /\ \A f \in acl.read : \E p \in Installed : f \in installed[p].read
        /\ \A f \in acl.write : \E p \in Installed : f \in installed[p].write
    BY <2>1 DEF Generate, Installed
  <2>4. ASSUME NEW p \in Running, running[p] = installed[p]
        PROVE  /\ Matched(routes[p], t) => Matched(acl.read, t)
               /\ CheckMqttPublish(running[p], t) => Matched(acl.write, t)
    <3>1. p \in Plugins /\ p \in Installed
      BY <2>4 DEF Running, Installed
    <3> QED  BY <2>2, <2>4, <3>1 DEF HearsOnlyGranted, Matched, CheckMqttPublish
  <2>5. /\ Matched(acl.read, t) => \E p \in Installed : Matched(installed[p].read, t)
        /\ Matched(acl.write, t) => \E p \in Installed : Matched(installed[p].write, t)
    BY <2>3 DEF Matched
  <2> QED  BY <2>4, <2>5
<1> QED  BY <1>1, <1>2, <1>3, AccessTypeCorrect, OnlyGrantedIsHeard, PTL DEF Spec

=============================================================================
