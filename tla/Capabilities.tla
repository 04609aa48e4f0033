---------------------------- MODULE Capabilities ----------------------------
(***************************************************************************)
(* The pure matchers of crates/iot-plugin-host/src/capabilities.rs.  A     *)
(* topic, filter, subject or path is the sequence of what stands between   *)
(* its separators; "/" itself is the path <<"">>.  A token of a subject is *)
(* the sequence of its characters, or of runs of them that stay together,  *)
(* because the check of subjects compares bytes.                           *)
(*                                                                         *)
(* The loops of the source compare position by position and return at the  *)
(* first "#": here the position of that "#" is quantified.                 *)
(***************************************************************************)
EXTENDS Naturals, Sequences

\* Level i of a topic, as far as it has one, is what the pattern asks for.
LevelMatches(pattern, topic, i) ==
    i <= Len(topic) /\ pattern[i] \in {"+", topic[i]}

\* matches_mqtt_topic: "#" takes the rest of the topic, also an empty rest.
MatchesTopic(pattern, topic) ==
    \/ /\ Len(pattern) = Len(topic)
       /\ \A i \in 1 .. Len(pattern) : LevelMatches(pattern, topic, i)
    \/ \E h \in 1 .. Len(pattern) :
          /\ pattern[h] = "#"
          /\ \A i \in 1 .. h - 1 : LevelMatches(pattern, topic, i)

\* Level i of a requested filter is no wider than that of the allowed one.
LevelNarrows(allowed, requested, i) ==
    /\ i <= Len(requested)
    /\ IF allowed[i] = "+" THEN requested[i] # "#" ELSE requested[i] = allowed[i]

\* Mutation of FilterCovers: "+" is taken to cover whatever stands there.
FilterCoversAnyLevel(allowed, requested) ==
    LET Fits(i) == i <= Len(requested) /\ allowed[i] \in {"+", requested[i]}
    IN  \/ /\ Len(allowed) = Len(requested)
           /\ \A i \in 1 .. Len(allowed) : Fits(i)
        \/ \E h \in 1 .. Len(allowed) :
              allowed[h] = "#" /\ \A i \in 1 .. h - 1 : Fits(i)

\* mqtt_filter_covers: the requested filter is no wider than the allowed one.
FilterCovers(allowed, requested) ==
    \/ allowed = requested
    \/ /\ Len(allowed) = Len(requested)
       /\ \A i \in 1 .. Len(allowed) : LevelNarrows(allowed, requested, i)
    \/ \E h \in 1 .. Len(allowed) :
          /\ allowed[h] = "#"
          /\ \A i \in 1 .. h - 1 : LevelNarrows(allowed, requested, i)

\* The tokens that are wildcards to NATS: the rest, and any one token.
Rest == <<">">>
Star == <<"*">>

EndsInRest(token) == token # <<>> /\ token[Len(token)] = ">"

\* matches_subject: what stands before a last ">" is the beginning of the
\* subject, also in the middle of a token.  "*" is no wildcard.
MatchesSubject(pattern, subject) ==
    LET n == Len(pattern)
        last == pattern[n]
    IN  IF EndsInRest(last)
        THEN /\ Len(subject) >= n
             /\ \A i \in 1 .. n - 1 : subject[i] = pattern[i]
             /\ Len(subject[n]) >= Len(last) - 1
             /\ \A j \in 1 .. Len(last) - 1 : subject[n][j] = last[j]
        ELSE subject = pattern

\* How NATS reads the same pattern, as a permission in the plugin's JWT: ">"
\* is a wildcard as the last token, and grants nothing as an earlier one; no
\* token of a subject is empty.
NatsMatches(pattern, subject) ==
    LET n == Len(pattern)
        Fits(k) == \A i \in 1 .. k : i <= Len(subject) /\ pattern[i] \in {Star, subject[i]}
    IN  /\ \A i \in 1 .. Len(subject) : subject[i] # <<>>
        /\ \A i \in 1 .. n - 1 : pattern[i] # Rest
        /\ IF pattern[n] = Rest
           THEN Len(subject) >= n /\ Fits(n - 1)
           ELSE Len(subject) = n /\ Fits(n)

\* The path of an entry that ends in "/" is a directory; another one also
\* authorises the path that is the same.
PathUnder(entry, path) ==
    LET n == Len(entry)
        named == IF entry[n] = "" THEN n - 1 ELSE n
    IN  Len(path) >= n /\ \A i \in 1 .. named : path[i] = entry[i]

\* url_entry_authorises, on URLs that the url crate has parsed: case folded,
\* default port filled in.  An entry that does not parse authorises nothing.
EntryAuthorises(entry, url) ==
    /\ entry.origin = url.origin
    /\ PathUnder(entry.path, url.path)

-----------------------------------------------------------------------------
(***************************************************************************)
(* The four checks of CapabilityMap.                                       *)
(***************************************************************************)

CheckBusPublish(caps, subject) == \E p \in caps.publish : MatchesSubject(p, subject)

CheckMqttPublish(caps, topic) == \E p \in caps.write : MatchesTopic(p, topic)

CheckMqttSubscribe(caps, filter) == \E p \in caps.read : FilterCovers(p, filter)

\* Origin is scheme, host and port; web is that the URL parses, its scheme is
\* http or https and it carries no user information.
CheckNetOutbound(caps, url) ==
    url.web /\ \E entry \in caps.outbound : EntryAuthorises(entry, url)

=============================================================================
