------------------------------ MODULE MCAccess ------------------------------
(***************************************************************************)
(* Filters with each wildcard in each place, against topics of one to      *)
(* three levels; two manifests that overlap; URLs on, under and beside the *)
(* path of an entry.                                                       *)
(***************************************************************************)
EXTENDS Access

CONSTANTS p1, p2

MCTopics == {<<"a">>, <<"b">>, <<"a", "t">>, <<"b", "t">>, <<"a", "t", "u">>}
MCFilters == {<<"#">>, <<"+">>, <<"a", "#">>, <<"+", "t">>, <<"a", "+">>, <<"a", "t">>,
              <<"+", "#">>, <<"a">>}

Url(origin, path, web) == [origin |-> origin, path |-> path, web |-> web]
Api == Url("api", <<"v1">>, TRUE)
MCUrls == {Url("api", <<"v1", "now">>, TRUE), Url("api", <<"v10">>, TRUE),
           Url("api", <<"v1", "now">>, FALSE)}

Zigbee == [publish |-> {<< <<"device">>, <<"z">>, Rest >>}, read |-> {<<"+", "t">>, <<"+">>},
           write |-> {<<"a", "+">>}, outbound |-> {}]
Radio == [publish |-> {}, read |-> {<<"a", "#">>}, write |-> {}, outbound |-> {Api}]
MCManifests == {Zigbee, Radio}

Tokens == {<<>>, <<"d">>, <<"z">>, <<"z", "b">>}
Subjects == UNION { [1 .. n -> Tokens] : n \in 1 .. 3 }
Patterns == UNION { [1 .. n -> {<<>>, <<"d">>, <<"z">>, Star, Rest, <<"z", ">">>}] : n \in 1 .. 3 }

\* What HostAgainstNats in AccessProofs says of patterns and subjects of any
\* length, and of what CheckBusPublish makes of it.
ASSUME HostAgainstNatsHere ==
    \A p \in Patterns, s \in Subjects :
        LET host == CheckBusPublish([publish |-> {p}], s)
        IN  /\ host /\ ~NatsMatches(p, s) =>
                  \/ EndsInRest(p[Len(p)]) /\ p[Len(p)] # Rest
                  \/ <<>> \in { s[i] : i \in DOMAIN s }
                  \/ Rest \in { p[i] : i \in 1 .. Len(p) - 1 }
            /\ NatsMatches(p, s) /\ ~host => Star \in { p[i] : i \in DOMAIN p }

\* A ">" that ends a longer token: "d.z>" lets the host pass "d.zb" and "d.z",
\* which NATS refuses.
ASSUME JoinedIsWider ==
    \A s \in {<< <<"d">>, <<"z", "b">> >>, << <<"d">>, <<"z">> >>,
              << <<"d">>, <<"z", "b">>, <<"d">> >>} :
        LET p == << <<"d">>, <<"z", ">">> >>
        IN  MatchesSubject(p, s) /\ ~NatsMatches(p, s)

=============================================================================
