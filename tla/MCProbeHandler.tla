--------------------------- MODULE MCProbeHandler ---------------------------
(* Queries for ProbeHandler: every way a name can be read, and the few that*)
(* share the SOA signature cache.                                          *)
EXTENDS ProbeHandler

Q(zone, sub, qtype, edns) ==
    [zone |-> zone, sub |-> sub, qtype |-> qtype, v6 |-> FALSE, edns |-> edns,
     zoneversion |-> edns # "none"]

ProbeSubs ==
    {<<>>, <<"cafe">>, <<"nope">>, <<"www", "cafe">>, <<"_ta-4444">>, <<"_ta-44">>,
     <<"_ta-4444", "cafe">>, <<"_probe", "cafe">>, <<"_big", "_big", "cafe">>}
      \cup {Append(dnssdPrefix[k], "cafe") : k \in DOMAIN dnssdPrefix}
      \cup {<<m, "cafe">> : m \in Modifiers}
      \cup {<<m, n, "cafe">> : m, n \in Modifiers}

AgentSubs ==
    {<<>>, <<"_er">>, <<"_er", "1", "a", "7", "_er">>, <<"_er", "1", "cafe", "ZONE", "7", "_er">>,
     <<"_er", "1", "_badsig", "cafe", "ZONE", "7", "_er">>, <<"_er", "x", "a", "7", "_er">>,
     <<"er", "1", "a", "7", "_er">>, <<"_er", "1", "a", "b", "c", "d", "e", "f", "7", "_er">>,
     <<"_er", "1", "_probe", "_tcp", "cafe", "ZONE", "7", "_er">>}

EveryQuery ==
    {Q("probe", sub, t, e) : sub \in ProbeSubs, t \in {"A", "TXT"}, e \in {"none", "do"}}
      \cup {Q("probe", sub, t, e) : sub \in {s \in ProbeSubs : Len(s) # 3 \/ s[1] = "_probe"}, t \in Types,
                                    e \in {"none", "plain", "do"}}
      \cup {Q("agent", sub, t, "do") : sub \in AgentSubs, t \in {"A", "TXT", "SOA", "NS"}}
      \cup {[Q("probe", <<"cafe">>, t, "do") EXCEPT !.v6 = TRUE] : t \in {"A", "AAAA"}}
      \cup {Q("other", <<>>, "A", "none")}

(* Negative answers, which sign the SOA.                                   *)
SignedQueries ==
    {Q("probe", <<>>, "SOA", "do"), Q("probe", <<"_futuresig", "_nxname", "cafe">>, "A", "do")}

=============================================================================
