-------------------------------- MODULE MCPure --------------------------------
(***************************************************************************)
(* The parts of the repository that make a result out of an input and are  *)
(* done, each over a small universe of inputs: the choice of a certificate,*)
(* radnr's configuration and option codec, the ECH canary, a probe block,  *)
(* the counting of queries and the image pipeline.  They share no state, so*)
(* a behaviour is about one of them and the others are at rest.            *)
(***************************************************************************)
EXTENDS SniHandshake, RadnrConfig, EchConfig, ProbeSetup, ProbeObserve, Build

VARIABLE part

vars == <<part, sniVars, radnrVars, echVars, setupVars, observeVars, buildVars>>

Init ==
    \/ part = "sni" /\ SniInit /\ RadnrRest /\ EchRest /\ SetupRest /\ ObserveRest /\ BuildRest
    \/ part = "radnr" /\ SniRest /\ RadnrInit /\ EchRest /\ SetupRest /\ ObserveRest /\ BuildRest
    \/ part = "ech" /\ SniRest /\ RadnrRest /\ EchInit /\ SetupRest /\ ObserveRest /\ BuildRest
    \/ part = "setup" /\ SniRest /\ RadnrRest /\ EchRest /\ SetupInit /\ ObserveRest /\ BuildRest
    \/ part = "observe" /\ SniRest /\ RadnrRest /\ EchRest /\ SetupRest /\ ObserveInit /\ BuildRest
    \/ part = "build" /\ SniRest /\ RadnrRest /\ EchRest /\ SetupRest /\ ObserveRest /\ BuildInit

Next ==
    /\ UNCHANGED part
    /\ \/ part = "sni" /\ SniNext
          /\ UNCHANGED <<radnrVars, echVars, setupVars, observeVars, buildVars>>
       \/ part = "radnr" /\ RadnrNext
          /\ UNCHANGED <<sniVars, echVars, setupVars, observeVars, buildVars>>
       \/ part = "ech" /\ EchNext
          /\ UNCHANGED <<sniVars, radnrVars, setupVars, observeVars, buildVars>>
       \/ part = "setup" /\ SetupNext
          /\ UNCHANGED <<sniVars, radnrVars, echVars, observeVars, buildVars>>
       \/ part = "observe" /\ ObserveNext
          /\ UNCHANGED <<sniVars, radnrVars, echVars, setupVars, buildVars>>
       \/ part = "build" /\ BuildNext
          /\ UNCHANGED <<sniVars, radnrVars, echVars, setupVars, observeVars>>

Spec == Init /\ [][Next]_vars

------------------------------------------------------------------------------
\* sni_tls: three pairs, one of them a wildcard.
MCLower == [l \in {"", "*", "f*", "a", "B", "b", "net"} |->
               IF l = "B" THEN "b" ELSE l]

\* Pair 1: a wildcard, then a single host.  Pair 2: a host, then also a
\* partial wildcard no client may match.  Pair 3: a deeper wildcard.
MCSANs ==
    <<<< {<<"*", "net">>}, {<<"B", "net">>} >>,
      << {<<"b", "net">>}, {<<"a", "net">>, <<"f*", "net">>} >>,
      << {<<"*", "B", "net">>, <<"net">>}, {<<"*", "*", "net">>, <<"*">>} >>>>

MCSNIs ==
    {<<>>, <<"net">>, <<"b">>, <<"a", "net">>, <<"b", "net">>, <<"B", "net">>,
     <<"f*", "net">>, <<"", "net">>, <<"a", "b", "net">>, <<"a", "a", "net">>,
     <<"*", "*", "net">>, <<"", "b", "net">>}

------------------------------------------------------------------------------
\* radnr, with octets below 9: 1 and 2 are letters, 5 is the dot, 7 is no
\* letter.  Names: two good ones, with and without the trailing dot; the
\* longest one; one octet more; a long label; an empty label; no name.
MCNames ==
    {<<1, 5, 2>>, <<2, 5>>, <<1, 1, 1, 5, 2>>, <<1, 1, 5, 2, 2, 5, 1>>,
     <<1, 1, 1, 1>>, <<1, 5, 5, 2>>, <<7>>, <<5>>}

MCAddr(o, is6, zone) == [octets |-> o, is6 |-> is6, zone |-> zone]

MCAddrs ==
    {<<MCAddr(<<1, 2>>, TRUE, FALSE)>>, <<MCAddr(<<1, 2>>, TRUE, TRUE)>>,
     <<MCAddr(<<4, 2>>, TRUE, FALSE)>>, <<MCAddr(<<1, 2>>, FALSE, FALSE)>>}

line(p, v) == [p |-> p, v |-> v]

MCExtras ==
    {line("Addrs", <<MCAddr(<<5, 0>>, TRUE, FALSE), MCAddr(<<7, 7>>, TRUE, FALSE)>>),
     line("Addrs", <<>>),
     line("ALPN", <<<<1>>>>), line("ALPN", <<<<2, 2>>, <<1>>>>), line("ALPN", <<<<>>>>),
     line("ALPN", <<[i \in 1..9 |-> 1]>>),
     line("Port", 5), line("Port", 81), line("DohPath", <<2>>),
     line("RouterLifetime", 3), line("AllowDefaultRouter", TRUE),
     line("AdvertisePrefixes", <<1>>), line("AdvertiseRDNSS", TRUE), line("DryRun", TRUE),
     line("UnicastTarget", <<MCAddr(<<1, 2>>, FALSE, FALSE)>>), line("unknown", 0)}

MCBlocks ==
    {<<line("Interface", i), line("ADN", n)>> \o e \o <<line("Addrs", a)>> :
        i \in {"eth0"}, n \in MCNames, a \in MCAddrs,
        e \in {<<>>} \cup [1..1 -> MCExtras] \cup [1..2 -> MCExtras]}
      \cup {<<line("ADN", <<1>>)>>, <<line("Interface", "eth0"), line("ADN", <<1>>)>>}

------------------------------------------------------------------------------
\* The canary: keys of two octets where one is asked for too, and names up to
\* one octet more than an octet can count.
MCKeys == {<<1, 2>>, <<0, 0>>, <<1>>}
MCCanaryNames == {<<>>, <<1>>, <<2, 1>>, [i \in 1..8 |-> 1], [i \in 1..9 |-> 1]}
MCSuite == <<0, 1, 0, 1>>

------------------------------------------------------------------------------
\* probe: 8 is the backslash.  The zone is 1.2.; the agent domains are a
\* sibling, one whose text ends in the zone's, one whose text ends in .1.2.
\* behind an escaped dot, one inside the zone, its parent and the root.
MCZone == <<1, 5, 2, 5>>

MCAgents ==
    {<<3, 5, 2, 5>>, <<1, 1, 5, 2, 5>>, <<3, 8, 5, 1, 5, 2, 5>>, <<3, 5>> \o MCZone,
     <<2, 5>>, <<5>>, MCZone}

MCProbeExtras ==
    {line("AgentTTL", 7), line("AgentTTL", 0), line("AgentTTL", 401),
     line("keyBase", "own"), line("keyBase", "other"), line("keyBase", "missing"),
     line("Addrs", <<"a">>), line("Addrs", <<>>), line("CAFile", TRUE), line("Timeout", 1),
     line("storeTTL", 0), line("BigSize", 5), line("BigSize", 3), line("TTL", 0),
     line("NSName", <<3, 5>>), line("maxTokens", -1), line("probe", <<2, 5>>)}

MCProbeBlocks ==
    {[zone |-> z, lines |-> e \o a] : z \in {MCZone, <<5>>},
        a \in {<<>>} \cup {<<line("AgentDomain", d)>> : d \in MCAgents},
        e \in {<<>>} \cup [1..1 -> MCProbeExtras] \cup [1..2 -> MCProbeExtras]}

MCKeyOwner == [own |-> MCZone, other |-> <<2, 5>>]
MCNSLabel == <<1, 5>>
MCMboxLabel == <<2, 5>>

MCQNames ==
    UNION {{n, <<2, 5>> \o n, <<2>> \o n, <<2, 8, 5>> \o n, <<2, 8, 8, 5>> \o n} :
             n \in MCAgents \ {<<5>>}}
      \cup {<<5>>, <<3, 5>>}

------------------------------------------------------------------------------
\* Queries: every combination of the labels on two transports, so that any two
\* of them meet in the counter caches, and some for the rest of the options,
\* the other transports and the writers above them.  The zone's key tag is 7;
\* two of the queries are to a zone without a signer.
MCECS(family, mask, addrBits) ==
    <<[kind |-> "ecs", family |-> family, mask |-> mask, addrBits |-> addrBits]>>
MCTags(odd, tags) == <<[kind |-> "keytag", odd |-> odd, tags |-> tags]>>
MCPlain(kind) == <<[kind |-> kind]>>

MCQuery(via, writers, v6, opt) ==
    [via |-> via, writers |-> writers, IPv6 |-> v6, opt |-> opt, key |-> <<7>>,
     proto |-> IF via \in {"udp", "quic"} THEN "udp" ELSE "tcp",
     alpn |-> CASE via = "https" -> "h2" [] via = "quic" -> "doq" [] OTHER -> ""]

MCOpt(do, co, de, options) == <<[DO |-> do, CO |-> co, DE |-> de, options |-> options]>>

MCLabelled ==
    {MCQuery(t[1], <<t[2]>>, v6, opt) :
        t \in {<<"udp", "opaque">>, <<"tls", "tls">>}, v6 \in BOOLEAN,
        opt \in {<<>>} \cup {MCOpt(do, ~do, de, e \o z) : do \in BOOLEAN, de \in BOOLEAN,
                 e \in {<<>>, MCECS(1, 0, 32), MCECS(2, 2, 32)}, z \in {<<>>, MCPlain("zoneversion")}}}

MCOptionLists ==
    {MCPlain("cookie"), MCECS(1, 2, 32) \o MCECS(1, 0, 32), MCECS(1, 0, 32) \o MCECS(3, 2, 0),
     MCECS(1, 33, 32), MCTags(FALSE, <<7>>), MCTags(FALSE, <<3>>) \o MCTags(FALSE, <<7, 3>>),
     MCTags(TRUE, <<7>>), MCTags(FALSE, <<3, 3, 7>>) \o MCTags(FALSE, <<3>>)}

MCMessages ==
    MCLabelled \cup {MCQuery("tcp", <<"cleartext">>, FALSE, MCOpt(TRUE, TRUE, FALSE, o)) : o \in MCOptionLists}
      \cup {MCQuery(v, w \o <<"tls">>, TRUE, <<>>) :
               v \in {"tls", "quic", "https"}, w \in {<<"plain", "plain">>, <<"plain", "plain", "plain">>, <<"opaque">>}}
      \cup {MCQuery("tcp", <<"plain", "cleartext", "tls">>, FALSE, <<>>)}
      \cup {[MCQuery("udp", <<"opaque">>, FALSE, MCOpt(FALSE, FALSE, FALSE, o)) EXCEPT !.key = <<>>] :
               o \in {<<>>, MCTags(FALSE, <<7>>)}}

------------------------------------------------------------------------------
\* Upstream's plugin.cfg, down to the lines the patches or their comments
\* name and one more; a tag without `hosts`; one that names `tls` differently;
\* and one that lacks `rewrite` and has a plugin whose name contains rrl's.
MCStocks ==
    {<<"tls", "health", "tsig", "cache", "rewrite", "dnssec", "transfer", "hosts", "kubernetes",
       "file">>,
     <<"tls", "health", "tsig", "cache", "rewrite", "dnssec", "transfer", "file">>,
     <<"tls2", "health", "tsig", "cache", "rewrite", "dnssec", "transfer", "hosts", "file">>,
     <<"tls", "health", "tsig", "cache", "dnssec", "rrlog", "hosts", "file">>}

MCNameWithin == [p \in Plugins |-> IF p = "rrl" THEN {"rrlog"} ELSE {}]
===============================================================================
