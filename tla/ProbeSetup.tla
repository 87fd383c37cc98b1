------------------------------ MODULE ProbeSetup ------------------------------
(***************************************************************************)
(* A probe block of the Corefile (probe/setup.go) and what the zones it    *)
(* configures mean for a query name: which of the two ServeDNS answers it  *)
(* from (probe.go), and under which wildcard Metadata (metadata.go) has the*)
(* rate limiter account for it.                                            *)
(*                                                                         *)
(* A domain name is its presentation form, fully qualified and in lower    *)
(* case: characters, dots and backslashes that escape the next character.  *)
(***************************************************************************)
EXTENDS Wire

CONSTANTS ProbeBlocks,      \* the blocks: [zone, lines], a line is [p, v]
          QNames,           \* the names clients ask for
          Escape,           \* the character \
          KeyOwner,         \* the owner name of the key in each file LoadSigner reads
          uint32Max,
          NSLabel, MboxLabel, \* the labels ns and hostmaster
          defaultTTL, defaultAgentTTL, defaultBigSize, maxBigSize

VARIABLES lines,            \* the lines still to parse
          probe,            \* p and parseState
          progress,         \* "parsing", "refused" or "serving"
          asked,            \* the name of the query served last
          answeredBy,       \* the zone ServeDNS answers it from
          account,          \* the zone whose wildcard Metadata publishes
          labelCount        \* LabelCount of the ZONEVERSION option; 0 for none

setupVars == <<lines, probe, progress, asked, answeredBy, account, labelCount>>

Unset == <<>>               \* no name, no path, no address

root == <<Dot>>

\* A character at a time: the labels that ended, the one that has not, and
\* whether the next character is escaped.
scanned(s, c) ==
    IF s.escaped \/ c # Dot
    THEN [s EXCEPT !.label = Append(@, c), !.escaped = c = Escape /\ ~s.escaped]
    ELSE [labels |-> Append(s.labels, s.label), label |-> <<>>, escaped |-> FALSE]

unread == [labels |-> <<>>, label |-> <<>>, escaped |-> FALSE]

scan(name) ==
    LET after[n \in 0..Len(name)] ==
            IF n = 0 THEN unread ELSE scanned(after[n - 1], name[n])
    IN  after[Len(name)]

\* dns.Split: a dot ends a label unless it is escaped.
splitName(name) == IF name = root THEN <<>> ELSE scan(name).labels

\* What dns.Fqdn yields: the last character is a dot that ends a label.
fullyQualified(name) ==
    name \in Seq(Octet) /\ name # <<>> /\ scan(name).label = <<>> /\ ~scan(name).escaped

endsIn(s, t) == Len(t) <= Len(s) /\ SubSeq(s, Len(s) - Len(t) + 1, Len(s)) = t

\* dns.IsSubDomain and plugin.Name.Matches: whole labels, from the root.
IsSubDomain(parent, child) == endsIn(splitName(child), splitName(parent))

\* A test on the octets, left to the library when the name has an escape.
zoneMatches(zone, qname) ==
    \/ zone = root \/ qname = zone
    \/ IF Escape \in Range(qname) THEN IsSubDomain(zone, qname)
       ELSE LET n == Len(qname) - Len(zone)
            IN  n > 0 /\ qname[n] = Dot /\ SubSeq(qname, n + 1, Len(qname)) = zone

\* What the parser hands on: names come through dns.CanonicalName, and a
\* number is one.
canonical(l) ==
    /\ l.p = "AgentDomain" => fullyQualified(l.v)
    /\ l.p = "AgentTTL" => l.v \in Int

\* The names of queries come off the wire.
ASSUME SetupAssumption ==
    /\ Dot # Escape /\ Dot \in Octet /\ Escape \in Octet /\ defaultAgentTTL \in Nat \ {0}
    /\ \A q \in QNames : fullyQualified(q)
    /\ \A b \in ProbeBlocks :
          /\ fullyQualified(b.zone) /\ b.lines \in Seq(Range(b.lines))
          /\ \A l \in Range(b.lines) : canonical(l)

------------------------------------------------------------------------------
NoKey == ""                 \* no key file

NoProbe ==
    [Zone |-> Unset, AgentDomain |-> Unset, AgentTTL |-> 0, TTL |-> defaultTTL,
     NSName |-> Unset, Mbox |-> Unset, BigSize |-> defaultBigSize,
     keyBase |-> NoKey, validity |-> 0, Signer |-> Unset,
     Addrs |-> <<>>, CAFile |-> FALSE, Timeout |-> 0,
     storeTTL |-> 0, maxTokens |-> 0, maxPerToken |-> 0, Store |-> "none"]

\* The fields a line of the block sets.
Directives == DOMAIN NoProbe \ {"Zone", "Signer", "Store"}

SetupRest ==
    /\ lines = <<>> /\ probe = NoProbe /\ progress = "none"
    /\ asked = Unset /\ answeredBy = Unset /\ account = Unset /\ labelCount = 0

SetupInit ==
    /\ \E b \in ProbeBlocks : lines = b.lines /\ probe = [NoProbe EXCEPT !.Zone = b.zone]
    /\ progress = "parsing"
    /\ asked = Unset /\ answeredBy = Unset /\ account = Unset /\ labelCount = 0

\* parseUint32Arg and parseDurationArg; max_tokens and max_per_token, which
\* parseIntArg reads, take any number.
badArgument(l) ==
    \/ l.p \in {"TTL", "AgentTTL"} /\ l.v \notin 0..uint32Max
    \/ l.p \in {"validity", "Timeout", "storeTTL"} /\ l.v <= 0

\* What applyDirective and its helpers refuse; a second `probe` is one.
directiveRefused(l) ==
    \/ l.p \notin Directives
    \/ badArgument(l)
    \/ l.p = "AgentTTL" /\ l.v = 0
    \/ l.p = "BigSize" /\ l.v \notin 1..maxBigSize
    \/ l.p = "Addrs" /\ l.v = <<>>

\* `valkey` accumulates addresses; every other directive replaces.
applyDirective ==
    /\ progress = "parsing" /\ lines # <<>>
    /\ LET l == Head(lines) IN
       IF directiveRefused(l) THEN progress' = "refused" /\ UNCHANGED probe
       ELSE /\ probe' = [probe EXCEPT ![l.p] = IF l.p = "Addrs" THEN @ \o l.v ELSE l.v]
            /\ UNCHANGED progress
    /\ lines' = Tail(lines)
    /\ UNCHANGED <<asked, answeredBy, account, labelCount>>

validateAgentDomainOneWay(p) ==         \* mutant: the zone may be inside the agent domain
    IF p.AgentDomain = Unset THEN p.AgentTTL = 0
    ELSE p.AgentDomain # root /\ ~IsSubDomain(p.Zone, p.AgentDomain)

validateAgentDomain(p) ==
    IF p.AgentDomain = Unset THEN p.AgentTTL = 0
    ELSE /\ p.AgentDomain # root
         /\ ~IsSubDomain(p.Zone, p.AgentDomain)
         /\ ~IsSubDomain(p.AgentDomain, p.Zone)

\* loadSignerFromState: no key leaves the zone unsigned, one that does not load
\* or is another zone's refuses the block.
signerLoads(p) ==
    p.keyBase # NoKey => p.keyBase \in DOMAIN KeyOwner /\ KeyOwner[p.keyBase] = p.Zone

\* buildStore: Valkey needs a CA, and its options an address.
storeBuilds(p, connects) ==
    IF p.Addrs = <<>> THEN ~p.CAFile /\ p.Timeout = 0 ELSE p.CAFile /\ connects

\* The rest of parse, once the block is read; connects is whether NewValkeyStore
\* reads the CA and reaches a server.
FinishParse(connects) ==
    /\ progress = "parsing" /\ lines = <<>>
    /\ IF validateAgentDomain(probe) /\ signerLoads(probe) /\ storeBuilds(probe, connects)
       THEN /\ progress' = "serving"
            /\ probe' = [probe EXCEPT
                  !.NSName = IF @ = Unset THEN NSLabel \o probe.Zone ELSE @,
                  !.Mbox = IF @ = Unset THEN MboxLabel \o probe.Zone ELSE @,
                  !.AgentTTL = IF probe.AgentDomain # Unset /\ @ = 0 THEN defaultAgentTTL ELSE @,
                  !.Signer = IF probe.keyBase # NoKey THEN KeyOwner[probe.keyBase] ELSE Unset,
                  !.Store = IF probe.Addrs = <<>> THEN "memory" ELSE "valkey"]
       ELSE progress' = "refused" /\ UNCHANGED probe
    /\ UNCHANGED <<lines, asked, answeredBy, account, labelCount>>

\* The zone ServeDNS takes a name to be in; Unset when the next plugin gets it.
servingZone(p, qname) ==
    IF p.AgentDomain # Unset /\ zoneMatches(p.AgentDomain, qname) THEN p.AgentDomain
    ELSE IF zoneMatches(p.Zone, qname) THEN p.Zone ELSE Unset

\* Metadata, which the metadata plugin calls before ServeDNS.
Metadata(p, qname) ==
    IF p.AgentDomain # Unset /\ IsSubDomain(p.AgentDomain, qname) THEN p.AgentDomain
    ELSE IF IsSubDomain(p.Zone, qname) THEN p.Zone ELSE Unset

\* The option respond adds where it is asked for; the agent zone has none.
buildZoneVersion(zone) == IF zone = root THEN 0 ELSE Len(splitName(zone))

ServeName(qname) ==
    /\ progress = "serving" /\ asked = Unset
    /\ asked' = qname
    /\ answeredBy' = servingZone(probe, qname)
    /\ account' = Metadata(probe, qname)
    /\ labelCount' = IF servingZone(probe, qname) = probe.Zone THEN buildZoneVersion(probe.Zone) ELSE 0
    /\ UNCHANGED <<lines, probe, progress>>

SetupNext ==
    \/ applyDirective
    \/ \E connects \in BOOLEAN : FinishParse(connects)
    \/ \E q \in QNames : ServeName(q)

SetupSpec == SetupInit /\ [][SetupNext]_setupVars

------------------------------------------------------------------------------
(* Whatever the order of its lines, a block that is accepted keeps its two *)
(* zones apart, as ServeDNS's and Metadata's comments count on: no name is *)
(* in both, so the order they are tried in does not matter; the rate       *)
(* limiter accounts for a name under the zone that answers it, and the     *)
(* label count of a ZONEVERSION option leads a client to that zone, also   *)
(* where one zone's text ends in the other's or a name has an escaped dot; *)
(* and the zone is signed by its own key or by none, its reports are       *)
(* cacheable, and a Valkey store is verified.                              *)
ZonesStayApart ==
    progress = "serving" =>
        /\ asked # Unset =>
             /\ account = answeredBy
             /\ answeredBy # Unset =>
                  /\ IsSubDomain(answeredBy, asked)
                  /\ \A z \in {probe.Zone, probe.AgentDomain} \ {Unset, answeredBy} :
                        ~zoneMatches(z, asked)
             /\ answeredBy = Unset => ~IsSubDomain(probe.Zone, asked)
             /\ labelCount > 0 =>
                  SubSeq(splitName(asked), Len(splitName(asked)) - labelCount + 1, Len(splitName(asked))) = splitName(answeredBy)
        /\ probe.Signer \in {Unset, probe.Zone}
        /\ (probe.AgentDomain # Unset) <=> (probe.AgentTTL > 0)
        /\ probe.Store = "valkey" => probe.CAFile
===============================================================================
