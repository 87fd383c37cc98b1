---------------------------- MODULE ProbeHandler ----------------------------
(***************************************************************************)
(* Probe.ServeDNS (probe.go, agent.go, ede.go, sign.go): concurrent        *)
(* handlers, each answering one query, that share the observation store and*)
(* the cache of signatures over the apex SOA.                              *)
(*                                                                         *)
(* A response is its rcode, the record types of its sections and the       *)
(* signatures in it; a signature is the type it says it covers, the types  *)
(* of the records it was made over, whether it was left intact, and its    *)
(* validity window.  The sizes of responses, and so Scrub, are left out.  A*)
(* signature also keeps when it was made, for the properties.              *)
(***************************************************************************)
EXTENDS ProbeNames

CONSTANTS
    Handlers,
    Queries,        \* the queries clients send
    HasSigner, HasAgent, HasECH,
    Validity,       \* half the width of a signature's window
    soaSigMaxAge,
    rrsigYear68,    \* 2^31
    StoreFails,     \* whether the store may be full or out of reach
    SignFails,      \* whether signing may fail
    WriteFails,     \* whether the connection may be gone
    Start, MaxTime  \* bounds on the clock

ASSUME HandlerAssumption ==
    /\ HasSigner \in BOOLEAN /\ HasAgent \in BOOLEAN /\ HasECH \in BOOLEAN
    /\ StoreFails \in BOOLEAN /\ SignFails \in BOOLEAN /\ WriteFails \in BOOLEAN
    /\ Validity \in Nat /\ soaSigMaxAge \in Nat \ {0}
    /\ rrsigYear68 \in Nat \ {0}
    /\ Start \in Nat /\ MaxTime \in Nat /\ Start >= 2 * Validity /\ MaxTime >= Start

Types == {"A", "AAAA", "TXT", "HTTPS", "SVCB", "PTR", "SRV", "ANY", "SOA", "NS",
          "DNSKEY", "NULL", "NXNAME"}

Query ==
    [zone : {"probe", "agent", "other"}, sub : Seq(STRING), qtype : Types,
     v6 : BOOLEAN, edns : {"none", "plain", "do"}, zoneversion : BOOLEAN]

ASSUME QueriesAssumption == Queries \subseteq Query

-----------------------------------------------------------------------------
(* Signatures *)

rrsigTime(unix) ==
    LET mod == IF unix \div rrsigYear68 > 1 THEN unix \div rrsigYear68 - 1 ELSE 0
    IN  unix - mod * rrsigYear68

NoSig == [over |-> {}]

(* The type of the first record: synthesizeDNSSD puts SRV before TXT, and  *)
(* every other section that is signed has one type.                        *)
TypeCovered(types) == IF "SRV" \in types THEN "SRV" ELSE CHOOSE x \in types : TRUE

signRRset(types, m, t) ==
    LET window == CASE "_expiredsig" \in m -> <<t - 2 * Validity, t - Validity>>
                    [] "_futuresig" \in m  -> <<t + Validity, t + 2 * Validity>>
                    [] OTHER                  -> <<t - Validity, t + Validity>>
    IN  IF types = {} \/ "_unsigned" \in m THEN NoSig
        ELSE [covers |-> TypeCovered(types), over |-> types,
              good |-> "_badsig" \notin m, at |-> t,
              inception |-> rrsigTime(window[1]), expiration |-> rrsigTime(window[2])]

(* The results of sign: a failure to sign is logged and gives none.        *)
sign(types, m, t) ==
    IF HasSigner THEN {signRRset(types, m, t)} \cup (IF SignFails THEN {NoSig} ELSE {})
    ELSE {NoSig}

-----------------------------------------------------------------------------
(* Responses *)

Empty ==
    [rcode |-> "NOERROR", answer |-> {}, extra |-> {}, auth |-> {}, bitmap |-> {},
     sigs |-> {}, tc |-> FALSE, ede |-> "none", channel |-> FALSE, zv |-> FALSE]

edeFor(m) ==
    CASE "_expiredsig" \in m -> "SignatureExpired"
      [] "_futuresig" \in m  -> "SignatureNotYetValid"
      [] "_unsigned" \in m   -> "RRSIGsMissing"
      [] "_badsig" \in m     -> "DNSBogus"
      [] "_servfail" \in m /\ m \cap signatureMods = {} -> "Other"
      [] OTHER                  -> "none"

(* respond: options go into the OPT that a response has when its query had *)
(* one.  respondDNSSD does not answer ZONEVERSION.                         *)
respond(q, r) ==
    IF q.edns = "none" THEN [r EXCEPT !.ede = "none"]
    ELSE [r EXCEPT !.channel = HasAgent, !.zv = q.zoneversion]

respondDNSSD(q, r) == [r EXCEPT !.channel = HasAgent /\ q.edns # "none"]

respondAgent(answer) ==
    [Empty EXCEPT !.answer = answer, !.auth = IF answer = {} THEN {"SOA"} ELSE {}]

synthesize(q) ==
    CASE q.qtype = "A"    -> IF q.v6 THEN {} ELSE {"A"}
      [] q.qtype = "AAAA" -> IF q.v6 THEN {"AAAA"} ELSE {}
      [] q.qtype \in {"HTTPS", "SVCB"} -> IF HasECH THEN {q.qtype} ELSE {}
      [] q.qtype = "TXT"  -> {"TXT"}
      [] OTHER            -> {}

synthesizeDNSSD(kind, qtype) ==
    IF kind = "instance"
    THEN IF qtype = "ANY" THEN {"SRV", "TXT"} ELSE {qtype} \cap {"SRV", "TXT"}
    ELSE IF qtype \in {"PTR", "ANY"} THEN {"PTR"} ELSE {}

apex(qtype) == {qtype} \cap ({"SOA", "NS"} \cup IF HasSigner THEN {"DNSKEY"} ELSE {})

(* Mutant of denial: the NSEC is always there.                             *)
denialAlways(q, m, bitmap, r, t) ==
    {[r EXCEPT !.auth = {"SOA", "NSEC"}, !.bitmap = bitmap, !.sigs = {s} \ {NoSig}] :
        s \in sign({"NSEC"}, m, t)}

(* denial: the NSEC is there, and signed, only for a client that asked.    *)
denial(q, m, bitmap, r, t) ==
    IF q.edns # "do" THEN {[r EXCEPT !.auth = {"SOA"}]}
    ELSE {[r EXCEPT !.auth = {"SOA", "NSEC"}, !.bitmap = bitmap, !.sigs = {s} \ {NoSig}] :
             s \in sign({"NSEC"}, m, t)}

nodataDenial(q, m, r, t) == denial(q, m, {"RRSIG", "NSEC"}, r, t)
compactDenial(q, m, r, t) == denial(q, m, {"RRSIG", "NSEC", "NXNAME"}, r, t)

(* An answer section with its signature.  The apex SOA's comes later.      *)
positive(q, m, r, t) ==
    IF q.edns = "do" /\ r.answer # {"SOA"}
    THEN {[r EXCEPT !.sigs = {s} \ {NoSig}] : s \in sign(r.answer, m, t)}
    ELSE {r}

respondForQuery(q, m, t) ==
    LET r == [Empty EXCEPT !.answer = synthesize(q), !.ede = edeFor(m)]
    IN  CASE "_servfail" \in m ->
                {[Empty EXCEPT !.rcode = "SERVFAIL", !.ede = edeFor(m)]}
          [] "_nxdomain" \in m ->
                nodataDenial(q, m, [Empty EXCEPT !.rcode = "NXDOMAIN"], t)
          [] "_nxname" \in m -> compactDenial(q, m, Empty, t)
          [] "_truncate" \in m /\ m \cap {"_servfail", "_nxdomain", "_nxname"} = {} ->
                {[Empty EXCEPT !.tc = TRUE]}
          [] OTHER -> IF r.answer = {} THEN nodataDenial(q, m, r, t)
                      ELSE positive(q, m, r, t)

serveApex(q, t) ==
    LET r == [Empty EXCEPT !.answer = apex(q.qtype)]
    IN  IF r.answer = {} THEN nodataDenial(q, {}, r, t) ELSE positive(q, {}, r, t)

serveDNSSD(q, t) ==
    LET kind == parseDNSSD(q.sub)
        r == [Empty EXCEPT !.answer = synthesizeDNSSD(kind, q.qtype),
                           !.extra = IF kind = "enumerate" THEN {"SRV", "TXT"} ELSE {}]
    IN  IF r.answer = {} THEN {respond(q, d) : d \in nodataDenial(q, {}, Empty, t)}
        ELSE {respondDNSSD(q, d) : d \in positive(q, {}, r, t)}

(* Mutant of serveReport: what is no report is refused.                    *)
serveReportRefuses(q) ==
    IF parseReportLabels(q.sub) = "report" THEN respondAgent({"TXT"} \cap {q.qtype})
    ELSE [Empty EXCEPT !.rcode = "REFUSED"]

serveReport(q) ==
    IF q.sub = <<>> THEN respondAgent({q.qtype} \cap {"SOA", "NS"})
    ELSE IF parseReportLabels(q.sub) = "report" /\ q.qtype = "TXT"
    THEN respondAgent({"TXT"}) ELSE respondAgent({})

-----------------------------------------------------------------------------
(* ServeDNS *)

route(q) ==
    IF q.zone = "agent" /\ HasAgent THEN "report"
    ELSE IF q.zone # "probe" THEN "next"
    ELSE IF q.qtype = "NXNAME" THEN "formerr"
    ELSE IF q.sub = <<>> THEN "apex"
    ELSE IF parseDNSSD(q.sub) # "none" THEN "dnssd"
    ELSE IF ParseKeyTagQuery(q.sub) = "tags" THEN "keytag"
    ELSE IF ParseKeyTagQuery(q.sub) = "bad" \/ ParseQuery(q.sub) = NotAQuery THEN "refused"
    ELSE "query"

mods(q) == IF route(q) = "query" THEN ParseQuery(q.sub).mods ELSE {}

(* The queries that go into the store: a visitor's, or a well-formed report.*)
recorded(q) ==
    \/ route(q) \in {"query", "dnssd"}
    \/ route(q) = "report" /\ q.qtype = "TXT" /\ parseReportLabels(q.sub) = "report"

(* The responses a query may get, but for the signature over the SOA.      *)
responses(q, t) ==
    CASE route(q) = "next"    -> {[Empty EXCEPT !.rcode = "next"]}
      [] route(q) = "report"  -> {serveReport(q)}
      [] route(q) = "formerr" -> {respond(q, [Empty EXCEPT !.rcode = "FORMERR"])}
      [] route(q) = "refused" -> {respond(q, [Empty EXCEPT !.rcode = "REFUSED"])}
      [] route(q) = "apex"    -> {respond(q, r) : r \in serveApex(q, t)}
      [] route(q) = "dnssd"   -> serveDNSSD(q, t)
      [] route(q) = "keytag"  -> {respond(q, r) : r \in nodataDenial(q, {}, Empty, t)}
      [] route(q) = "query"   -> {respond(q, r) : r \in respondForQuery(q, mods(q), t)}

signsSOA(q, r) ==
    HasSigner /\ q.edns = "do" /\ q.zone = "probe" /\ "SOA" \in r.auth \cup r.answer

VARIABLES
    now,       \* the clock, in seconds
    pc,        \* where each handler is
    query,     \* the query it answers
    did,       \* what it did: counted, stored, written
    response,  \* its response so far
    started,   \* the clock signSOA read
    soaSigs    \* the cached SOA signatures, by signature modifier

vars == <<now, pc, query, did, response, started, soaSigs>>

NoSlot == [made |-> 0, sig |-> NoSig, full |-> FALSE]
Slots == {{}} \cup {{m} : m \in signatureMods}
NoQuery ==
    [zone |-> "other", sub |-> <<>>, qtype |-> "A", v6 |-> FALSE,
     edns |-> "none", zoneversion |-> FALSE]

Init ==
    /\ now = Start
    /\ pc = [h \in Handlers |-> "idle"]
    /\ query = [h \in Handlers |-> NoQuery]
    /\ did = [h \in Handlers |-> {}]
    /\ response = [h \in Handlers |-> Empty]
    /\ started = [h \in Handlers |-> 0]
    /\ soaSigs = [k \in Slots |-> NoSlot]

goto(h, l) == pc' = [pc EXCEPT ![h] = l]

Receive(h, q) ==
    /\ pc[h] = "idle"
    /\ query' = [query EXCEPT ![h] = q]
    /\ goto(h, IF recorded(q) THEN "record" ELSE "answer")
    /\ UNCHANGED <<now, did, response, started, soaSigs>>

(* Mutant of observeAndRecord: the metrics share the store's fate.         *)
observeAndRecordTogether(h) ==
    /\ \/ /\ pc[h] = "record"
          /\ goto(h, "store")
          /\ UNCHANGED did
       \/ /\ pc[h] = "store"
          /\ \/ did' = [did EXCEPT ![h] = @ \cup {"counted", "stored"}]
             \/ StoreFails /\ UNCHANGED did
          /\ goto(h, "answer")
    /\ UNCHANGED <<now, query, response, started, soaSigs>>

(* observeAndRecord, and the like in serveDNSSD and serveReport: the query *)
(* is counted, then stored; an error of the store is logged.               *)
observeAndRecord(h) ==
    /\ \/ /\ pc[h] = "record"
          /\ did' = [did EXCEPT ![h] = @ \cup {"counted"}]
          /\ goto(h, "store")
       \/ /\ pc[h] = "store"
          /\ \/ did' = [did EXCEPT ![h] = @ \cup {"stored"}]
             \/ StoreFails /\ UNCHANGED did
          /\ goto(h, "answer")
    /\ UNCHANGED <<now, query, response, started, soaSigs>>

withSOASig(r, sig) == [r EXCEPT !.sigs = @ \cup ({sig} \ {NoSig})]

(* Mutant of fresh: a cached signature is never too old.                   *)
freshForever(slot, t) == slot.full

fresh(slot, t) == slot.full /\ t - slot.made < soaSigMaxAge

(* The response, up to the lookup in signSOA.                              *)
Answer(h) ==
    LET q == query[h]
        slot == soaSigs[mods(q) \cap signatureMods]
    IN  /\ pc[h] = "answer"
        /\ \E r \in responses(q, now) :
             LET cached == signsSOA(q, r) /\ fresh(slot, now)
             IN  /\ response' = [response EXCEPT ![h] =
                                    IF cached THEN withSOASig(r, slot.sig) ELSE r]
                 /\ IF signsSOA(q, r) /\ ~cached
                    THEN goto(h, "sign") /\ started' = [started EXCEPT ![h] = now]
                    ELSE goto(h, "write") /\ UNCHANGED started
        /\ UNCHANGED <<now, query, did, soaSigs>>

(* The rest of signSOA: no recent signature in the slot.                   *)
signSOA(h) ==
    /\ pc[h] = "sign"
    /\ \E s \in sign({"SOA"}, mods(query[h]), now) :
         /\ response' = [response EXCEPT ![h] = withSOASig(@, s)]
         /\ soaSigs' = [soaSigs EXCEPT ![mods(query[h]) \cap signatureMods] =
                           [made |-> started[h], sig |-> s, full |-> TRUE]]
    /\ goto(h, "write")
    /\ UNCHANGED <<now, query, did, started>>

(* A write that fails makes ServeDNS return SERVFAIL, which the server     *)
(* (external) then sends in the answer's place.                            *)
WriteMsg(h) ==
    /\ pc[h] = "write"
    /\ \/ /\ did' = [did EXCEPT ![h] = @ \cup {"written"}]
          /\ UNCHANGED response
       \/ /\ WriteFails /\ route(query[h]) # "next"
          /\ response' = [response EXCEPT ![h] = [Empty EXCEPT !.rcode = "SERVFAIL"]]
          /\ UNCHANGED did
    /\ goto(h, "return")
    /\ UNCHANGED <<now, query, started, soaSigs>>

Return(h) ==
    /\ pc[h] = "return"
    /\ goto(h, "idle")
    /\ query' = [query EXCEPT ![h] = NoQuery]
    /\ did' = [did EXCEPT ![h] = {}]
    /\ response' = [response EXCEPT ![h] = Empty]
    /\ started' = [started EXCEPT ![h] = 0]
    /\ UNCHANGED <<now, soaSigs>>

TimePasses ==
    /\ now < MaxTime
    /\ now' = now + 1
    /\ UNCHANGED <<pc, query, did, response, started, soaSigs>>

ServeDNS(h) ==
    observeAndRecord(h) \/ Answer(h) \/ signSOA(h) \/ WriteMsg(h) \/ Return(h)

Next ==
    \/ \E h \in Handlers : ServeDNS(h) \/ \E q \in Queries : Receive(h, q)
    \/ TimePasses

Spec == Init /\ [][Next]_vars

-----------------------------------------------------------------------------
(* Properties *)

Writing(h) == pc[h] = "write"

(* Type invariant: no cached signature is from the future.                 *)
TypeOK ==
    /\ now \in Start..MaxTime
    /\ pc \in [Handlers -> {"idle", "record", "store", "answer", "sign", "write",
                             "return"}]
    /\ \A h \in Handlers : query[h] \in Query /\ response[h].answer \subseteq Types
    /\ did \in [Handlers -> SUBSET {"counted", "stored", "written"}]
    /\ started \in [Handlers -> {0} \cup Start..MaxTime]
    /\ \A k \in Slots : soaSigs[k].made <= now

(* A probe name is read in one way only: it is never both a DNS-SD or key  *)
(* tag name and a probe query, so the order in which ServeDNS tries the    *)
(* parsers does not matter; and ParseQuery(q.Sub()) is q.                  *)
OneReading ==
    \A h \in Handlers :
        LET q == ParseQuery(query[h].sub)
        IN  query[h].zone = "probe" /\ q # NotAQuery
            => /\ parseDNSSD(query[h].sub) = "none"
               /\ ParseKeyTagQuery(query[h].sub) = "no"
               /\ ParseQuery(Sub(q)) = q

(* A failure is always one the query asked for: whatever becomes of the    *)
(* store and the signer, SERVFAIL and NXDOMAIN only answer _servfail and   *)
(* _nxdomain, but for the SERVFAIL that stands for an answer that could not*)
(* be written.  And every query of a visitor, and every report, that is    *)
(* answered was counted, stored or not.                                    *)
OnlyDeliberateFailures ==
    \A h \in Handlers : pc[h] \in {"write", "return"} =>
        /\ response[h].rcode = "SERVFAIL"
            => \/ "_servfail" \in mods(query[h])
               \/ pc[h] = "return" /\ "written" \notin did[h]
        /\ response[h].rcode = "NXDOMAIN" => "_nxdomain" \in mods(query[h])
        /\ recorded(query[h]) => "counted" \in did[h]

(* The agent domain stays usable when the probe zone's signatures are not: *)
(* it is never signed, never denies a name and never invites reports about *)
(* itself, also for names that parse as neither report nor apex.           *)
AgentAlwaysAnswers ==
    \A h \in Handlers : Writing(h) /\ query[h].zone = "agent" /\ HasAgent =>
        /\ response[h].rcode = "NOERROR" /\ response[h].sigs = {}
        /\ response[h].bitmap = {} /\ ~response[h].channel
        /\ response[h].answer # {} \/ response[h].auth = {"SOA"}

(* What no validator can use: the signature covers one type and was made   *)
(* over records of two.                                                    *)
oneRRset(sig) == sig.over = {sig.covers}
anyOfInstance(q) == parseDNSSD(q.sub) = "instance" /\ q.qtype = "ANY"

(* Without DO a client gets no NSEC and no signature.  With it, every      *)
(* record type of answer and authority is covered by a signature made over *)
(* the records of that type and no others, unless the query is _unsigned,  *)
(* signing failed, or the query asks for ANY at a DNS-SD instance, where   *)
(* SRV and TXT are signed as if they were one RRset.                       *)
SignedOnRequest ==
    \A h \in Handlers : Writing(h) /\ route(query[h]) \notin {"next", "report"} =>
        LET r == response[h]
            covered == {s.covers : s \in r.sigs}
        IN  IF query[h].edns # "do" THEN r.sigs = {} /\ "NSEC" \notin r.auth
            ELSE IF ~HasSigner \/ "_unsigned" \in mods(query[h]) THEN r.sigs = {}
            ELSE /\ covered \subseteq r.answer \cup r.auth
                 /\ anyOfInstance(query[h]) \/
                       /\ \A s \in r.sigs : oneRRset(s)
                       /\ ~SignFails => covered = r.answer \cup r.auth

(* What a validator makes of a signature: RFC 4034's serial arithmetic.    *)
notAfter(a, b) == (b - a) % (2 * rrsigYear68) < rrsigYear68
verdict(sig, t) ==
    CASE ~notAfter(sig.inception, t) -> "future"
      [] ~notAfter(t, sig.expiration) /\ notAfter(sig.inception, t) -> "expired"
      [] OTHER -> IF sig.good /\ oneRRset(sig) THEN "valid" ELSE "bad"

wanted(m) ==
    CASE "_expiredsig" \in m -> "expired"
      [] "_futuresig" \in m  -> "future"
      [] "_badsig" \in m     -> "bad"
      [] OTHER               -> "valid"

(* A signature put into a response, cached or not, was made for the query's*)
(* signature modifier less than soaSigMaxAge ago: over one RRset and       *)
(* younger than half its window, it is to a validator what the modifiers   *)
(* ask for.  So a cached SOA signature is never another modifier's.        *)
SignaturesAsAsked ==
    [][\A h \in Handlers, s \in UNION {response'[g].sigs : g \in Handlers} :
         s \in response'[h].sigs \ response[h].sigs
            => /\ now - s.at < soaSigMaxAge
               /\ oneRRset(s) /\ now - s.at < Validity
                    => verdict(s, now) = wanted(mods(query[h]))]_vars

(* soaSigMaxAge's comment: a resolver that receives an old signature sees  *)
(* nothing different from a fresh one.                                     *)
CachedLooksFresh ==
    [][\A h \in Handlers, s \in UNION {response'[g].sigs : g \in Handlers} :
         s \in response'[h].sigs \ response[h].sigs => verdict(s, now) = verdict(s, s.at)]_vars

(* The race between two refreshers of a slot is benign: whichever of them  *)
(* stores last, a signature is never older than its slot says, so none is  *)
(* handed out soaSigMaxAge after it was made.                              *)
CacheNeverOlder ==
    \A k \in Slots : soaSigs[k].sig # NoSig => soaSigs[k].sig.at >= soaSigs[k].made

(* sign.go of rrsigTime: the Unix time modulo 2^32.                        *)
RRSIGTimeIsModular == rrsigTime(now) = now % (2 * rrsigYear68)

(* sign.go of signRRset: it signs one RRset.                               *)
SignsOneRRset ==
    \A h \in Handlers : \A s \in response[h].sigs : Cardinality(s.over) = 1

(* README.md of _nxdomain: a literal NXDOMAIN, signed SOA only.            *)
NXDOMAINWithSOAOnly ==
    \A h \in Handlers : response[h].rcode = "NXDOMAIN" => response[h].auth = {"SOA"}

(* errorreport.go: a report is correlated "to a visitor when the failing   *)
(* name was one of ours", that is, one whose queries are recorded under a  *)
(* token.                                                                  *)
ReportsFindTheirVisitor ==
    \A h \in Handlers :
        LET n == Len(query[h].sub)
            failing == SubSeq(query[h].sub, 3, n - 3)
        IN  /\ route(query[h]) = "report" /\ recorded(query[h])
            /\ query[h].sub[n - 2] = "ZONE"
            /\ recorded([NoQuery EXCEPT !.zone = "probe", !.sub = failing])
            => reportToken(query[h].sub) = failing[Len(failing)]

(* ede.go of _servfail: it is not labelled as a validation failure.        *)
ServfailIsNotDNSSEC ==
    \A h \in Handlers :
        response[h].rcode = "SERVFAIL" => response[h].ede \in {"none", "Other"}

=============================================================================
