------------------------- MODULE ProbeHandlerProofs -------------------------
(***************************************************************************)
(* Proofs about ProbeHandler, for any number of handlers, any queries, and *)
(* a store, a signer and a connection that may fail or not.                *)
(***************************************************************************)
EXTENDS ProbeHandler, TLAPS

RRTypes == Types \cup {"NSEC", "RRSIG"}
Rcodes == {"NOERROR", "SERVFAIL", "NXDOMAIN", "FORMERR", "REFUSED", "next"}
Causes == {"none", "SignatureExpired", "SignatureNotYetValid", "RRSIGsMissing", "DNSBogus",
           "Other"}

Signature ==
    [covers : RRTypes, over : SUBSET RRTypes, good : BOOLEAN, at : Nat, inception : Int,
     expiration : Int]

Response ==
    [rcode : Rcodes, answer : SUBSET RRTypes, extra : SUBSET RRTypes, auth : SUBSET RRTypes,
     bitmap : SUBSET RRTypes, sigs : SUBSET Signature, tc : BOOLEAN, ede : Causes,
     channel : BOOLEAN, zv : BOOLEAN]

coverings(S) == {s.covers : s \in S}
covered(r) == coverings(r.sigs)
single(types) == \E x : types = {x}

(* The signatures in r are those a query with modifiers m has a right to,  *)
(* of the record types in except at most.                                  *)
Signed(q, m, r, except) ==
    /\ q.edns # "do" => r.sigs = {} /\ "NSEC" \notin r.auth
    /\ ~HasSigner \/ "_unsigned" \in m => r.sigs = {}
    /\ covered(r) \subseteq r.answer \cup r.auth
    /\ anyOfInstance(q) \/ \A s \in r.sigs : oneRRset(s)
    /\ HasSigner /\ q.edns = "do" /\ "_unsigned" \notin m /\ ~SignFails
        => anyOfInstance(q) \/ (r.answer \cup r.auth) \ except \subseteq covered(r)

(* Every signature of r was made at time t for modifiers m.                *)
MadeAt(r, m, t) ==
    \A s \in r.sigs : \E types \in SUBSET RRTypes : types # {} /\ s = signRRset(types, m, t)

(* What a handler may go wrong in only on request.                         *)
Deliberate(q, r) ==
    /\ r.rcode = "SERVFAIL" => "_servfail" \in mods(q)
    /\ r.rcode = "NXDOMAIN" => "_nxdomain" \in mods(q)

AgentAnswer(r) ==
    /\ r.rcode = "NOERROR" /\ r.sigs = {} /\ r.bitmap = {} /\ ~r.channel
    /\ r.answer # {} \/ r.auth = {"SOA"}

(* A response to q, signed but for the types in except.                    *)
Draft(q, r, except) ==
    /\ r \in Response /\ Deliberate(q, r)
    /\ route(q) = "report" => AgentAnswer(r)
    /\ route(q) \notin {"next", "report"} => Signed(q, mods(q), r, except)

-----------------------------------------------------------------------------
(* A signature, unless there is nothing to sign or the query forbids it.   *)
LEMMA SignRRset ==
    ASSUME NEW types \in SUBSET RRTypes, NEW m, NEW t \in Nat
    PROVE  /\ signRRset(types, m, t) = NoSig <=> types = {} \/ "_unsigned" \in m
           /\ signRRset(types, m, t) # NoSig =>
                 /\ signRRset(types, m, t) \in Signature
                 /\ signRRset(types, m, t).over = types
                 /\ signRRset(types, m, t).covers \in types
                 /\ signRRset(types, m, t).at = t
<1> DEFINE s == signRRset(types, m, t)
           window == CASE "_expiredsig" \in m -> <<t - 2 * Validity, t - Validity>>
                       [] "_futuresig" \in m  -> <<t + Validity, t + 2 * Validity>>
                       [] OTHER               -> <<t - Validity, t + Validity>>
<1>1. CASE types = {} \/ "_unsigned" \in m
  BY <1>1 DEF signRRset
<1>2. CASE ~(types = {} \/ "_unsigned" \in m)
  <2>1. s = [covers |-> TypeCovered(types), over |-> types, good |-> "_badsig" \notin m,
             at |-> t, inception |-> rrsigTime(window[1]), expiration |-> rrsigTime(window[2])]
    BY <1>2 DEF signRRset
  <2>2. window[1] \in Int /\ window[2] \in Int
    BY HandlerAssumption
  <2> HIDE DEF window
  <2>3. \A u \in Int : rrsigTime(u) \in Int
    BY HandlerAssumption DEF rrsigTime
  <2>6. TypeCovered(types) \in types
    BY <1>2 DEF TypeCovered
  <2> HIDE DEF s
  <2>4. s \in Signature /\ s.over = types /\ s.covers \in types /\ s.at = t
    BY <2>1, <2>2, <2>3, <2>6 DEF Signature
  <2>5. s # NoSig
    BY <1>2, <2>4 DEF NoSig
  <2> QED BY <1>2, <2>4, <2>5 DEF s
<1> QED BY <1>1, <1>2

(* S is what sign over types gives at time t for modifiers m.              *)
SignResult(types, m, t, S) ==
    /\ S \in SUBSET Signature
    /\ ~HasSigner \/ "_unsigned" \in m => S = {}
    /\ coverings(S) \subseteq types
    /\ single(types) =>
          /\ \A x \in S : oneRRset(x)
          /\ HasSigner /\ "_unsigned" \notin m /\ ~SignFails => coverings(S) = types
    /\ \A x \in S : x = signRRset(types, m, t)

(* What sign adds to a response, whether or not signing fails.             *)
LEMMA SignsOne ==
    ASSUME NEW types \in SUBSET RRTypes, types # {}, NEW m, NEW t \in Nat,
           NEW s \in sign(types, m, t), NEW S, S = {s} \ {NoSig}
    PROVE  SignResult(types, m, t, S)
<1> DEFINE g == signRRset(types, m, t)
<1>1. /\ g = NoSig <=> "_unsigned" \in m
      /\ g # NoSig => g \in Signature /\ g.over = types /\ g.covers \in types
  BY SignRRset
<1>2. /\ s = g \/ s = NoSig
      /\ ~HasSigner => s = NoSig
      /\ HasSigner /\ ~SignFails => s = g
  BY DEF sign
<1> HIDE DEF g
<1>3. CASE s = NoSig
  <2>1. S = {} /\ coverings(S) = {}
    BY <1>3 DEF coverings
  <2> QED BY <1>1, <1>2, <1>3, <2>1 DEF SignResult
<1>4. CASE s # NoSig
  <2>1. S = {g} /\ g # NoSig
    BY <1>2, <1>4
  <2>2. coverings(S) = {g.covers}
    BY <2>1 DEF coverings
  <2>3. ASSUME single(types) PROVE types = {g.covers} /\ oneRRset(g)
    BY <1>1, <2>1, <2>3 DEF single, oneRRset
  <2> QED BY <1>1, <1>2, <1>4, <2>1, <2>2, <2>3 DEF SignResult, g
<1> QED BY <1>3, <1>4

(* An unsigned response with an answer and nothing in its authority.       *)
Plain(r) == r \in Response /\ r.sigs = {} /\ r.auth = {}

(* positive signs the answer of a client that asked, but leaves the apex   *)
(* SOA to signSOA.                                                         *)
LEMMA PositiveIsSigned ==
    ASSUME NEW q, NEW m, NEW t \in Nat, NEW r0, Plain(r0), r0.answer # {},
           single(r0.answer) \/ anyOfInstance(q), NEW r \in positive(q, m, r0, t)
    PROVE  /\ r \in Response /\ r.rcode = r0.rcode
           /\ Signed(q, m, r, {"SOA"}) /\ MadeAt(r, m, t)
<1>1. CASE q.edns = "do" /\ r0.answer # {"SOA"}
  <2>1. PICK s \in sign(r0.answer, m, t) : r = [r0 EXCEPT !.sigs = {s} \ {NoSig}]
    BY <1>1 DEF positive
  <2> DEFINE S == {s} \ {NoSig}
  <2>2. r0.answer \in SUBSET RRTypes
    BY DEF Plain, Response
  <2>3. SignResult(r0.answer, m, t, S)
    <3>1. s \in sign(r0.answer, m, t) /\ S = {s} \ {NoSig}
      BY <2>1
    <3> HIDE DEF S
    <3> QED BY <2>2, <3>1, SignsOne
  <2> HIDE DEF S
  <2>4. /\ r \in Response /\ r.rcode = r0.rcode /\ r.sigs = S
        /\ r.answer = r0.answer /\ r.auth = {}
    BY <2>1, <2>3 DEF Plain, Response, SignResult, S
  <2>5. Signed(q, m, r, {"SOA"})
    BY <1>1, <2>3, <2>4 DEF Signed, SignResult, covered
  <2>6. MadeAt(r, m, t)
    BY <2>2, <2>3, <2>4 DEF MadeAt, SignResult
  <2> QED BY <2>4, <2>5, <2>6
<1>2. CASE ~(q.edns = "do" /\ r0.answer # {"SOA"})
  <2>1. r = r0
    BY <1>2 DEF positive
  <2>2. r.sigs = {} /\ r.auth = {} /\ covered(r) = {}
    BY <2>1 DEF Plain, covered, coverings
  <2> QED BY <1>2, <2>1, <2>2 DEF Plain, Signed, MadeAt
<1> QED BY <1>1, <1>2

(* denial adds the SOA, and the NSEC with its signature for a client that  *)
(* asked.                                                                  *)
LEMMA DenialIsSigned ==
    ASSUME NEW q, NEW m, NEW bitmap \in SUBSET RRTypes, NEW t \in Nat, NEW r0, Plain(r0),
           r0.answer = {}, NEW r \in denial(q, m, bitmap, r0, t)
    PROVE  /\ r \in Response /\ r.rcode = r0.rcode
           /\ Signed(q, m, r, {"SOA"}) /\ MadeAt(r, m, t)
<1>1. CASE q.edns # "do"
  <2>1. r = [r0 EXCEPT !.auth = {"SOA"}]
    BY <1>1 DEF denial
  <2>2. /\ r \in Response /\ r.rcode = r0.rcode /\ r.sigs = {} /\ r.auth = {"SOA"}
        /\ r.answer = {}
    <3>1. {"SOA"} \in SUBSET RRTypes
      BY DEF RRTypes, Types
    <3> QED BY <2>1, <3>1 DEF Plain, Response
  <2>3. covered(r) = {}
    BY <2>2 DEF covered, coverings
  <2> QED BY <1>1, <2>2, <2>3 DEF Signed, MadeAt
<1>2. CASE q.edns = "do"
  <2>1. PICK s \in sign({"NSEC"}, m, t) :
           r = [r0 EXCEPT !.auth = {"SOA", "NSEC"}, !.bitmap = bitmap, !.sigs = {s} \ {NoSig}]
    BY Zenon, <1>2 DEF denial
  <2> DEFINE S == {s} \ {NoSig}
  <2>2. {"NSEC"} \in SUBSET RRTypes /\ {"NSEC"} # {} /\ single({"NSEC"})
    BY DEF RRTypes, single
  <2>3. SignResult({"NSEC"}, m, t, S)
    <3>1. s \in sign({"NSEC"}, m, t) /\ S = {s} \ {NoSig}
      BY <2>1
    <3> HIDE DEF S
    <3> QED BY <2>2, <3>1, SignsOne
  <2> HIDE DEF S
  <2>4. /\ r \in Response /\ r.rcode = r0.rcode /\ r.sigs = S
        /\ r.answer = {} /\ r.auth = {"SOA", "NSEC"}
    <3>1. {"SOA", "NSEC"} \in SUBSET RRTypes
      BY DEF RRTypes, Types
    <3> QED BY Zenon, <2>1, <2>3, <3>1 DEF Plain, Response, SignResult, S
  <2>5. Signed(q, m, r, {"SOA"})
    BY <1>2, <2>2, <2>3, <2>4 DEF Signed, SignResult, covered
  <2>6. MadeAt(r, m, t)
    BY <2>2, <2>3, <2>4 DEF MadeAt, SignResult
  <2> QED BY <2>4, <2>5, <2>6
<1> QED BY <1>1, <1>2

(* A response without records needs no signature. *)
LEMMA BareIsSigned ==
    ASSUME NEW q, NEW m, NEW t, NEW r, Plain(r), r.answer = {}
    PROVE  Signed(q, m, r, {"SOA"}) /\ MadeAt(r, m, t)
BY DEF Plain, Signed, MadeAt, covered, coverings

(* respond and respondDNSSD touch options only. *)
LEMMA RespondKeeps ==
    ASSUME NEW q \in Query, NEW r \in Response
    PROVE  \A x \in {respond(q, r), respondDNSSD(q, r)} :
              /\ x \in Response
              /\ x.rcode = r.rcode /\ x.answer = r.answer /\ x.auth = r.auth /\ x.sigs = r.sigs
<1>1. HasAgent \in BOOLEAN /\ q.zoneversion \in BOOLEAN
  BY HandlerAssumption DEF Query
<1>2. ASSUME NEW c \in BOOLEAN, NEW z \in BOOLEAN,
             NEW x \in {[r EXCEPT !.ede = "none"], [r EXCEPT !.channel = c, !.zv = z],
                        [r EXCEPT !.channel = c]}
      PROVE  /\ x \in Response
             /\ x.rcode = r.rcode /\ x.answer = r.answer /\ x.auth = r.auth
             /\ x.sigs = r.sigs
  BY ZenonT(60) DEF Response, Causes
<1>3. respond(q, r) \in {[r EXCEPT !.ede = "none"],
                        [r EXCEPT !.channel = HasAgent, !.zv = q.zoneversion]}
  BY DEF respond
<1>4. PICK c \in BOOLEAN : respondDNSSD(q, r) = [r EXCEPT !.channel = c]
  <2>1. (HasAgent /\ q.edns # "none") \in BOOLEAN
    OBVIOUS
  <2> QED BY <2>1, Zenon DEF respondDNSSD
<1>5. ASSUME NEW x, x = respond(q, r) \/ x = respondDNSSD(q, r)
      PROVE  /\ x \in Response
             /\ x.rcode = r.rcode /\ x.answer = r.answer /\ x.auth = r.auth
             /\ x.sigs = r.sigs
  <2>1. CASE x = respond(q, r)
    <3>1. x \in {[r EXCEPT !.ede = "none"],
                [r EXCEPT !.channel = HasAgent, !.zv = q.zoneversion],
                [r EXCEPT !.channel = HasAgent]}
      BY <1>3, <2>1
    <3> QED BY Zenon, <1>1, <1>2, <3>1
  <2>2. CASE x = respondDNSSD(q, r)
    BY Zenon, <1>2, <1>4, <2>2
  <2> QED BY <1>5, <2>1, <2>2
<1> QED BY <1>5

-----------------------------------------------------------------------------
(* A response made at t, signed as a query with modifiers m may expect but *)
(* for the SOA.                                                            *)
Made(q, m, t, r) == r \in Response /\ Signed(q, m, r, {"SOA"}) /\ MadeAt(r, m, t)

(* The options of a response do not matter to that. *)
LEMMA RespondMade ==
    ASSUME NEW q \in Query, NEW m, NEW t, NEW r, Made(q, m, t, r),
           NEW x, x = respond(q, r) \/ x = respondDNSSD(q, r)
    PROVE  Made(q, m, t, x) /\ x.rcode = r.rcode
<1>1. r \in Response
  BY DEF Made
<1>2. /\ x \in Response
      /\ x.rcode = r.rcode /\ x.answer = r.answer /\ x.auth = r.auth /\ x.sigs = r.sigs
  BY <1>1, RespondKeeps
<1>3. Signed(q, m, x, {"SOA"})
  BY <1>2 DEF Made, Signed, covered
<1>4. MadeAt(x, m, t)
  BY <1>2 DEF Made, MadeAt
<1> QED BY <1>2, <1>3, <1>4 DEF Made

(* A response begins without records. *)
LEMMA EmptyIsPlain == Plain(Empty) /\ Empty.answer = {} /\ Empty.rcode = "NOERROR"
BY DEF Plain, Empty, Response, Rcodes, Causes

(* nodataDenial and compactDenial, of any response without an answer. *)
LEMMA DenialMade ==
    ASSUME NEW q, NEW m, NEW t \in Nat, NEW r0, Plain(r0), r0.answer = {},
           NEW r \in nodataDenial(q, m, r0, t) \cup compactDenial(q, m, r0, t)
    PROVE  Made(q, m, t, r) /\ r.rcode = r0.rcode
<1>1. {"RRSIG", "NSEC"} \in SUBSET RRTypes /\ {"RRSIG", "NSEC", "NXNAME"} \in SUBSET RRTypes
  BY DEF RRTypes, Types
<1>2. CASE r \in nodataDenial(q, m, r0, t)
  BY <1>1, <1>2, DenialIsSigned DEF nodataDenial, Made
<1>3. CASE r \in compactDenial(q, m, r0, t)
  BY <1>1, <1>3, DenialIsSigned DEF compactDenial, Made
<1> QED BY <1>2, <1>3

(* respondForQuery fails only as the modifiers say. *)
LEMMA QueryMade ==
    ASSUME NEW q \in Query, NEW m, NEW t \in Nat, NEW r \in respondForQuery(q, m, t)
    PROVE  /\ Made(q, m, t, r)
           /\ r.rcode = "SERVFAIL" => "_servfail" \in m
           /\ r.rcode = "NXDOMAIN" => "_nxdomain" \in m
<1> DEFINE r0 == [Empty EXCEPT !.answer = synthesize(q), !.ede = edeFor(m)]
<1>1. edeFor(m) \in Causes
  BY DEF edeFor, Causes
<1>2. synthesize(q) \in SUBSET RRTypes /\ (synthesize(q) # {} => single(synthesize(q)))
  BY DEF synthesize, RRTypes, Types, single
<1>3. Plain(r0) /\ r0.answer = synthesize(q) /\ r0.rcode = "NOERROR"
  BY Zenon, <1>1, <1>2 DEF Plain, Empty, Response, Rcodes
<1> HIDE DEF r0
<1>4. CASE "_servfail" \in m /\ r = [Empty EXCEPT !.rcode = "SERVFAIL", !.ede = edeFor(m)]
  <2>1. Plain(r) /\ r.answer = {} /\ r.rcode = "SERVFAIL"
    BY Zenon, <1>1, <1>4 DEF Plain, Empty, Response, Rcodes
  <2> QED BY Zenon, <1>4, <2>1, BareIsSigned DEF Made, Plain
<1>5. CASE "_nxdomain" \in m /\ r \in nodataDenial(q, m, [Empty EXCEPT !.rcode = "NXDOMAIN"], t)
  <2> DEFINE d == [Empty EXCEPT !.rcode = "NXDOMAIN"]
  <2>1. Plain(d) /\ d.answer = {} /\ d.rcode = "NXDOMAIN"
    BY Zenon DEF Plain, Empty, Response, Rcodes, Causes
  <2>2. r \in nodataDenial(q, m, d, t)
    BY <1>5
  <2> HIDE DEF d
  <2>3. Made(q, m, t, r) /\ r.rcode = d.rcode
    BY <2>1, <2>2, DenialMade
  <2> QED BY <1>5, <2>1, <2>3
<1>6. CASE r \in compactDenial(q, m, Empty, t)
  <2>1. Made(q, m, t, r) /\ r.rcode = Empty.rcode
    BY <1>6, DenialMade, EmptyIsPlain
  <2> QED BY <2>1, EmptyIsPlain
<1>7. CASE r = [Empty EXCEPT !.tc = TRUE]
  <2>1. Plain(r) /\ r.answer = {} /\ r.rcode = "NOERROR"
    BY Zenon, <1>7 DEF Plain, Empty, Response, Rcodes, Causes
  <2> QED BY <2>1, BareIsSigned DEF Made, Plain
<1>8. CASE r0.answer = {} /\ r \in nodataDenial(q, m, r0, t)
  BY <1>3, <1>8, DenialMade
<1>9. CASE r0.answer # {} /\ r \in positive(q, m, r0, t)
  <2>1. /\ r \in Response /\ r.rcode = r0.rcode
        /\ Signed(q, m, r, {"SOA"}) /\ MadeAt(r, m, t)
    BY Zenon, <1>2, <1>3, <1>9, PositiveIsSigned
  <2> QED BY <1>3, <2>1 DEF Made
<1> QED BY <1>4, <1>5, <1>6, <1>7, <1>8, <1>9 DEF respondForQuery, r0

(* serveApex never fails. *)
LEMMA ApexMade ==
    ASSUME NEW q \in Query, NEW t \in Nat, NEW r \in serveApex(q, t)
    PROVE  Made(q, {}, t, r) /\ r.rcode = "NOERROR"
<1> DEFINE r0 == [Empty EXCEPT !.answer = apex(q.qtype)]
<1>1. apex(q.qtype) \in SUBSET RRTypes /\ (apex(q.qtype) # {} => single(apex(q.qtype)))
  <2>1. apex(q.qtype) \subseteq {q.qtype}
    BY DEF apex
  <2> QED BY <2>1 DEF apex, RRTypes, Types, single
<1>2. Plain(r0) /\ r0.rcode = "NOERROR" /\ r0.answer = apex(q.qtype)
  BY Zenon, <1>1 DEF Plain, Empty, Response, Rcodes, Causes
<1>3. \/ r0.answer = {} /\ r \in nodataDenial(q, {}, r0, t)
      \/ r0.answer # {} /\ r \in positive(q, {}, r0, t)
  BY DEF serveApex
<1> HIDE DEF r0
<1>4. CASE r0.answer = {} /\ r \in nodataDenial(q, {}, r0, t)
  <2>1. Made(q, {}, t, r) /\ r.rcode = r0.rcode
    BY <1>2, <1>4, DenialMade
  <2> QED BY <1>2, <2>1
<1>5. CASE r0.answer # {} /\ r \in positive(q, {}, r0, t)
  <2>1. /\ r \in Response /\ r.rcode = r0.rcode
        /\ Signed(q, {}, r, {"SOA"}) /\ MadeAt(r, {}, t)
    BY <1>1, <1>2, <1>5, PositiveIsSigned
  <2> QED BY <1>2, <2>1 DEF Made
<1> QED BY <1>3, <1>4, <1>5

(* serveDNSSD never fails, and its answers are signed like any other. *)
LEMMA DNSSDMade ==
    ASSUME NEW q \in Query, NEW t \in Nat, NEW r \in serveDNSSD(q, t)
    PROVE  Made(q, {}, t, r) /\ r.rcode = "NOERROR"
<1> DEFINE kind == parseDNSSD(q.sub)
           a == synthesizeDNSSD(kind, q.qtype)
           x == IF kind = "enumerate" THEN {"SRV", "TXT"} ELSE {}
           r0 == [Empty EXCEPT !.answer = a, !.extra = x]
<1>0. a \in SUBSET RRTypes /\ x \in SUBSET RRTypes
  BY DEF synthesizeDNSSD, RRTypes, Types
<1>5. a # {} => single(a) \/ anyOfInstance(q)
  BY DEF synthesizeDNSSD, single, anyOfInstance
<1>1. \/ \E d \in nodataDenial(q, {}, Empty, t) : r = respond(q, d)
      \/ r0.answer # {} /\ \E d \in positive(q, {}, r0, t) : r = respondDNSSD(q, d)
  BY DEF serveDNSSD
<1> HIDE DEF a, x
<1>2. Plain(r0) /\ r0.rcode = "NOERROR" /\ r0.answer = a
  BY Zenon, <1>0 DEF Plain, Empty, Response, Rcodes, Causes
<1> HIDE DEF r0
<1>3. CASE \E d \in nodataDenial(q, {}, Empty, t) : r = respond(q, d)
  <2>1. PICK d \in nodataDenial(q, {}, Empty, t) : r = respond(q, d)
    BY <1>3
  <2>2. Made(q, {}, t, d) /\ d.rcode = "NOERROR"
    BY <2>1, DenialMade, EmptyIsPlain
  <2> QED BY <2>1, <2>2, RespondMade
<1>4. CASE r0.answer # {} /\ \E d \in positive(q, {}, r0, t) : r = respondDNSSD(q, d)
  <2>1. PICK d \in positive(q, {}, r0, t) : r = respondDNSSD(q, d)
    BY <1>4
  <2>2. /\ d \in Response /\ d.rcode = r0.rcode
        /\ Signed(q, {}, d, {"SOA"}) /\ MadeAt(d, {}, t)
    BY <1>2, <1>4, <1>5, <2>1, PositiveIsSigned
  <2>3. Made(q, {}, t, d) /\ d.rcode = "NOERROR"
    BY <1>2, <2>2 DEF Made
  <2> QED BY <2>1, <2>3, RespondMade
<1> QED BY <1>1, <1>3, <1>4

(* serveReport answers every name, and signs nothing. *)
LEMMA ReportAnswers ==
    ASSUME NEW q \in Query
    PROVE  serveReport(q) \in Response /\ AgentAnswer(serveReport(q))
<1>1. ASSUME NEW a \in SUBSET RRTypes
      PROVE  respondAgent(a) \in Response /\ AgentAnswer(respondAgent(a))
  <2>1. {"SOA"} \in SUBSET RRTypes
    BY DEF RRTypes, Types
  <2> QED BY Zenon, <2>1 DEF respondAgent, AgentAnswer, Empty, Response, Rcodes, Causes
<1>2. \E a \in SUBSET RRTypes : serveReport(q) = respondAgent(a)
  <2>1. /\ {q.qtype} \cap {"SOA", "NS"} \in SUBSET RRTypes /\ {"TXT"} \in SUBSET RRTypes
        /\ {} \in SUBSET RRTypes
    BY DEF RRTypes, Types
  <2> QED BY <2>1 DEF serveReport
<1> QED BY <1>1, <1>2

(* Whatever the route: the response before the SOA is signed. *)
LEMMA ResponsesAreDrafts ==
    ASSUME NEW q \in Query, NEW t \in Nat, NEW r \in responses(q, t)
    PROVE  /\ Draft(q, r, {"SOA"})
           /\ route(q) \in {"next", "report"} => r.sigs = {}
           /\ MadeAt(r, mods(q), t)
<1> DEFINE Fine == Made(q, mods(q), t, r) /\ Deliberate(q, r)
<1>1. route(q) \in {"next", "report", "formerr", "refused", "apex", "dnssd", "keytag", "query"}
  BY DEF route
<1>2. route(q) # "query" => mods(q) = {}
  BY DEF mods
<1>3. CASE route(q) = "next"
  <2>1. r = [Empty EXCEPT !.rcode = "next"]
    BY <1>3 DEF responses
  <2>2. r \in Response /\ r.rcode = "next" /\ r.sigs = {}
    BY Zenon, <2>1 DEF Empty, Response, Rcodes, Causes
  <2> QED BY <1>3, <2>2 DEF Draft, Deliberate, MadeAt
<1>4. CASE route(q) = "report"
  <2>1. r = serveReport(q)
    BY <1>4 DEF responses
  <2>2. r \in Response /\ AgentAnswer(r)
    BY <2>1, ReportAnswers
  <2> QED BY <1>4, <2>2 DEF Draft, Deliberate, MadeAt, AgentAnswer
<1>5. ASSUME NEW c \in {"FORMERR", "REFUSED"}, r = respond(q, [Empty EXCEPT !.rcode = c])
      PROVE  Fine
  <2> DEFINE d == [Empty EXCEPT !.rcode = c]
  <2>1. Plain(d) /\ d.answer = {} /\ d.rcode = c
    BY Zenon DEF Plain, Empty, Response, Rcodes, Causes
  <2>2. r = respond(q, d)
    BY <1>5
  <2> HIDE DEF d
  <2>3. Made(q, mods(q), t, d)
    BY <2>1, BareIsSigned DEF Made, Plain
  <2>4. Made(q, mods(q), t, r) /\ r.rcode = d.rcode
    BY <2>2, <2>3, RespondMade
  <2> QED BY <2>1, <2>4 DEF Deliberate
<1>6. ASSUME route(q) \in {"formerr", "refused"} PROVE Fine
  BY <1>5, <1>6 DEF responses
<1>7. ASSUME route(q) = "apex" PROVE Fine
  <2>1. PICK d \in serveApex(q, t) : r = respond(q, d)
    BY <1>7 DEF responses
  <2>2. Made(q, {}, t, d) /\ d.rcode = "NOERROR"
    BY <2>1, ApexMade
  <2>3. Made(q, {}, t, r) /\ r.rcode = d.rcode
    BY <2>1, <2>2, RespondMade
  <2> QED BY <1>2, <1>7, <2>2, <2>3 DEF Deliberate
<1>8. ASSUME route(q) = "dnssd" PROVE Fine
  <2>1. r \in serveDNSSD(q, t)
    BY <1>8 DEF responses
  <2>2. Made(q, {}, t, r) /\ r.rcode = "NOERROR"
    BY <2>1, DNSSDMade
  <2> QED BY <1>2, <1>8, <2>2 DEF Deliberate
<1>9. ASSUME route(q) = "keytag" PROVE Fine
  <2>1. PICK d \in nodataDenial(q, {}, Empty, t) : r = respond(q, d)
    BY <1>9 DEF responses
  <2>2. Made(q, {}, t, d) /\ d.rcode = "NOERROR"
    BY <2>1, DenialMade, EmptyIsPlain
  <2>3. Made(q, {}, t, r) /\ r.rcode = d.rcode
    BY <2>1, <2>2, RespondMade
  <2> QED BY <1>2, <1>9, <2>2, <2>3 DEF Deliberate
<1>10. ASSUME route(q) = "query" PROVE Fine
  <2>1. PICK d \in respondForQuery(q, mods(q), t) : r = respond(q, d)
    BY <1>10 DEF responses
  <2>2. /\ Made(q, mods(q), t, d)
        /\ d.rcode = "SERVFAIL" => "_servfail" \in mods(q)
        /\ d.rcode = "NXDOMAIN" => "_nxdomain" \in mods(q)
    BY <2>1, QueryMade
  <2>3. Made(q, mods(q), t, r) /\ r.rcode = d.rcode
    BY <2>1, <2>2, RespondMade
  <2> QED BY <2>2, <2>3 DEF Deliberate
<1>11. ASSUME Fine, route(q) \notin {"next", "report"}
       PROVE  /\ Draft(q, r, {"SOA"})
              /\ route(q) \in {"next", "report"} => r.sigs = {}
              /\ MadeAt(r, mods(q), t)
  BY <1>11 DEF Draft, Made
<1> HIDE DEF Fine
<1> QED BY <1>1, <1>3, <1>4, <1>6, <1>7, <1>8, <1>9, <1>10, <1>11

-----------------------------------------------------------------------------
(* A query has at most one signature modifier (Validate), so one slot.     *)
LEMMA OneSlot == ASSUME NEW q PROVE mods(q) \cap signatureMods \in Slots
<1> DEFINE S == mods(q) \cap signatureMods
<1>1. CASE mods(q) = {}
  BY <1>1 DEF Slots
<1>2. CASE mods(q) # {}
  <2>1. Validate(mods(q))
    BY <1>2 DEF mods, ParseQuery, NotAQuery
  <2>2. \A a, b \in S : a = b
    BY <2>1 DEF Validate, conflicts
  <2>4. S \subseteq signatureMods
    OBVIOUS
  <2> HIDE DEF S
  <2>7. S = {} \/ \E x : S = {x}
    BY <2>2
  <2>8. S \in Slots
    BY <2>4, <2>7 DEF Slots
  <2> QED BY <2>8 DEF S
<1> QED BY <1>1, <1>2

(* A signature depends on the signature modifiers only. *)
LEMMA SlotDecides ==
    ASSUME NEW types, NEW m, NEW t
    PROVE  /\ signRRset(types, m, t) = signRRset(types, m \cap signatureMods, t)
           /\ "_unsigned" \in m <=> "_unsigned" \in m \cap signatureMods
<1>1. \A x \in signatureMods : x \in m <=> x \in m \cap signatureMods
  OBVIOUS
<1>2. {"_unsigned", "_badsig", "_expiredsig", "_futuresig"} \subseteq signatureMods
  BY DEF signatureMods
<1>3. /\ "_unsigned" \in m <=> "_unsigned" \in m \cap signatureMods
      /\ "_badsig" \in m <=> "_badsig" \in m \cap signatureMods
      /\ "_expiredsig" \in m <=> "_expiredsig" \in m \cap signatureMods
      /\ "_futuresig" \in m <=> "_futuresig" \in m \cap signatureMods
  BY <1>1, <1>2
<1> QED BY <1>3 DEF signRRset

(* Signing the SOA completes the response of a query that needs it.        *)
LEMMA SOACompletes ==
    ASSUME NEW q \in Query, NEW r, Draft(q, r, {"SOA"}), signsSOA(q, r),
           NEW s \in Signature \cup {NoSig},
           s # NoSig => s.covers = "SOA" /\ s.over = {"SOA"},
           "_unsigned" \in mods(q) => s = NoSig,
           "_unsigned" \notin mods(q) /\ ~SignFails => s # NoSig
    PROVE  Draft(q, withSOASig(r, s), {})
<1> DEFINE w == withSOASig(r, s)
           S == {s} \ {NoSig}
<1>1. r \in Response /\ Deliberate(q, r)
  BY DEF Draft
<1>2. route(q) \notin {"next", "report"} /\ HasSigner /\ q.edns = "do"
      /\ "SOA" \in r.answer \cup r.auth
  BY DEF signsSOA, route
<1>3. Signed(q, mods(q), r, {"SOA"})
  BY <1>2 DEF Draft
<1>4. S \in SUBSET Signature
  OBVIOUS
<1>5. /\ w \in Response /\ w.sigs = r.sigs \cup S
      /\ w.rcode = r.rcode /\ w.answer = r.answer /\ w.auth = r.auth
  BY <1>1, <1>4 DEF withSOASig, Response
<1>6. covered(w) = covered(r) \cup coverings(S)
  BY <1>5 DEF covered, coverings
<1>7. /\ coverings(S) \subseteq {"SOA"} /\ ("_unsigned" \in mods(q) => S = {})
      /\ \A x \in S : oneRRset(x)
      /\ "_unsigned" \notin mods(q) /\ ~SignFails => coverings(S) = {"SOA"}
  BY DEF coverings, oneRRset
<1> HIDE DEF w, S
<1>8. Signed(q, mods(q), w, {})
  BY <1>2, <1>3, <1>5, <1>6, <1>7 DEF Signed
<1>9. Deliberate(q, w)
  BY <1>1, <1>5 DEF Deliberate
<1> QED BY <1>2, <1>5, <1>8, <1>9 DEF Draft, w

(* A response without SOA, or to a client that asked for no signatures, is *)
(* complete as it is.                                                      *)
LEMMA NoSOANeeded ==
    ASSUME NEW q \in Query, NEW r, Draft(q, r, {"SOA"}), ~signsSOA(q, r)
    PROVE  Draft(q, r, {})
<1>1. route(q) \notin {"next", "report"} => q.zone = "probe"
  BY DEF route
<1>2. ASSUME route(q) \notin {"next", "report"}
      PROVE  Signed(q, mods(q), r, {})
  <2>1. Signed(q, mods(q), r, {"SOA"})
    BY <1>2 DEF Draft
  <2>2. HasSigner /\ q.edns = "do" => "SOA" \notin r.answer \cup r.auth
    BY <1>1, <1>2 DEF signsSOA
  <2> QED BY <2>1, <2>2 DEF Signed
<1> QED BY <1>2 DEF Draft

-----------------------------------------------------------------------------
Labels == {"idle", "record", "store", "answer", "sign", "write", "return"}
Done == {"counted", "stored", "written"}
Slot == [made : Nat, sig : Signature \cup {NoSig}, full : BOOLEAN]

(* A slot of the cache holds its own modifier's signature, made between    *)
(* the time the slot says and t; none only where none is to be had.        *)
SlotOK(k, slot, t) ==
    /\ slot \in Slot
    /\ slot.sig # NoSig =>
          /\ slot.sig.at \in Nat /\ Start <= slot.sig.at
          /\ slot.made <= slot.sig.at /\ slot.sig.at <= t
          /\ slot.sig = signRRset({"SOA"}, k, slot.sig.at)
    /\ slot.full /\ "_unsigned" \notin k /\ ~SignFails => slot.sig # NoSig

HandlerOK(h) ==
    /\ pc[h] = "sign" =>
          signsSOA(query[h], response[h]) /\ Draft(query[h], response[h], {"SOA"})
    /\ pc[h] = "write" => Draft(query[h], response[h], {})
    /\ pc[h] = "return" =>
          \/ Deliberate(query[h], response[h])
          \/ "written" \notin did[h] /\ response[h].rcode = "SERVFAIL"
    /\ recorded(query[h]) /\ pc[h] \notin {"idle", "record"} => "counted" \in did[h]
    /\ "written" \in did[h] => pc[h] = "return"
    /\ started[h] <= now

(* The inductive invariant.                                                *)
HandlerInv ==
    /\ now \in Nat /\ now >= Start /\ now <= MaxTime
    /\ pc \in [Handlers -> Labels] /\ query \in [Handlers -> Query]
    /\ did \in [Handlers -> SUBSET Done]
    /\ response \in [Handlers -> Response] /\ started \in [Handlers -> Nat]
    /\ soaSigs \in [Slots -> Slot]
    /\ \A h \in Handlers : HandlerOK(h)
    /\ \A k \in Slots : SlotOK(k, soaSigs[k], now)

(* Handlers do not disturb one another, and time does not. *)
LEMMA HandlerFrame ==
    ASSUME NEW g \in Handlers, HandlerOK(g), now \in Nat, now' \in Nat, now' >= now,
           started[g] \in Nat, pc'[g] = pc[g], query'[g] = query[g], did'[g] = did[g],
           response'[g] = response[g], started'[g] = started[g]
    PROVE  HandlerOK(g)'
BY DEF HandlerOK

(* The handlers begin idle and the cache empty. *)
LEMMA InitEstablishes == Init => HandlerInv
<1> SUFFICES ASSUME Init PROVE HandlerInv
  OBVIOUS
<1>1. now \in Nat /\ now >= Start /\ now <= MaxTime
  BY HandlerAssumption DEF Init
<1>2. NoQuery \in Query
  BY DEF NoQuery, Query, Types
<1>3. Empty \in Response
  BY EmptyIsPlain DEF Plain
<1>4. /\ pc \in [Handlers -> Labels] /\ query \in [Handlers -> Query]
      /\ did \in [Handlers -> SUBSET Done]
      /\ response \in [Handlers -> Response] /\ started \in [Handlers -> Nat]
  BY <1>2, <1>3 DEF Init, Labels
<1>5. NoSlot \in Slot /\ NoSlot.sig = NoSig /\ NoSlot.full = FALSE
  BY DEF NoSlot, Slot
<1>6. soaSigs \in [Slots -> Slot] /\ \A k \in Slots : soaSigs[k] = NoSlot
  BY <1>5 DEF Init
<1>7. \A k \in Slots : SlotOK(k, soaSigs[k], now)
  BY <1>5, <1>6 DEF SlotOK
<1>8. \A h \in Handlers : HandlerOK(h)
  BY <1>1 DEF Init, HandlerOK
<1> QED BY <1>1, <1>4, <1>6, <1>7, <1>8 DEF HandlerInv

(* A handler takes a query: one to be recorded is not counted yet. *)
LEMMA ReceiveKeeps ==
    ASSUME HandlerInv, NEW h \in Handlers, NEW q \in Queries, Receive(h, q)
    PROVE  HandlerInv'
<1> DEFINE l == IF recorded(q) THEN "record" ELSE "answer"
<1>1. /\ query' = [query EXCEPT ![h] = q] /\ pc[h] = "idle" /\ pc' = [pc EXCEPT ![h] = l]
      /\ now' = now /\ did' = did /\ response' = response /\ started' = started
      /\ soaSigs' = soaSigs
  BY DEF Receive, goto
<1>2. l \in Labels /\ l \notin {"sign", "write", "return"} /\ (recorded(q) => l = "record")
  BY DEF Labels
<1>3. q \in Query
  BY QueriesAssumption
<1> HIDE DEF l
<1>4. pc' \in [Handlers -> Labels] /\ query' \in [Handlers -> Query]
  BY <1>1, <1>2, <1>3 DEF HandlerInv
<1>5. pc'[h] = l /\ query'[h] = q
  BY <1>1 DEF HandlerInv
<1>6. ASSUME NEW g \in Handlers PROVE HandlerOK(g)'
  <2>1. CASE g = h
    BY <1>1, <1>2, <1>5, <2>1 DEF HandlerInv, HandlerOK
  <2>2. CASE g # h
    BY <1>1, <2>2, HandlerFrame DEF HandlerInv
  <2> QED BY <2>1, <2>2
<1> QED BY <1>1, <1>4, <1>6 DEF HandlerInv

(* observeAndRecord counts first, and a full or unreachable store changes  *)
(* nothing for the query.                                                  *)
LEMMA RecordKeeps ==
    ASSUME HandlerInv, NEW h \in Handlers, observeAndRecord(h)
    PROVE  HandlerInv'
<1>1. /\ now' = now /\ query' = query /\ response' = response /\ started' = started
      /\ soaSigs' = soaSigs
  BY DEF observeAndRecord
<1>2. PICK l \in {"store", "answer"}, x \in {{}, {"counted"}, {"stored"}} :
        /\ pc' = [pc EXCEPT ![h] = l] /\ did' = [did EXCEPT ![h] = @ \cup x]
        /\ IF x = {"counted"} THEN pc[h] = "record" ELSE pc[h] = "store"
  <2>1. CASE pc[h] = "record"
    <3>1. pc' = [pc EXCEPT ![h] = "store"] /\ did' = [did EXCEPT ![h] = @ \cup {"counted"}]
      BY <2>1 DEF observeAndRecord, goto
    <3> QED BY <2>1, <3>1
  <2>2. CASE pc[h] # "record"
    <3>1. /\ pc[h] = "store" /\ pc' = [pc EXCEPT ![h] = "answer"]
          /\ did' = [did EXCEPT ![h] = @ \cup {"stored"}] \/ did' = did
      BY <2>2 DEF observeAndRecord, goto
    <3>2. did' = did => did' = [did EXCEPT ![h] = @ \cup {}]
      BY DEF HandlerInv
    <3>3. {} # {"counted"} /\ {"stored"} # {"counted"}
      OBVIOUS
    <3> QED BY Zenon, <3>1, <3>2, <3>3
  <2> QED BY <2>1, <2>2
<1>3. /\ pc' \in [Handlers -> Labels] /\ pc'[h] = l
      /\ did' \in [Handlers -> SUBSET Done] /\ did'[h] = did[h] \cup x
  BY <1>2 DEF HandlerInv, Labels, Done
<1>4. /\ recorded(query[h]) => "counted" \in did'[h]
      /\ "written" \notin did'[h] /\ started[h] <= now
  BY <1>2, <1>3 DEF HandlerInv, HandlerOK
<1>5. ASSUME NEW g \in Handlers PROVE HandlerOK(g)'
  <2>1. CASE g = h
    BY <1>1, <1>2, <1>3, <1>4, <2>1 DEF HandlerOK
  <2>2. CASE g # h
    BY <1>1, <1>2, <2>2, HandlerFrame DEF HandlerInv
  <2> QED BY <2>1, <2>2
<1> QED BY <1>1, <1>3, <1>5 DEF HandlerInv

(* WriteMsg sends what Answer and signSOA made, or leaves a SERVFAIL to the*)
(* server.                                                                 *)
LEMMA WriteKeeps ==
    ASSUME HandlerInv, NEW h \in Handlers, WriteMsg(h)
    PROVE  HandlerInv'
<1> DEFINE lost == [Empty EXCEPT !.rcode = "SERVFAIL"]
<1>1. /\ pc[h] = "write" /\ pc' = [pc EXCEPT ![h] = "return"]
      /\ now' = now /\ query' = query /\ started' = started /\ soaSigs' = soaSigs
  BY DEF WriteMsg, goto
<1>2. \/ did' = [did EXCEPT ![h] = @ \cup {"written"}] /\ response' = response
      \/ did' = did /\ response' = [response EXCEPT ![h] = lost]
  BY Zenon DEF WriteMsg
<1>3. lost \in Response /\ lost.rcode = "SERVFAIL"
  BY Zenon DEF Empty, Response, Rcodes, Causes
<1> HIDE DEF lost
<1>4. /\ pc' \in [Handlers -> Labels] /\ pc'[h] = "return"
      /\ did' \in [Handlers -> SUBSET Done] /\ response' \in [Handlers -> Response]
      /\ \A g \in Handlers \ {h} : /\ pc'[g] = pc[g] /\ did'[g] = did[g]
                                    /\ response'[g] = response[g]
  BY <1>1, <1>2, <1>3 DEF HandlerInv, Labels, Done
<1>5. \/ response'[h] = response[h]
      \/ did'[h] = did[h] /\ response'[h] = lost
  BY <1>2 DEF HandlerInv
<1>6. /\ Deliberate(query[h], response[h]) /\ started[h] <= now
      /\ "written" \notin did[h] /\ (recorded(query[h]) => "counted" \in did[h])
  BY <1>1 DEF HandlerInv, HandlerOK, Draft
<1>7. did[h] \subseteq did'[h]
  BY <1>2 DEF HandlerInv
<1>8. ASSUME NEW g \in Handlers PROVE HandlerOK(g)'
  <2>1. CASE g = h
    BY <1>1, <1>3, <1>4, <1>5, <1>6, <1>7, <2>1 DEF HandlerOK
  <2>2. CASE g # h
    BY <1>1, <1>4, <2>2, HandlerFrame DEF HandlerInv
  <2> QED BY <2>1, <2>2
<1> QED BY <1>1, <1>4, <1>8 DEF HandlerInv

(* ServeDNS returns, and the handler is as good as new. *)
LEMMA ReturnKeeps ==
    ASSUME HandlerInv, NEW h \in Handlers, Return(h)
    PROVE  HandlerInv'
<1>1. /\ pc' = [pc EXCEPT ![h] = "idle"] /\ query' = [query EXCEPT ![h] = NoQuery]
      /\ did' = [did EXCEPT ![h] = {}] /\ response' = [response EXCEPT ![h] = Empty]
      /\ started' = [started EXCEPT ![h] = 0] /\ now' = now /\ soaSigs' = soaSigs
  BY DEF Return, goto
<1>2. NoQuery \in Query
  BY DEF NoQuery, Query, Types
<1>3. Empty \in Response
  BY EmptyIsPlain DEF Plain
<1>4. /\ pc' \in [Handlers -> Labels] /\ query' \in [Handlers -> Query]
      /\ did' \in [Handlers -> SUBSET Done]
      /\ response' \in [Handlers -> Response] /\ started' \in [Handlers -> Nat]
  BY <1>1, <1>2, <1>3 DEF HandlerInv, Labels
<1>5. pc'[h] = "idle" /\ did'[h] = {} /\ started'[h] = 0
  BY <1>1 DEF HandlerInv
<1>6. ASSUME NEW g \in Handlers PROVE HandlerOK(g)'
  <2>1. CASE g = h
    BY <1>1, <1>5, <2>1 DEF HandlerInv, HandlerOK
  <2>2. CASE g # h
    BY <1>1, <2>2, HandlerFrame DEF HandlerInv
  <2> QED BY <2>1, <2>2
<1> QED BY <1>1, <1>4, <1>6 DEF HandlerInv

(* What Answer does: it completes the response, from the cache if it can,  *)
(* or leaves the SOA to signSOA.                                           *)
LEMMA AnswerParts ==
    ASSUME HandlerInv, NEW h \in Handlers, Answer(h)
    PROVE  \E r \in responses(query[h], now), l \in {"sign", "write"} :
              LET q == query[h]
                  slot == soaSigs[mods(q) \cap signatureMods]
                  w == IF l = "write" /\ signsSOA(q, r) THEN withSOASig(r, slot.sig) ELSE r
              IN  /\ response' = [response EXCEPT ![h] = w] /\ pc' = [pc EXCEPT ![h] = l]
                  /\ l = "write" /\ signsSOA(q, r) => fresh(slot, now)
                  /\ l = "sign" => signsSOA(q, r) /\ started' = [started EXCEPT ![h] = now]
                  /\ l = "write" => started' = started
                  /\ now' = now /\ query' = query /\ did' = did /\ soaSigs' = soaSigs
<1> DEFINE q == query[h]
           slot == soaSigs[mods(q) \cap signatureMods]
<1>1. PICK r \in responses(q, now) :
        LET cached == signsSOA(q, r) /\ fresh(slot, now)
        IN  /\ response' = [response EXCEPT ![h] =
                               IF cached THEN withSOASig(r, slot.sig) ELSE r]
            /\ IF signsSOA(q, r) /\ ~cached
               THEN goto(h, "sign") /\ started' = [started EXCEPT ![h] = now]
               ELSE goto(h, "write") /\ UNCHANGED started
  BY Zenon DEF Answer
<1>2. now' = now /\ query' = query /\ did' = did /\ soaSigs' = soaSigs
  BY DEF Answer
<1>3. CASE signsSOA(q, r) /\ ~fresh(slot, now)
  <2>1. /\ response' = [response EXCEPT ![h] = r] /\ pc' = [pc EXCEPT ![h] = "sign"]
        /\ started' = [started EXCEPT ![h] = now]
    BY <1>1, <1>3 DEF goto
  <2> QED BY ZenonT(60), <1>1, <1>2, <1>3, <2>1
<1>4. CASE ~signsSOA(q, r)
  <2>1. /\ response' = [response EXCEPT ![h] = r] /\ pc' = [pc EXCEPT ![h] = "write"]
        /\ started' = started
    BY <1>1, <1>4 DEF goto
  <2> QED BY ZenonT(60), <1>1, <1>2, <1>4, <2>1
<1>5. CASE signsSOA(q, r) /\ fresh(slot, now)
  <2>1. /\ response' = [response EXCEPT ![h] = withSOASig(r, slot.sig)]
        /\ pc' = [pc EXCEPT ![h] = "write"] /\ started' = started
    BY <1>1, <1>5 DEF goto
  <2> QED BY Zenon, <1>1, <1>2, <1>5, <2>1
<1> QED BY <1>3, <1>4, <1>5

(* The cached signature of a query's slot completes its response.          *)
LEMMA CachedCompletes ==
    ASSUME NEW q \in Query, NEW r, Draft(q, r, {"SOA"}), signsSOA(q, r), NEW t,
           NEW slot, SlotOK(mods(q) \cap signatureMods, slot, t), slot.full
    PROVE  Draft(q, withSOASig(r, slot.sig), {})
<1> DEFINE k == mods(q) \cap signatureMods
           s == slot.sig
<1>1. s \in Signature \cup {NoSig}
  BY DEF SlotOK, Slot
<1>2. "_unsigned" \in mods(q) <=> "_unsigned" \in k
  BY SlotDecides
<1>3. {"SOA"} \in SUBSET RRTypes
  BY DEF RRTypes, Types
<1>4. s # NoSig => s.at \in Nat /\ s = signRRset({"SOA"}, k, s.at)
  BY DEF SlotOK
<1>5. "_unsigned" \notin k /\ ~SignFails => s # NoSig
  BY DEF SlotOK
<1> HIDE DEF k, s
<1>6. ASSUME s # NoSig
      PROVE  s.covers = "SOA" /\ s.over = {"SOA"} /\ "_unsigned" \notin k
  <2>1. s.at \in Nat /\ s = signRRset({"SOA"}, k, s.at)
    BY <1>4, <1>6
  <2>2. /\ signRRset({"SOA"}, k, s.at) # NoSig => "_unsigned" \notin k
        /\ signRRset({"SOA"}, k, s.at) # NoSig =>
              /\ signRRset({"SOA"}, k, s.at).over = {"SOA"}
              /\ signRRset({"SOA"}, k, s.at).covers \in {"SOA"}
    BY <1>3, <2>1, SignRRset
  <2> QED BY <1>6, <2>1, <2>2
<1>7. Draft(q, withSOASig(r, s), {})
  BY <1>1, <1>2, <1>5, <1>6, SOACompletes
<1> QED BY <1>7 DEF s

(* Answer leaves a complete response, or one that lacks the SOA's signature.*)
LEMMA AnswerKeeps ==
    ASSUME HandlerInv, NEW h \in Handlers, Answer(h)
    PROVE  HandlerInv'
<1> DEFINE q == query[h]
           slot == soaSigs[mods(q) \cap signatureMods]
<1>0. /\ q \in Query /\ now \in Nat /\ mods(q) \cap signatureMods \in Slots
      /\ SlotOK(mods(q) \cap signatureMods, slot, now) /\ pc[h] = "answer"
  BY OneSlot DEF HandlerInv, Answer
<1>1. PICK r \in responses(q, now), l \in {"sign", "write"} :
        LET w == IF l = "write" /\ signsSOA(q, r) THEN withSOASig(r, slot.sig) ELSE r
        IN  /\ response' = [response EXCEPT ![h] = w] /\ pc' = [pc EXCEPT ![h] = l]
            /\ l = "write" /\ signsSOA(q, r) => fresh(slot, now)
            /\ l = "sign" => signsSOA(q, r) /\ started' = [started EXCEPT ![h] = now]
            /\ l = "write" => started' = started
            /\ now' = now /\ query' = query /\ did' = did /\ soaSigs' = soaSigs
  BY ZenonT(60), AnswerParts
<1> DEFINE w == IF l = "write" /\ signsSOA(q, r) THEN withSOASig(r, slot.sig) ELSE r
<1>2. Draft(q, r, {"SOA"})
  BY <1>0, <1>1, ResponsesAreDrafts
<1>3. IF l = "sign" THEN w = r /\ signsSOA(q, r) /\ Draft(q, w, {"SOA"})
      ELSE Draft(q, w, {})
  <2>1. CASE l = "sign"
    BY <1>1, <1>2, <2>1
  <2>2. CASE l = "write" /\ ~signsSOA(q, r)
    BY <1>0, <1>2, <2>2, NoSOANeeded
  <2>3. CASE l = "write" /\ signsSOA(q, r)
    <3>1. slot.full
      BY <1>1, <2>3 DEF fresh
    <3>2. Draft(q, withSOASig(r, slot.sig), {})
      <4> HIDE DEF q, slot
      <4> QED BY <1>0, <1>2, <2>3, <3>1, CachedCompletes
    <3> QED BY <2>3, <3>2
  <2> QED BY ZenonT(60), <1>1, <2>1, <2>2, <2>3
<1>4. w \in Response
  BY ZenonT(60), <1>3 DEF Draft
<1>5. /\ response' = [response EXCEPT ![h] = w] /\ pc' = [pc EXCEPT ![h] = l]
      /\ started' = [started EXCEPT ![h] = now] \/ started' = started
      /\ now' = now /\ query' = query /\ did' = did /\ soaSigs' = soaSigs
  BY <1>1
<1>6. l \in {"sign", "write"}
  BY <1>1
<1>7. (l = "sign" => signsSOA(q, w) /\ Draft(q, w, {"SOA"})) /\ (l = "write" => Draft(q, w, {}))
  BY <1>3
<1> HIDE DEF w, slot
<1>8. /\ pc' \in [Handlers -> Labels] /\ pc'[h] = l
      /\ response' \in [Handlers -> Response] /\ response'[h] = w
      /\ started' \in [Handlers -> Nat] /\ (started'[h] = now \/ started'[h] = started[h])
      /\ \A g \in Handlers : g # h => /\ pc'[g] = pc[g] /\ response'[g] = response[g]
                                      /\ started'[g] = started[g]
  BY <1>4, <1>5, <1>6 DEF HandlerInv, Labels
<1>9. ASSUME NEW g \in Handlers PROVE HandlerOK(g)'
  <2>1. CASE g = h
    <3>1. started'[h] <= now
      BY <1>8 DEF HandlerInv, HandlerOK
    <3>2. (recorded(q) => "counted" \in did[h]) /\ "written" \notin did[h]
      BY <1>0 DEF HandlerInv, HandlerOK
    <3> QED BY <1>5, <1>6, <1>7, <1>8, <2>1, <3>1, <3>2 DEF HandlerOK
  <2>2. CASE g # h
    BY <1>5, <1>8, <2>2, HandlerFrame DEF HandlerInv
  <2> QED BY <2>1, <2>2
<1> QED BY <1>5, <1>8, <1>9 DEF HandlerInv

(* signSOA signs with the clock it reads now, and stores the signature     *)
(* under the earlier one.                                                  *)
LEMMA SignSOAKeeps ==
    ASSUME HandlerInv, NEW h \in Handlers, signSOA(h)
    PROVE  HandlerInv'
<1> DEFINE q == query[h]
           m == mods(q)
           k == m \cap signatureMods
<1>0. /\ q \in Query /\ now \in Nat /\ Start <= now /\ k \in Slots /\ pc[h] = "sign"
      /\ started[h] \in Nat /\ started[h] <= now
      /\ signsSOA(q, response[h]) /\ Draft(q, response[h], {"SOA"})
  BY OneSlot DEF HandlerInv, HandlerOK, signSOA
<1>1. PICK s \in sign({"SOA"}, m, now) :
         /\ response' = [response EXCEPT ![h] = withSOASig(response[h], s)]
         /\ soaSigs' = [soaSigs EXCEPT ![k] = [made |-> started[h], sig |-> s, full |-> TRUE]]
  BY ZenonT(60) DEF signSOA
<1>2. /\ pc' = [pc EXCEPT ![h] = "write"]
      /\ now' = now /\ query' = query /\ did' = did /\ started' = started
  BY DEF signSOA, goto
<1>3. {"SOA"} \in SUBSET RRTypes /\ {"SOA"} # {}
  BY DEF RRTypes, Types
<1> DEFINE g == signRRset({"SOA"}, m, now)
           slot == [made |-> started[h], sig |-> s, full |-> TRUE]
<1>4. /\ g = NoSig <=> "_unsigned" \in m
      /\ g # NoSig => /\ g \in Signature /\ g.at = now
                      /\ g.over = {"SOA"} /\ g.covers \in {"SOA"}
  <2> HIDE DEF m
  <2> QED BY <1>0, <1>3, SignRRset
<1>5. g = signRRset({"SOA"}, k, now) /\ ("_unsigned" \in m <=> "_unsigned" \in k)
  BY SlotDecides
<1>6. s = g \/ (s = NoSig /\ SignFails)
  <2>1. HasSigner
    BY <1>0 DEF signsSOA
  <2>2. s \in {g} \cup (IF SignFails THEN {NoSig} ELSE {})
    BY Zenon, <1>1, <2>1 DEF sign
  <2> HIDE DEF g
  <2> QED BY <2>2
<1> HIDE DEF g, k, m
<1>7. s \in Signature \cup {NoSig}
  BY <1>4, <1>6
<1>8. slot \in Slot /\ slot.sig = s /\ slot.made = started[h]
  BY <1>0, <1>7 DEF Slot
<1>9. SlotOK(k, slot, now)
  <2>1. ASSUME s # NoSig
        PROVE  /\ s.at \in Nat /\ Start <= s.at /\ started[h] <= s.at /\ s.at <= now
               /\ s = signRRset({"SOA"}, k, s.at)
    BY <1>0, <1>4, <1>5, <1>6, <2>1
  <2>2. "_unsigned" \notin k /\ ~SignFails => s # NoSig
    BY <1>4, <1>5, <1>6
  <2> HIDE DEF slot
  <2> QED BY <1>8, <2>1, <2>2 DEF SlotOK
<1> HIDE DEF slot
<1>10. Draft(q, withSOASig(response[h], s), {})
  <2>1. s # NoSig => s.covers = "SOA" /\ s.over = {"SOA"}
    BY <1>4, <1>6
  <2>2. /\ "_unsigned" \in mods(q) => s = NoSig
        /\ "_unsigned" \notin mods(q) /\ ~SignFails => s # NoSig
    BY <1>4, <1>6 DEF m
  <2> HIDE DEF q
  <2> QED BY <1>0, <1>7, <2>1, <2>2, SOACompletes
<1> DEFINE w == withSOASig(response[h], s)
<1>11. w \in Response
  BY <1>10 DEF Draft
<1>12. response' = [response EXCEPT ![h] = w] /\ soaSigs' = [soaSigs EXCEPT ![k] = slot]
  BY <1>1 DEF slot
<1> HIDE DEF w
<1>13. /\ pc' \in [Handlers -> Labels] /\ pc'[h] = "write"
       /\ response' \in [Handlers -> Response] /\ response'[h] = w
       /\ soaSigs' \in [Slots -> Slot]
       /\ \A x \in Handlers : x # h => pc'[x] = pc[x] /\ response'[x] = response[x]
  BY Zenon, <1>2, <1>8, <1>11, <1>12 DEF HandlerInv, Labels
<1>14. \A x \in Slots : SlotOK(x, soaSigs'[x], now)
  BY <1>0, <1>9, <1>12 DEF HandlerInv
<1>15. ASSUME NEW x \in Handlers PROVE HandlerOK(x)'
  <2>1. CASE x = h
    <3>1. (recorded(q) => "counted" \in did[h]) /\ "written" \notin did[h]
      BY <1>0 DEF HandlerInv, HandlerOK
    <3>2. pc'[h] = "write" /\ query'[h] = q /\ did'[h] = did[h] /\ started'[h] <= now'
      BY <1>0, <1>2, <1>13
    <3>3. "write" # "sign" /\ "write" # "return"
      OBVIOUS
    <3>4. Draft(query'[h], response'[h], {})
      BY Zenon, <1>10, <1>13, <3>2 DEF w
    <3> QED BY Zenon, <2>1, <3>1, <3>2, <3>3, <3>4 DEF HandlerOK
  <2>2. CASE x # h
    BY <1>2, <1>13, <2>2, HandlerFrame DEF HandlerInv
  <2> QED BY <2>1, <2>2
<1> QED BY <1>2, <1>13, <1>14, <1>15 DEF HandlerInv

(* Every step of every handler keeps the invariant. *)
LEMMA StepKeeps == HandlerInv /\ [Next]_vars => HandlerInv'
<1> SUFFICES ASSUME HandlerInv, [Next]_vars PROVE HandlerInv'
  OBVIOUS
<1>1. CASE \E h \in Handlers : ServeDNS(h)
  BY <1>1, RecordKeeps, AnswerKeeps, SignSOAKeeps, WriteKeeps, ReturnKeeps
     DEF ServeDNS
<1>2. CASE \E h \in Handlers, q \in Queries : Receive(h, q)
  BY <1>2, ReceiveKeeps
<1>3. ASSUME /\ pc' = pc /\ query' = query /\ did' = did /\ response' = response
             /\ started' = started /\ soaSigs' = soaSigs
             /\ now' \in Nat /\ now' >= now /\ now' <= MaxTime
      PROVE  HandlerInv'
  <2>1. now \in Nat /\ now >= Start /\ Start \in Nat
    BY HandlerAssumption DEF HandlerInv
  <2>2. \A h \in Handlers : HandlerOK(h)'
    BY <1>3, HandlerFrame DEF HandlerInv
  <2>3. ASSUME NEW k \in Slots PROVE SlotOK(k, soaSigs[k], now')
    <3>1. SlotOK(k, soaSigs[k], now)
      BY DEF HandlerInv
    <3> QED BY <1>3, <2>1, <3>1 DEF SlotOK
  <2>4. now' >= Start
    BY <1>3, <2>1
  <2> QED BY <1>3, <2>2, <2>3, <2>4 DEF HandlerInv
<1>4. CASE TimePasses
  <2>1. now' \in Nat /\ now' >= now /\ now' <= MaxTime
    BY <1>4, HandlerAssumption DEF TimePasses, HandlerInv
  <2> QED BY <1>3, <1>4, <2>1 DEF TimePasses
<1>5. CASE UNCHANGED vars
  <2>1. now' \in Nat /\ now' >= now /\ now' <= MaxTime
    BY <1>5 DEF vars, HandlerInv
  <2> QED BY <1>3, <1>5, <2>1 DEF vars
<1> QED BY <1>1, <1>2, <1>4, <1>5 DEF Next

-----------------------------------------------------------------------------
(* The inductive invariant holds of any number of concurrent handlers.     *)
THEOREM HandlerInvariant == Spec => []HandlerInv
BY InitEstablishes, StepKeeps, PTL DEF Spec

(* ServeDNS fails a query only when the query asked for it or its answer   *)
(* cannot be written, whether or not the store or the signer fails, and    *)
(* every query to be recorded is counted.                                  *)
THEOREM FailuresAreDeliberate == Spec => []OnlyDeliberateFailures
<1>1. HandlerInv => OnlyDeliberateFailures
  <2> SUFFICES ASSUME HandlerInv, NEW h \in Handlers, pc[h] \in {"write", "return"}
               PROVE  /\ response[h].rcode = "SERVFAIL"
                           => \/ "_servfail" \in mods(query[h])
                              \/ pc[h] = "return" /\ "written" \notin did[h]
                      /\ response[h].rcode = "NXDOMAIN" => "_nxdomain" \in mods(query[h])
                      /\ recorded(query[h]) => "counted" \in did[h]
    BY Zenon DEF OnlyDeliberateFailures
  <2>1. HandlerOK(h)
    BY DEF HandlerInv
  <2> QED BY <2>1 DEF HandlerOK, Draft, Deliberate
<1> QED BY <1>1, HandlerInvariant, PTL

(* serveReport answers every name of the agent domain, unsigned and without*)
(* denying it.                                                             *)
THEOREM AgentAnswersAlways == Spec => []AgentAlwaysAnswers
<1>1. HandlerInv => AgentAlwaysAnswers
  <2> SUFFICES ASSUME HandlerInv, NEW h \in Handlers, Writing(h),
                      query[h].zone = "agent", HasAgent
               PROVE  AgentAnswer(response[h])
    BY DEF AgentAlwaysAnswers, AgentAnswer
  <2>1. route(query[h]) = "report"
    BY DEF route
  <2> QED BY <2>1 DEF HandlerInv, HandlerOK, Draft, Writing
<1> QED BY <1>1, HandlerInvariant, PTL

(* A response is signed for the clients that set DO and for them only, one *)
(* signature for every RRset, the SOA's from the cache included.  ANY at a *)
(* DNS-SD instance is the exception that signRRset makes.                  *)
THEOREM AlwaysSignedOnRequest == Spec => []SignedOnRequest
<1>1. HandlerInv => SignedOnRequest
  <2> SUFFICES ASSUME HandlerInv, NEW h \in Handlers, Writing(h),
                      route(query[h]) \notin {"next", "report"}
               PROVE  LET r == response[h]
                          c == {s.covers : s \in r.sigs}
                      IN  IF query[h].edns # "do" THEN r.sigs = {} /\ "NSEC" \notin r.auth
                          ELSE IF ~HasSigner \/ "_unsigned" \in mods(query[h])
                          THEN r.sigs = {}
                          ELSE /\ c \subseteq r.answer \cup r.auth
                               /\ anyOfInstance(query[h]) \/
                                     /\ \A s \in r.sigs : oneRRset(s)
                                     /\ ~SignFails => c = r.answer \cup r.auth
    BY DEF SignedOnRequest
  <2>1. Signed(query[h], mods(query[h]), response[h], {})
    BY DEF HandlerInv, HandlerOK, Draft, Writing
  <2>2. covered(response[h]) = {s.covers : s \in response[h].sigs}
    BY DEF covered, coverings
  <2> QED BY <2>1, <2>2 DEF Signed
<1> QED BY <1>1, HandlerInvariant, PTL

-----------------------------------------------------------------------------
(* The times whose windows end before 2^32 seconds: rrsigTime folds later  *)
(* ones wrongly.  A window is short beside 2^31 seconds.                   *)
Before2106 ==
    MaxTime + 2 * Validity < 2 * rrsigYear68 /\ 3 * Validity <= rrsigYear68

(* Serial arithmetic on times less than 2^31 apart is plain comparison.    *)
LEMMA NotAfterIsPlain ==
    ASSUME NEW a \in Int, NEW b \in Int,
           b - a < rrsigYear68, a - b <= rrsigYear68
    PROVE  notAfter(a, b) <=> a <= b
<1> DEFINE Y == rrsigYear68
           M == 2 * Y
           x == b - a
<1>1. Y \in Nat \ {0} /\ M \in Nat \ {0} /\ x \in Int /\ x < Y /\ -Y <= x
  BY HandlerAssumption
<1>2. notAfter(a, b) <=> (x % M) < Y
  BY DEF notAfter
<1>3. x = M * (x \div M) + (x % M) /\ (x % M) \in 0..(M - 1) /\ (x \div M) \in Int
  <2> HIDE DEF x, M
  <2> QED BY <1>1
<1>4. CASE a <= b
  <2>1. 0 <= x
    BY <1>4
  <2>2. x \in 0..(M - 1)
    BY <1>1, <2>1
  <2>3. (x % M) = x
    <3> HIDE DEF x, M
    <3> QED BY <1>1, <2>2
  <2> QED BY <1>1, <1>2, <1>4, <2>3
<1>5. CASE ~(a <= b)
  <2>1. x < 0 /\ x + M \in Y..(M - 1)
    BY <1>1, <1>5
  <2>2. (x % M) = x + M
    <3> DEFINE d == x \div M
               e == x % M
    <3>1. x = M * d + e /\ e \in 0..(M - 1) /\ d \in Int
      BY <1>3
    <3> HIDE DEF x, M, d, e, Y
    <3>2. d = -1
      <4>1. CASE d >= 0
        <5>1. M * d >= 0
          BY <1>1, <3>1, <4>1
        <5> QED BY <1>1, <2>1, <3>1, <5>1
      <4>2. CASE d <= -2
        <5>1. M * d <= -(2 * M)
          BY <1>1, <3>1, <4>2
        <5> QED BY <1>1, <2>1, <3>1, <5>1
      <4> QED BY <3>1, <4>1, <4>2
    <3>3. x = -M + e
      BY <1>1, <3>1, <3>2
    <3> QED BY <1>1, <3>1, <3>3 DEF e
  <2>3. ~((x % M) < Y)
    <3> HIDE DEF x, M, Y
    <3> QED BY <1>1, <2>1, <2>2
  <2> QED BY <1>2, <1>5, <2>3
<1> QED BY <1>4, <1>5

(* Before 2^32 seconds rrsigTime is the identity.                          *)
LEMMA TimeIsPlain ==
    ASSUME NEW u \in Nat, u < 2 * rrsigYear68
    PROVE  rrsigTime(u) = u
<1> DEFINE Y == rrsigYear68
           d == u \div Y
           e == u % Y
<1>1. Y \in Nat \ {0}
  BY HandlerAssumption
<1>2. u = Y * d + e /\ e \in 0..(Y - 1) /\ d \in Int
  <2> HIDE DEF Y
  <2> QED BY <1>1
<1>3. u < 2 * Y
  OBVIOUS
<1>4. d <= 1
  <2> HIDE DEF d, e, Y
  <2> SUFFICES ASSUME d >= 2 PROVE FALSE
    BY <1>2
  <2>1. Y * d >= Y * 2
    BY <1>1, <1>2
  <2> QED BY <1>1, <1>2, <1>3, <2>1
<1>5. ~(d > 1)
  <2> HIDE DEF d, Y
  <2> QED BY <1>2, <1>4
<1>6. rrsigTime(u) = u - 0 * Y
  BY <1>5 DEF rrsigTime
<1> QED BY <1>1, <1>6

(* A signature over one RRset and not older than Validity is to a validator*)
(* what its modifiers say.                                                 *)
LEMMA VerdictAsWanted ==
    ASSUME Before2106, NEW types, types = {TypeCovered(types)}, NEW m, "_unsigned" \notin m,
           m \cap signatureMods \in Slots,
           NEW u \in Nat, NEW t \in Nat, Start <= u, u <= t, t <= MaxTime, t - u < Validity
    PROVE  verdict(signRRset(types, m, u), t) = wanted(m)
<1> DEFINE V == Validity
           Y == rrsigYear68
           s == signRRset(types, m, u)
           win(a, b) == [covers |-> TypeCovered(types), over |-> types,
                         good |-> "_badsig" \notin m, at |-> u,
                         inception |-> rrsigTime(a), expiration |-> rrsigTime(b)]
<1>1. /\ V \in Nat /\ Y \in Nat \ {0} /\ 2 * V <= u /\ t + 2 * V < 2 * Y /\ 3 * V <= Y
      /\ t - u < V /\ u <= t
  BY HandlerAssumption DEF Before2106
<1>0. /\ ~("_expiredsig" \in m /\ "_futuresig" \in m)
      /\ ~("_expiredsig" \in m /\ "_badsig" \in m)
      /\ ~("_futuresig" \in m /\ "_badsig" \in m)
  BY DEF Slots, signatureMods
<1>2. CASE "_expiredsig" \in m
  <2>1. s = win(u - 2 * V, u - V)
    BY <1>0, <1>2 DEF signRRset
  <2>2. /\ u - 2 * V \in Nat /\ u - V \in Nat
        /\ u - 2 * V < 2 * Y /\ u - V < 2 * Y
    BY <1>1
  <2>3. s.inception = u - 2 * V /\ s.expiration = u - V
    BY <2>1, <2>2, TimeIsPlain
  <2>4. notAfter(u - 2 * V, t)
    <3>1. /\ u - 2 * V \in Int /\ t \in Int /\ t - (u - 2 * V) < Y
          /\ (u - 2 * V) - t <= Y /\ u - 2 * V <= t
      BY <1>1
    <3> QED BY <3>1, NotAfterIsPlain
  <2>5. ~notAfter(t, u - V)
    <3>1. /\ u - V \in Int /\ t \in Int /\ (u - V) - t < Y
          /\ t - (u - V) <= Y /\ ~(t <= u - V)
      BY <1>1
    <3> QED BY <3>1, NotAfterIsPlain
  <2> HIDE DEF s
  <2>6. verdict(s, t) = "expired"
    BY <2>3, <2>4, <2>5 DEF verdict
  <2>7. wanted(m) = "expired"
    BY <1>0, <1>2 DEF wanted
  <2> QED BY <2>6, <2>7 DEF s
<1>3. CASE "_expiredsig" \notin m /\ "_futuresig" \in m
  <2>1. s = win(u + V, u + 2 * V)
    BY <1>0, <1>3 DEF signRRset
  <2>2. /\ u + V \in Nat /\ u + 2 * V \in Nat
        /\ u + V < 2 * Y /\ u + 2 * V < 2 * Y
    BY <1>1
  <2>3. s.inception = u + V
    BY <2>1, <2>2, TimeIsPlain
  <2>4. ~notAfter(u + V, t)
    <3>1. /\ u + V \in Int /\ t \in Int /\ t - (u + V) < Y
          /\ (u + V) - t <= Y /\ ~(u + V <= t)
      BY <1>1
    <3> QED BY <3>1, NotAfterIsPlain
  <2> HIDE DEF s
  <2>5. verdict(s, t) = "future"
    BY <2>3, <2>4 DEF verdict
  <2>6. wanted(m) = "future"
    BY <1>0, <1>3 DEF wanted
  <2> QED BY <2>5, <2>6 DEF s
<1>4. CASE "_expiredsig" \notin m /\ "_futuresig" \notin m
  <2>1. s = win(u - V, u + V)
    BY <1>4 DEF signRRset
  <2>2. /\ u - V \in Nat /\ u + V \in Nat
        /\ u - V < 2 * Y /\ u + V < 2 * Y
    BY <1>1
  <2>3. s.inception = u - V /\ s.expiration = u + V
    BY <2>1, <2>2, TimeIsPlain
  <2>4. notAfter(u - V, t)
    <3>1. /\ u - V \in Int /\ t \in Int /\ t - (u - V) < Y
          /\ (u - V) - t <= Y /\ u - V <= t
      BY <1>1
    <3> QED BY <3>1, NotAfterIsPlain
  <2>5. notAfter(t, u + V)
    <3>1. /\ u + V \in Int /\ t \in Int /\ (u + V) - t < Y
          /\ t - (u + V) <= Y /\ t <= u + V
      BY <1>1
    <3> QED BY <3>1, NotAfterIsPlain
  <2>8. s.good = ("_badsig" \notin m) /\ oneRRset(s)
    BY <2>1 DEF oneRRset
  <2> HIDE DEF s
  <2>6. verdict(s, t) = IF "_badsig" \in m THEN "bad" ELSE "valid"
    BY ZenonT(60), <2>3, <2>4, <2>5, <2>8 DEF verdict
  <2>7. wanted(m) = IF "_badsig" \in m THEN "bad" ELSE "valid"
    BY <1>4 DEF wanted
  <2> QED BY <2>6, <2>7 DEF s
<1> QED BY <1>2, <1>3, <1>4

(* A signature that a step puts into a handler's response.                 *)
LEMMA NewSignature ==
    ASSUME HandlerInv, [Next]_vars, NEW h \in Handlers, NEW s,
           s \in response'[h].sigs, s \notin response[h].sigs
    PROVE  \E types \in SUBSET RRTypes, u \in Nat :
              /\ types # {} /\ "_unsigned" \notin mods(query[h])
              /\ Start <= u /\ u <= now /\ now - u < soaSigMaxAge
              /\ s = signRRset(types, mods(query[h]), u)
<1> DEFINE q == query[h]
           m == mods(q)
           k == m \cap signatureMods
           slot == soaSigs[k]
           Goal == \E types \in SUBSET RRTypes, u \in Nat :
                      /\ types # {} /\ "_unsigned" \notin m
                      /\ Start <= u /\ u <= now /\ now - u < soaSigMaxAge
                      /\ s = signRRset(types, m, u)
<1>0. /\ q \in Query /\ now \in Nat /\ Start \in Nat /\ Start <= now /\ k \in Slots
      /\ SlotOK(k, slot, now) /\ response \in [Handlers -> Response]
      /\ soaSigMaxAge \in Nat /\ 0 < soaSigMaxAge
  <2>1. k \in Slots
    BY Zenon, OneSlot
  <2>2. SlotOK(k, slot, now) /\ q \in Query /\ response \in [Handlers -> Response]
    BY Zenon, <2>1 DEF HandlerInv
  <2>3. now \in Nat /\ Start <= now
    BY DEF HandlerInv
  <2>4. Start \in Nat /\ soaSigMaxAge \in Nat /\ 0 < soaSigMaxAge
    BY HandlerAssumption
  <2> QED BY Zenon, <2>1, <2>2, <2>3, <2>4
<1>1. {"SOA"} \in SUBSET RRTypes
  BY DEF RRTypes, Types
<1>2. ASSUME NEW types \in SUBSET RRTypes, types # {}, s = signRRset(types, m, now),
             "_unsigned" \notin m
      PROVE  Goal
  <2>1. now <= now /\ now - now < soaSigMaxAge
    BY <1>0
  <2> QED BY Zenon, <1>0, <1>2, <2>1
<1>3. ASSUME NEW r, NEW x, r \in Response, x \in Signature \cup {NoSig},
             s \in withSOASig(r, x).sigs
      PROVE  s \in r.sigs \/ (s = x /\ x # NoSig)
  BY <1>3 DEF withSOASig, Response
<1>4. ASSUME Answer(h) PROVE Goal
  <2>1. PICK r \in responses(q, now), l \in {"sign", "write"} :
        LET w == IF l = "write" /\ signsSOA(q, r) THEN withSOASig(r, slot.sig) ELSE r
        IN  /\ response' = [response EXCEPT ![h] = w] /\ pc' = [pc EXCEPT ![h] = l]
            /\ l = "write" /\ signsSOA(q, r) => fresh(slot, now)
            /\ l = "sign" => signsSOA(q, r) /\ started' = [started EXCEPT ![h] = now]
            /\ l = "write" => started' = started
            /\ now' = now /\ query' = query /\ did' = did /\ soaSigs' = soaSigs
    BY ZenonT(60), <1>4, AnswerParts
  <2>2. /\ Draft(q, r, {"SOA"}) /\ MadeAt(r, m, now)
        /\ route(q) \in {"next", "report"} => r.sigs = {}
    BY ZenonT(60), <1>0, <2>1, ResponsesAreDrafts
  <2>3. r \in Response /\ (r.sigs # {} => "_unsigned" \notin m)
    BY ZenonT(60), <2>2 DEF Draft, Signed
  <2>4. CASE s \in r.sigs
    BY <1>2, <2>2, <2>3, <2>4 DEF MadeAt
  <2>5. CASE s \notin r.sigs
    <3> DEFINE w == IF l = "write" /\ signsSOA(q, r) THEN withSOASig(r, slot.sig) ELSE r
    <3>1. response' = [response EXCEPT ![h] = w]
      BY ZenonT(60), <2>1
    <3>2. s \in w.sigs
      <4> HIDE DEF w
      <4> QED BY ZenonT(60), <1>0, <3>1
    <3>3. signsSOA(q, r) /\ fresh(slot, now) /\ s \in withSOASig(r, slot.sig).sigs
      BY <2>1, <2>5, <3>2
    <3>4. slot \in Slot /\ slot.sig \in Signature \cup {NoSig} /\ slot.made \in Nat
      BY <1>0 DEF SlotOK, Slot
    <3>5. s = slot.sig /\ s # NoSig
      BY ZenonT(60), <1>3, <2>3, <2>5, <3>3, <3>4
    <3> DEFINE u == s.at
    <3>6. u \in Nat /\ Start <= u /\ slot.made <= u /\ u <= now
          /\ s = signRRset({"SOA"}, k, u)
      BY <1>0, <3>5 DEF SlotOK
    <3>7. now - slot.made < soaSigMaxAge
      BY ZenonT(60), <3>3 DEF fresh
    <3> HIDE DEF u, slot
    <3>8. now - u < soaSigMaxAge
      <4> DEFINE at == slot.made
      <4>1. at \in Nat /\ at <= u /\ now - at < soaSigMaxAge /\ u \in Nat
        BY Zenon, <3>4, <3>6, <3>7
      <4>2. now \in Nat /\ soaSigMaxAge \in Nat
        BY Zenon, <1>0
      <4> HIDE DEF at
      <4> QED BY <4>1, <4>2
    <3>9. s = signRRset({"SOA"}, m, u) /\ ("_unsigned" \in m <=> "_unsigned" \in k)
      BY <3>6, SlotDecides
    <3>10. "_unsigned" \notin m
      BY <1>1, <3>5, <3>6, <3>9, SignRRset
    <3> QED BY <1>1, <3>6, <3>8, <3>9, <3>10
  <2> QED BY <2>4, <2>5
<1>5. ASSUME signSOA(h) PROVE Goal
  <2>1. PICK x \in sign({"SOA"}, m, now) :
           response' = [response EXCEPT ![h] = withSOASig(response[h], x)]
    BY ZenonT(60), <1>5 DEF signSOA
  <2>2. response'[h] = withSOASig(response[h], x)
    BY <1>0, <2>1
  <2> DEFINE g == signRRset({"SOA"}, m, now)
  <2>3. x = g \/ x = NoSig
    BY <2>1 DEF sign
  <2>4. /\ g = NoSig <=> "_unsigned" \in m
        /\ g # NoSig => g \in Signature
    <3> HIDE DEF m
    <3> QED BY <1>0, <1>1, SignRRset
  <2> HIDE DEF g
  <2>5. x \in Signature \cup {NoSig} /\ response[h] \in Response
    BY <1>0, <2>3, <2>4
  <2>6. s = x /\ x # NoSig
    BY <1>3, <2>2, <2>5
  <2>7. s = g /\ "_unsigned" \notin m
    BY <2>3, <2>4, <2>6
  <2> QED BY <1>1, <1>2, <2>7 DEF g
<1>6. ASSUME \/ response'[h] \in {response[h], Empty}
             \/ response'[h] = [Empty EXCEPT !.rcode = "SERVFAIL"]
      PROVE  FALSE
  BY <1>6 DEF Empty
<1>7. ASSUME NEW g \in Handlers, ServeDNS(g) PROVE Goal
  <2>1. CASE observeAndRecord(g)
    BY <1>6, <2>1 DEF observeAndRecord
  <2>2. CASE WriteMsg(g)
    <3>1. \/ response' = response
          \/ response' = [response EXCEPT ![g] = [Empty EXCEPT !.rcode = "SERVFAIL"]]
      BY Zenon, <2>2 DEF WriteMsg
    <3> QED BY ZenonT(60), <1>0, <1>6, <3>1
  <2>4. CASE Return(g)
    <3>1. response' = [response EXCEPT ![g] = Empty]
      BY <2>4 DEF Return
    <3> QED BY ZenonT(60), <1>0, <1>6, <3>1
  <2>3. CASE g # h /\ (Answer(g) \/ signSOA(g))
    <3>1. \E w : response' = [response EXCEPT ![g] = w]
      BY ZenonT(60), <2>3 DEF Answer, signSOA
    <3> QED BY ZenonT(60), <1>0, <1>6, <2>3, <3>1
  <2> QED BY <1>4, <1>5, <1>7, <2>1, <2>2, <2>3, <2>4 DEF ServeDNS
<1>8. ASSUME NEW g \in Handlers, NEW x \in Queries, Receive(g, x) PROVE FALSE
  BY ZenonT(60), <1>6, <1>8 DEF Receive
<1>9. ASSUME TimePasses \/ UNCHANGED vars PROVE FALSE
  BY <1>6, <1>9 DEF TimePasses, vars
<1>10. Goal
  BY <1>7, <1>8, <1>9 DEF Next
<1> QED BY <1>10

(* A signature that ServeDNS puts into a response, fresh or from signSOA's *)
(* cache, is younger than soaSigMaxAge, and until 2106 it is to a validator*)
(* what the query asked for while it is younger than its validity.         *)
THEOREM SignaturesAreAsAsked == ASSUME Before2106 PROVE Spec => SignaturesAsAsked
<1> DEFINE AsAsked ==
        \A h \in Handlers, s \in UNION {response'[g].sigs : g \in Handlers} :
            s \in response'[h].sigs \ response[h].sigs
                => /\ now - s.at < soaSigMaxAge
                   /\ oneRRset(s) /\ now - s.at < Validity
                        => verdict(s, now) = wanted(mods(query[h]))
<1>1. HandlerInv /\ [Next]_vars => [AsAsked]_vars
  <2> SUFFICES ASSUME HandlerInv, [Next]_vars, NEW h \in Handlers, NEW s,
                      s \in response'[h].sigs, s \notin response[h].sigs
               PROVE  /\ now - s.at < soaSigMaxAge
                      /\ oneRRset(s) /\ now - s.at < Validity
                           => verdict(s, now) = wanted(mods(query[h]))
    OBVIOUS
  <2> DEFINE m == mods(query[h])
  <2>1. PICK types \in SUBSET RRTypes, u \in Nat :
              /\ types # {} /\ "_unsigned" \notin m
              /\ Start <= u /\ u <= now /\ now - u < soaSigMaxAge
              /\ s = signRRset(types, m, u)
    BY NewSignature
  <2>2. now \in Nat /\ now <= MaxTime
    BY DEF HandlerInv
  <2>3. m \cap signatureMods \in Slots
    BY OneSlot DEF HandlerInv
  <2> HIDE DEF m
  <2>4. s.at = u /\ s.covers = TypeCovered(types) /\ s.over = types
    BY <2>1 DEF signRRset
  <2>5. ASSUME oneRRset(s), now - s.at < Validity
        PROVE  verdict(s, now) = wanted(m)
    <3>1. types = {TypeCovered(types)} /\ now - u < Validity
      BY <2>4, <2>5 DEF oneRRset
    <3> QED BY <2>1, <2>2, <2>3, <3>1, VerdictAsWanted
  <2> QED BY <2>1, <2>4, <2>5 DEF m
<1> QED BY <1>1, HandlerInvariant, PTL DEF Spec, SignaturesAsAsked

=============================================================================
