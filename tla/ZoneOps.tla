------------------------------ MODULE ZoneOps ------------------------------
(***************************************************************************)
(* The RFC 2136 rules of the dynupdate plugin, as operators on a zone:     *)
(* prerequisites (RFC 2136 section 3.2), the prescan (3.4.1), the three    *)
(* forms of update record (3.4.2) and the SOA serial (3.6, RFC 1982).      *)
(*                                                                         *)
(* d.rrs is a slice; here it is the set of its records.  The slice's order *)
(* only decides which record soaOf and indexOfRR find first, so the two    *)
(* agree while the zone has one SOA and no two records with the same name, *)
(* type and data, which WellFormed states and DynUpdate checks.            *)
(*                                                                         *)
(* Names are already canonical: lower-casing and comparing labels is left  *)
(* out, and so is the text of the record data (Data).  The data of a SOA   *)
(* is its serial.                                                          *)
(***************************************************************************)
EXTENDS Integers, Sequences, FiniteSets, FiniteSetsExt

CONSTANTS
    Apex,       \* d.Zone, the origin
    Names,      \* the names at or below the origin, Apex among them
    OutNames,   \* names that are not in the zone
    Data,       \* RDATA of everything but a SOA
    NoData,     \* RDATA of a record with Rdlength 0
    TTLs,       \* TTL values
    Half,       \* 2^31 in the code: half the serial number space
    TypePolicy, \* whether a `mutable` list is configured (d.mutable # nil)
    Mutable     \* the RR types of that list

(* The types the code names, and A and TXT for every other recognised      *)
(* data type.  META is any type isUpdatableType rejects other than ANY.    *)
DataTypes == {"SOA", "NS", "CNAME", "RRSIG", "NSEC", "NSEC3", "A", "TXT"}
QTypes == {"ANY", "META"}

Serials == 0..(2 * Half - 1)

ASSUME ZoneAssumption ==
    /\ Apex \in Names
    /\ Names \cap OutNames = {}
    /\ TTLs \subseteq Nat
    /\ 0 \in TTLs
    /\ Half \in Nat
    /\ Half > 2
    /\ TypePolicy \in BOOLEAN
    /\ Mutable \subseteq DataTypes
    /\ NoData \notin Data

(* A record of the zone. *)
RR == [name : Names, type : DataTypes, data : Data \cup Serials, ttl : TTLs]

(* A record of a message's prerequisite or update section. *)
MsgRR == [name : Names \cup OutNames, type : DataTypes \cup QTypes,
          class : {"IN", "ANY", "NONE", "OTHER"},
          data : Data \cup Serials \cup {NoData}, ttl : TTLs]

(* An UPDATE message.  zone is what the Zone section says: this zone,      *)
(* another zone, or not one SOA/IN record.  tsig: the TSIG was verified.   *)
Message == [zone : {"ours", "other", "malformed"}, tsig : BOOLEAN,
            prereqs : Seq(MsgRR), updates : Seq(MsgRR)]

(* What an idle goroutine holds. *)
NoMessage == [zone |-> "none", tsig |-> FALSE, prereqs |-> <<>>, updates |-> <<>>]

-----------------------------------------------------------------------------
(* Serial numbers. *)

serialGreater(a, b) ==
    /\ a # b
    /\ \/ a < b /\ b - a > Half
       \/ a > b /\ a - b < Half

nextSerial(s) ==
    LET n == (s + 1) % (2 * Half)
    IN  IF n = 0 THEN 1 ELSE n

-----------------------------------------------------------------------------
(* Looking at a zone. *)

inZone(name) == name \in Names

sameRR(r, h) == r.name = h.name /\ r.type = h.type /\ r.data = h.data

rrsetOf(z, name, type) == {r \in z : r.name = name /\ r.type = type}

nameInUse(z, name) == \E r \in z : r.name = name

rrsetExists(z, name, type) == rrsetOf(z, name, type) # {}

indexOfRR(z, h) == CHOOSE r \in z : sameRR(r, h)

hasCNAME(z, name) == \E r \in z : r.name = name /\ r.type = "CNAME"

(* Mutant of hasNonCNAME: only the apex records count.                     *)
hasNonCNAMEApexOnly(z, name) ==
    \E r \in z : r.name = name /\ r.type \in {"SOA", "NS"}

hasNonCNAME(z, name) ==
    \E r \in z : r.name = name /\ r.type \notin {"CNAME", "RRSIG", "NSEC"}

hasSOA(z) == \E r \in z : r.type = "SOA"

soaOf(z) == CHOOSE r \in z : r.type = "SOA"

isUpdatableType(t) == t \in DataTypes

(* file.Zone.Insert, which build calls for every record, rejects NSEC3;    *)
(* nothing else makes it fail.                                             *)
buildable(z) == \A r \in z : r.type # "NSEC3"

-----------------------------------------------------------------------------
(* serveUpdate, before the lock: the Zone section and the TSIG.            *)
headerVerdict(m) ==
    IF m.zone = "malformed" THEN "FORMERR"
    ELSE IF m.zone = "other" THEN "NOTAUTH"
    ELSE IF ~m.tsig THEN "REFUSED"
    ELSE "NOERROR"

-----------------------------------------------------------------------------
(* Section 3.2: prerequisites.  NoVerdict lets the next record speak.      *)

NoVerdict == "NOVERDICT"

checkPrereqExists(z, h) ==
    IF h.data # NoData THEN "FORMERR"
    ELSE IF h.type = "ANY"
         THEN IF nameInUse(z, h.name) THEN NoVerdict ELSE "NXDOMAIN"
         ELSE IF rrsetExists(z, h.name, h.type) THEN NoVerdict ELSE "NXRRSET"

checkPrereqAbsent(z, h) ==
    IF h.data # NoData THEN "FORMERR"
    ELSE IF h.type = "ANY"
         THEN IF nameInUse(z, h.name) THEN "YXDOMAIN" ELSE NoVerdict
         ELSE IF rrsetExists(z, h.name, h.type) THEN "YXRRSET" ELSE NoVerdict

prereqVerdict(z, h) ==
    IF h.ttl # 0 THEN "FORMERR"
    ELSE IF ~inZone(h.name) THEN "NOTZONE"
    ELSE CASE h.class = "ANY"  -> checkPrereqExists(z, h)
           [] h.class = "NONE" -> checkPrereqAbsent(z, h)
           [] h.class = "IN"   -> NoVerdict
           [] OTHER            -> "FORMERR"

(* sameRRset compares multisets; the records of the zone being distinct,    *)
(* equal sizes and equal sets of data say the same.                        *)
sameRRset(have, want, ps) ==
    /\ Cardinality(have) = Cardinality(want)
    /\ {r.data : r \in have} = {ps[i].data : i \in want}

checkPrereqs(z, ps) ==
    LET verdict(i) == prereqVerdict(z, ps[i])
        failing == {i \in DOMAIN ps : verdict(i) # NoVerdict}
        group(i) == {j \in DOMAIN ps : /\ ps[j].class = "IN"
                                       /\ ps[j].name = ps[i].name
                                       /\ ps[j].type = ps[i].type}
    IN  IF failing # {} THEN verdict(Min(failing))
        ELSE IF \A i \in DOMAIN ps : ps[i].class = "IN" =>
                   sameRRset(rrsetOf(z, ps[i].name, ps[i].type), group(i), ps)
             THEN "NOERROR"
             ELSE "NXRRSET"

-----------------------------------------------------------------------------
(* Section 3.4.1: the prescan. *)

(* Mutant of prescanRecord: the type policy overlooks a deletion of        *)
(* everything at a name.                                                   *)
prescanRecordDeleteAll(h) ==
    LET deleteEverythingAtName == h.class = "ANY" /\ h.type = "ANY"
    IN  IF ~inZone(h.name) THEN "NOTZONE"
        ELSE IF \/ ~deleteEverythingAtName /\ ~isUpdatableType(h.type)
                \/ h.class = "ANY" /\ (h.ttl # 0 \/ h.data # NoData)
                \/ h.class = "NONE" /\ h.ttl # 0
                \/ h.class = "OTHER"
             THEN "FORMERR"
        ELSE IF TypePolicy /\ ~deleteEverythingAtName /\ h.type \notin Mutable
             THEN "REFUSED"
        ELSE "NOERROR"

prescanRecord(h) ==
    LET deleteEverythingAtName == h.class = "ANY" /\ h.type = "ANY"
    IN  IF ~inZone(h.name) THEN "NOTZONE"
        ELSE IF \/ ~deleteEverythingAtName /\ ~isUpdatableType(h.type)
                \/ h.class = "ANY" /\ (h.ttl # 0 \/ h.data # NoData)
                \/ h.class = "NONE" /\ h.ttl # 0
                \/ h.class = "OTHER"
             THEN "FORMERR"
        ELSE IF TypePolicy /\ (deleteEverythingAtName \/ h.type \notin Mutable)
             THEN "REFUSED"
        ELSE "NOERROR"

prescan(us) ==
    LET failing == {i \in DOMAIN us : prescanRecord(us[i]) # "NOERROR"}
    IN  IF failing = {} THEN "NOERROR" ELSE prescanRecord(us[Min(failing)])

-----------------------------------------------------------------------------
(* Section 3.4.2: one update record applied to a zone.  The code returns a  *)
(* new slice and a `changed` flag; here <<zone, changed>>, with changed     *)
(* saying what this record alone did.                                       *)

stored(h) == [name |-> h.name, type |-> h.type, data |-> h.data, ttl |-> h.ttl]

deleteWhere(z, gone) == IF gone = {} THEN <<z, FALSE>> ELSE <<z \ gone, TRUE>>

(* Mutant of addSOA: the serial is not compared.                           *)
addSOAAnySerial(z, h) ==
    IF h.name = Apex /\ hasSOA(z)
    THEN <<{r \in z : r.type # "SOA"} \cup {stored(h)}, TRUE>>
    ELSE <<z, FALSE>>

addSOA(z, h) ==
    IF h.name = Apex /\ hasSOA(z) /\ serialGreater(h.data, soaOf(z).data)
    THEN <<{r \in z : r.type # "SOA"} \cup {stored(h)}, TRUE>>
    ELSE <<z, FALSE>>

addOther(z, h) ==
    IF \/ h.type = "CNAME" /\ hasNonCNAME(z, h.name)
       \/ h.type # "CNAME" /\ hasCNAME(z, h.name)
    THEN <<z, FALSE>>
    ELSE IF \E r \in z : sameRR(r, h)
         THEN LET old == indexOfRR(z, h)
              IN  IF old.ttl = h.ttl
                  THEN <<z, FALSE>>
                  ELSE <<(z \ {old}) \cup {[old EXCEPT !.ttl = h.ttl]}, TRUE>>
         ELSE LET replaced == IF h.type = "CNAME"
                              THEN rrsetOf(z, h.name, "CNAME") ELSE {}
              IN  <<(z \ replaced) \cup {stored(h)}, TRUE>>

applyAdd(z, h) == IF h.type = "SOA" THEN addSOA(z, h) ELSE addOther(z, h)

(* The apex SOA and NS survive a deletion of their RRset or of the name.    *)
protected(r) == r.name = Apex /\ r.type \in {"SOA", "NS"}

applyDeleteRRset(z, h) ==
    deleteWhere(z, {r \in z : /\ r.name = h.name
                              /\ h.type = "ANY" \/ r.type = h.type
                              /\ ~protected(r)})

applyDeleteRecord(z, h) ==
    IF \/ h.name = Apex /\ h.type = "SOA"
       \/ /\ h.name = Apex /\ h.type = "NS"
          /\ \A r, s \in rrsetOf(z, Apex, "NS") : r = s      \* the last one
       \/ ~\E r \in z : sameRR(r, h)
    THEN <<z, FALSE>>
    ELSE <<z \ {indexOfRR(z, h)}, TRUE>>

applyRecord(z, h) ==
    CASE h.class = "IN"   -> applyAdd(z, h)
      [] h.class = "ANY"  -> applyDeleteRRset(z, h)
      [] h.class = "NONE" -> applyDeleteRecord(z, h)

(* Section 3.6: the SOA is replaced by a copy with the next serial. *)
bumpSerial(z) ==
    LET soa == soaOf(z)
    IN  (z \ {soa}) \cup {[soa EXCEPT !.data = nextSerial(soa.data)]}

(* Mutant of toSwap: the serial is left to the client.                     *)
toSwapUnbumped(old, updated) == updated

(* The record set that goes into swap: the serial moves if the update did  *)
(* not move it.                                                            *)
toSwap(old, updated) ==
    IF hasSOA(old) /\ hasSOA(updated) /\ soaOf(updated).data = soaOf(old).data
    THEN bumpSerial(updated)
    ELSE updated

(* The zone after each of the update records us, in order, and whether it  *)
(* changed.                                                                *)
After(z, us) ==
    LET after[i \in 0..Len(us)] ==
            IF i = 0 THEN <<z, FALSE>>
            ELSE LET a == applyRecord(after[i - 1][1], us[i])
                 IN  <<a[1], after[i - 1][2] \/ a[2]>>
    IN  after

(* The RFC 2136 section 3 function: the zone an UPDATE leaves, and its rcode. *)
Served(z, m) ==
    LET pre == checkPrereqs(z, m.prereqs)
        scan == prescan(m.updates)
        applied == After(z, m.updates)[Len(m.updates)]
        new == toSwap(z, applied[1])
    IN  IF pre # "NOERROR" THEN <<z, pre>>
        ELSE IF scan # "NOERROR" THEN <<z, scan>>
        ELSE IF ~applied[2] THEN <<z, "NOERROR">>
        ELSE IF ~buildable(new) THEN <<z, "SERVFAIL">>
        ELSE <<new, "NOERROR">>
=============================================================================
