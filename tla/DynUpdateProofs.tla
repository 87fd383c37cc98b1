-------------------------- MODULE DynUpdateProofs --------------------------
(***************************************************************************)
(* Proofs about DynUpdate, for every set of names, records, messages,      *)
(* handlers and readers, and every width of the serial number.             *)
(***************************************************************************)
EXTENDS DynUpdate, WellFoundedInduction, TLAPS

(* A record set that is a zone: what every version of the zone, finished   *)
(* or half applied, is.                                                    *)
Zone(z) == z \subseteq RR /\ WellFormed(z)

(* An update record that the prescan let through. *)
Scanned(h) ==
    /\ h \in MsgRR
    /\ prescanRecord(h) = "NOERROR"
    /\ h.class = "IN" => /\ h.data \in Data \cup Serials
                         /\ h.type = "SOA" => h.data \in Serials

-----------------------------------------------------------------------------
(* Serial numbers. *)

(* nextSerial stays in the serial space and never stands still. *)
LEMMA NextSerialMoves ==
    ASSUME NEW s \in Serials
    PROVE  nextSerial(s) \in Serials /\ nextSerial(s) # s
BY ZoneAssumption DEF nextSerial, Serials

(* The increment is a step forward in the sense of serialGreater, at the   *)
(* wrap and over the skipped zero too.                                     *)
LEMMA NextSerialForward ==
    ASSUME NEW s \in Serials
    PROVE  serialGreater(nextSerial(s), s)
<1>1. CASE s + 1 < 2 * Half
  BY <1>1, ZoneAssumption DEF nextSerial, serialGreater, Serials
<1>2. CASE s + 1 = 2 * Half
  BY <1>2, ZoneAssumption DEF nextSerial, serialGreater, Serials
<1> QED BY <1>1, <1>2, ZoneAssumption DEF Serials

-----------------------------------------------------------------------------
(* The SOA of a zone. *)

(* soaOf finds the zone's only SOA. *)
LEMMA TheSOA ==
    ASSUME NEW z, OneSOA(z)
    PROVE  /\ soaOf(z) \in z
           /\ soaOf(z).type = "SOA"
           /\ soaOf(z).name = Apex
           /\ soaOf(z).data \in Serials
           /\ \A r \in z : r.type = "SOA" => r = soaOf(z)
BY DEF OneSOA, hasSOA, soaOf

(* bumpSerial leaves a zone, and its SOA has the next serial. *)
LEMMA BumpKeepsZone ==
    ASSUME NEW z, Zone(z)
    PROVE  /\ Zone(bumpSerial(z))
           /\ soaOf(bumpSerial(z)).data = nextSerial(soaOf(z).data)
           /\ buildable(z) <=> buildable(bumpSerial(z))
<1> DEFINE soa == soaOf(z)
           new == [soa EXCEPT !.data = nextSerial(soa.data)]
           b == bumpSerial(z)
<1>1. OneSOA(z) /\ z \subseteq RR
  BY DEF Zone, WellFormed
<1>2. /\ soa \in z /\ soa.type = "SOA" /\ soa.name = Apex /\ soa.data \in Serials
      /\ \A r \in z : r.type = "SOA" => r = soa
  BY <1>1, TheSOA
<1>3. nextSerial(soa.data) \in Serials
  BY <1>2, NextSerialMoves
<1>4. /\ new \in RR /\ new.type = "SOA" /\ new.name = Apex
      /\ new.data = nextSerial(soa.data) /\ new.ttl = soa.ttl
  BY <1>1, <1>2, <1>3 DEF RR
<1>5. b = (z \ {soa}) \cup {new}
  BY DEF bumpSerial
<1>6. b \subseteq RR
  BY <1>1, <1>4, <1>5
<1>8. OneSOA(b)
  BY Zenon, <1>2, <1>3, <1>4, <1>5 DEF OneSOA, hasSOA
<1>9. HasApexNS(b)
  <2>1. PICK n \in z : n.name = Apex /\ n.type = "NS"
    BY DEF Zone, WellFormed, HasApexNS, rrsetExists, rrsetOf
  <2>2. n \in b
    BY <2>1, <1>2, <1>5
  <2> QED BY <2>1, <2>2 DEF HasApexNS, rrsetExists, rrsetOf
<1>10. CNAMEAlone(b)
  BY ZenonT(60), <1>2, <1>4, <1>5 DEF Zone, WellFormed, CNAMEAlone
<1>11. NoDuplicates(b)
  BY Zenon, <1>2, <1>4, <1>5 DEF Zone, WellFormed, NoDuplicates, sameRR
<1>12. soaOf(b) = new
  BY Zenon, <1>4, <1>5, <1>8, TheSOA
<1>13. buildable(z) <=> buildable(b)
  BY Zenon, <1>2, <1>4, <1>5 DEF buildable
<1> QED BY <1>4, <1>6, <1>8, <1>9, <1>10, <1>11, <1>12, <1>13
        DEF Zone, WellFormed

-----------------------------------------------------------------------------
(* Each form of update record takes a zone to a zone.                      *)

(* The apex NS RRset, named by one of its records. *)
LEMMA ApexNS ==
    ASSUME NEW z
    PROVE  HasApexNS(z) <=> \E n \in z : n.name = Apex /\ n.type = "NS"
BY DEF HasApexNS, rrsetExists, rrsetOf

(* Taking records away from a zone leaves a zone, if its SOA and an apex   *)
(* NS stay.                                                                *)
LEMMA Shrink ==
    ASSUME NEW z, Zone(z), NEW gone,
           soaOf(z) \notin gone,
           \E n \in z \ gone : n.name = Apex /\ n.type = "NS"
    PROVE  Zone(z \ gone) /\ soaOf(z \ gone) = soaOf(z)
<1>1. OneSOA(z)
  BY DEF Zone, WellFormed
<1>2. OneSOA(z \ gone)
  BY <1>1, TheSOA DEF OneSOA, hasSOA
<1>3. soaOf(z \ gone) = soaOf(z)
  BY <1>1, <1>2, TheSOA
<1>5. HasApexNS(z \ gone)
  BY ApexNS
<1>6. CNAMEAlone(z \ gone) /\ NoDuplicates(z \ gone)
  BY DEF Zone, WellFormed, CNAMEAlone, NoDuplicates
<1> QED BY <1>2, <1>3, <1>5, <1>6 DEF Zone, WellFormed

(* An added SOA replaces the one the zone has, and only by a greater one.  *)
LEMMA AddSOAKeepsZone ==
    ASSUME NEW z, Zone(z), NEW h, Scanned(h), h.class = "IN", h.type = "SOA"
    PROVE  /\ Zone(addSOA(z, h)[1])
           /\ addSOA(z, h)[2] \in BOOLEAN
           /\ ~addSOA(z, h)[2] => addSOA(z, h)[1] = z
           /\ \/ soaOf(addSOA(z, h)[1]) = soaOf(z)
              \/ serialGreater(soaOf(addSOA(z, h)[1]).data, soaOf(z).data)
<1>1. CASE ~(h.name = Apex /\ hasSOA(z) /\ serialGreater(h.data, soaOf(z).data))
  BY <1>1 DEF addSOA
<1>2. CASE h.name = Apex /\ hasSOA(z) /\ serialGreater(h.data, soaOf(z).data)
  <2> DEFINE new == stored(h)
             rest == {r \in z : r.type # "SOA"}
             b == rest \cup {new}
  <2>1. addSOA(z, h) = <<b, TRUE>>
    BY Zenon, <1>2 DEF addSOA
  <2>2. h.data \in Serials /\ h.ttl \in TTLs
    BY DEF Scanned, MsgRR
  <2>3. /\ new \in RR /\ new.name = Apex /\ new.type = "SOA"
        /\ new.data = h.data /\ new.data \in Serials
    BY <1>2, <2>2, ZoneAssumption DEF stored, RR, DataTypes
  <2> HIDE DEF new
  <2>4. b \subseteq RR
    BY <2>3 DEF Zone
  <2>6. OneSOA(b)
    BY <2>3 DEF OneSOA, hasSOA
  <2>7. HasApexNS(b)
    <3>1. PICK n \in z : n.name = Apex /\ n.type = "NS"
      BY ApexNS DEF Zone, WellFormed
    <3> QED BY <3>1, ApexNS
  <2>8. CNAMEAlone(b)
    <3>1. SUFFICES ASSUME NEW r \in b, NEW s \in b, r.type = "CNAME", s.name = r.name
                   PROVE  s = r \/ s.type \in {"RRSIG", "NSEC"}
      BY DEF CNAMEAlone
    <3>2. r \in z
      BY <3>1, <2>3
    <3>3. s # new
      <4>1. SUFFICES ASSUME s = new PROVE FALSE
        OBVIOUS
      <4>2. soaOf(z) \in z /\ soaOf(z).name = Apex /\ soaOf(z).type = "SOA"
        BY TheSOA DEF Zone, WellFormed
      <4> QED BY <3>1, <3>2, <4>1, <4>2, <2>3 DEF Zone, WellFormed, CNAMEAlone
    <3> QED BY <3>1, <3>2, <3>3 DEF Zone, WellFormed, CNAMEAlone
  <2>9. NoDuplicates(b)
    BY <2>3 DEF NoDuplicates, sameRR, Zone, WellFormed
  <2>10. soaOf(b) = new
    BY <2>3, <2>6, TheSOA
  <2> QED BY <1>2, <2>1, <2>3, <2>4, <2>6, <2>7, <2>8, <2>9, <2>10
          DEF Zone, WellFormed
<1> QED BY <1>1, <1>2

(* One record takes the place of some others of its own name and type, and *)
(* the result is a zone if the newcomer goes with every record that stays. *)
LEMMA ReplaceKeepsZone ==
    ASSUME NEW z, Zone(z), NEW new \in RR, new.type # "SOA",
           NEW gone, \A r \in gone : r.name = new.name /\ r.type = new.type,
           \A r \in z \ gone :
               /\ ~sameRR(r, new)
               /\ new.type = "CNAME" /\ r.name = new.name => r.type \in {"RRSIG", "NSEC"}
               /\ r.type = "CNAME" /\ r.name = new.name => new.type \in {"RRSIG", "NSEC"}
    PROVE  /\ Zone((z \ gone) \cup {new})
           /\ soaOf((z \ gone) \cup {new}) = soaOf(z)
<1> DEFINE b == (z \ gone) \cup {new}
<1>1. OneSOA(z)
  BY DEF Zone, WellFormed
<1>2. b \subseteq RR
  BY DEF Zone
<1>4. OneSOA(b)
  BY <1>1, TheSOA DEF OneSOA, hasSOA
<1>5. HasApexNS(b)
  <2>1. PICK n \in z : n.name = Apex /\ n.type = "NS"
    BY ApexNS DEF Zone, WellFormed
  <2>2. CASE n \in gone
    <3>1. new.name = Apex /\ new.type = "NS"
      BY <2>1, <2>2
    <3> QED BY <3>1, ApexNS
  <2>3. CASE n \notin gone
    BY <2>1, <2>3, ApexNS
  <2> QED BY <2>2, <2>3
<1>6. CNAMEAlone(b)
  BY DEF Zone, WellFormed, CNAMEAlone
<1>7. NoDuplicates(b)
  BY DEF Zone, WellFormed, NoDuplicates, sameRR
<1>8. soaOf(b) = soaOf(z)
  BY <1>1, <1>4, TheSOA
<1> QED BY <1>2, <1>4, <1>5, <1>6, <1>7, <1>8 DEF Zone, WellFormed

(* Any other added record: refused by CNAME exclusivity, a new TTL for a   *)
(* record the zone has, or a new record.                                   *)
LEMMA AddOtherKeepsZone ==
    ASSUME NEW z, Zone(z), NEW h, Scanned(h), h.class = "IN", h.type # "SOA"
    PROVE  /\ Zone(addOther(z, h)[1])
           /\ addOther(z, h)[2] \in BOOLEAN
           /\ ~addOther(z, h)[2] => addOther(z, h)[1] = z
           /\ soaOf(addOther(z, h)[1]) = soaOf(z)
<1> DEFINE refused == \/ h.type = "CNAME" /\ hasNonCNAME(z, h.name)
                      \/ h.type # "CNAME" /\ hasCNAME(z, h.name)
<1>0. /\ h.name \in Names /\ h.type \in DataTypes
      /\ h.data \in Data \cup Serials /\ h.ttl \in TTLs
  BY DEF Scanned, MsgRR, prescanRecord, inZone, isUpdatableType
<1>1. CASE refused
  BY <1>1 DEF addOther
<1>2. CASE ~refused /\ \E r \in z : sameRR(r, h)
  <2> DEFINE old == indexOfRR(z, h)
             new == [old EXCEPT !.ttl = h.ttl]
  <2>1. \/ addOther(z, h) = <<z, FALSE>>
        \/ addOther(z, h) = <<(z \ {old}) \cup {new}, TRUE>>
    BY Zenon, <1>2 DEF addOther
  <2>2. old \in z /\ sameRR(old, h)
    BY <1>2 DEF indexOfRR
  <2>3. old \in RR
    BY <2>2 DEF Zone
  <2> HIDE DEF old
  <2>4. /\ new \in RR /\ new.name = old.name /\ new.type = old.type
        /\ new.data = old.data /\ new.ttl = h.ttl
    BY <1>0, <2>3 DEF RR
  <2> HIDE DEF new
  <2>5. \A r \in z \ {old} :
           /\ ~sameRR(r, new)
           /\ new.type = "CNAME" /\ r.name = new.name => r.type \in {"RRSIG", "NSEC"}
           /\ r.type = "CNAME" /\ r.name = new.name => new.type \in {"RRSIG", "NSEC"}
    BY <2>2, <2>4 DEF Zone, WellFormed, NoDuplicates, CNAMEAlone, sameRR
  <2>6. new.type # "SOA"
    BY <2>2, <2>4 DEF sameRR
  <2>7. /\ Zone((z \ {old}) \cup {new})
        /\ soaOf((z \ {old}) \cup {new}) = soaOf(z)
    BY Zenon, <2>4, <2>5, <2>6, ReplaceKeepsZone
  <2>8. CASE addOther(z, h) = <<z, FALSE>>
    BY <2>8
  <2>9. CASE addOther(z, h) = <<(z \ {old}) \cup {new}, TRUE>>
    BY <2>7, <2>9
  <2> QED BY Zenon, <2>1, <2>8, <2>9
<1>3. CASE ~refused /\ ~\E r \in z : sameRR(r, h)
  <2> DEFINE gone == IF h.type = "CNAME" THEN rrsetOf(z, h.name, "CNAME") ELSE {}
             new == stored(h)
  <2>1. addOther(z, h) = <<(z \ gone) \cup {new}, TRUE>>
    BY Zenon, <1>3 DEF addOther
  <2>2. /\ new \in RR /\ new.name = h.name /\ new.type = h.type
        /\ new.data = h.data
    BY <1>0 DEF stored, RR
  <2>3. \A r \in gone : r.name = h.name /\ r.type = h.type
    BY DEF rrsetOf
  <2>4. \A r \in z \ gone :
           /\ ~sameRR(r, new)
           /\ h.type = "CNAME" /\ r.name = h.name => r.type \in {"RRSIG", "NSEC"}
           /\ r.type = "CNAME" /\ r.name = h.name => h.type \in {"RRSIG", "NSEC"}
    BY <1>3, <2>2 DEF sameRR, rrsetOf, hasNonCNAME, hasCNAME
  <2> HIDE DEF gone, new
  <2>5. /\ Zone((z \ gone) \cup {new})
        /\ soaOf((z \ gone) \cup {new}) = soaOf(z)
    BY Zenon, <2>2, <2>3, <2>4, ReplaceKeepsZone
  <2> QED BY <2>1, <2>5
<1> QED BY <1>1, <1>2, <1>3

(* Deleting an RRset or everything at a name leaves the apex SOA and NS.   *)
LEMMA DeleteRRsetKeepsZone ==
    ASSUME NEW z, Zone(z), NEW h, Scanned(h)
    PROVE  /\ Zone(applyDeleteRRset(z, h)[1])
           /\ applyDeleteRRset(z, h)[2] \in BOOLEAN
           /\ ~applyDeleteRRset(z, h)[2] => applyDeleteRRset(z, h)[1] = z
           /\ soaOf(applyDeleteRRset(z, h)[1]) = soaOf(z)
<1> DEFINE gone == {r \in z : /\ r.name = h.name
                              /\ h.type = "ANY" \/ r.type = h.type
                              /\ ~protected(r)}
<1>1. \/ applyDeleteRRset(z, h) = <<z, FALSE>>
      \/ applyDeleteRRset(z, h) = <<z \ gone, TRUE>>
  BY Zenon DEF applyDeleteRRset, deleteWhere
<1>2. soaOf(z) \notin gone
  BY TheSOA DEF Zone, WellFormed, protected
<1>3. \E n \in z \ gone : n.name = Apex /\ n.type = "NS"
  BY ApexNS DEF Zone, WellFormed, protected
<1> HIDE DEF gone
<1>4. Zone(z \ gone) /\ soaOf(z \ gone) = soaOf(z)
  BY <1>2, <1>3, Shrink
<1>5. CASE applyDeleteRRset(z, h) = <<z, FALSE>>
  BY <1>5
<1>6. CASE applyDeleteRRset(z, h) = <<z \ gone, TRUE>>
  BY <1>4, <1>6
<1> QED BY Zenon, <1>1, <1>5, <1>6

(* Deleting one record leaves the apex SOA and the last apex NS. *)
LEMMA DeleteRecordKeepsZone ==
    ASSUME NEW z, Zone(z), NEW h, Scanned(h)
    PROVE  /\ Zone(applyDeleteRecord(z, h)[1])
           /\ applyDeleteRecord(z, h)[2] \in BOOLEAN
           /\ ~applyDeleteRecord(z, h)[2] => applyDeleteRecord(z, h)[1] = z
           /\ soaOf(applyDeleteRecord(z, h)[1]) = soaOf(z)
<1> DEFINE kept == \/ h.name = Apex /\ h.type = "SOA"
                   \/ /\ h.name = Apex /\ h.type = "NS"
                      /\ \A r, s \in rrsetOf(z, Apex, "NS") : r = s
                   \/ ~\E r \in z : sameRR(r, h)
<1>1. CASE kept
  BY <1>1 DEF applyDeleteRecord
<1>2. CASE ~kept
  <2> DEFINE old == indexOfRR(z, h)
             ns == rrsetOf(z, Apex, "NS")
  <2>1. applyDeleteRecord(z, h) = <<z \ {old}, TRUE>>
    BY Zenon, <1>2 DEF applyDeleteRecord
  <2>2. old \in z /\ sameRR(old, h)
    BY <1>2 DEF indexOfRR
  <2> HIDE DEF old
  <2>3. soaOf(z) \notin {old}
    BY <1>2, <2>2, TheSOA DEF Zone, WellFormed, sameRR
  <2>4. \E n \in z \ {old} : n.name = Apex /\ n.type = "NS"
    <3>1. CASE old \in ns
      <4>1. h.name = Apex /\ h.type = "NS"
        BY <2>2, <3>1 DEF rrsetOf, sameRR
      <4>2. PICK n \in ns : n # old
        BY <1>2, <4>1
      <4> QED BY <4>2 DEF rrsetOf
    <3>2. CASE old \notin ns
      BY <3>2, ApexNS DEF Zone, WellFormed, rrsetOf
    <3> QED BY <3>1, <3>2
  <2>5. Zone(z \ {old}) /\ soaOf(z \ {old}) = soaOf(z)
    BY Zenon, <2>3, <2>4, Shrink
  <2> QED BY <2>1, <2>5
<1> QED BY <1>1, <1>2

(* The round of apply's loop. *)
LEMMA ApplyRecordKeepsZone ==
    ASSUME NEW z, Zone(z), NEW h, Scanned(h)
    PROVE  /\ Zone(applyRecord(z, h)[1])
           /\ applyRecord(z, h)[2] \in BOOLEAN
           /\ ~applyRecord(z, h)[2] => applyRecord(z, h)[1] = z
           /\ \/ soaOf(applyRecord(z, h)[1]) = soaOf(z)
              \/ /\ h.class = "IN" /\ h.type = "SOA"
                 /\ serialGreater(soaOf(applyRecord(z, h)[1]).data, soaOf(z).data)
<1>1. h.class \in {"IN", "ANY", "NONE"}
  BY DEF Scanned, MsgRR, prescanRecord
<1>2. CASE h.class = "IN" /\ h.type = "SOA"
  BY <1>2, AddSOAKeepsZone DEF applyRecord, applyAdd
<1>3. CASE h.class = "IN" /\ h.type # "SOA"
  BY <1>3, AddOtherKeepsZone DEF applyRecord, applyAdd
<1>4. CASE h.class = "ANY"
  BY <1>4, DeleteRRsetKeepsZone DEF applyRecord
<1>5. CASE h.class = "NONE"
  BY <1>5, DeleteRecordKeepsZone DEF applyRecord
<1> QED BY <1>1, <1>2, <1>3, <1>4, <1>5

-----------------------------------------------------------------------------
(* The prescan looks at every record. *)

(* A non-empty set of numbers has a smallest element, and Min is it. *)
LEMMA MinIsMember ==
    ASSUME NEW S, S \subseteq Nat, S # {}
    PROVE  Min(S) \in S
<1> DEFINE less == OpToRel(<, Nat)
<1>1. IsWellFoundedOn(less, Nat)
  BY Zenon, NatLessThanWellFounded
<1>2. \A x, y \in Nat : <<y, x>> \in less <=> y < x
  BY DEF OpToRel
<1> HIDE DEF less
<1>3. PICK x \in S : \A y \in S : ~(<<y, x>> \in less)
  BY Zenon, <1>1, WFMin
<1>4. \A y \in S : x =< y
  <2>1. SUFFICES ASSUME NEW y \in S PROVE x =< y
    OBVIOUS
  <2>2. x \in Nat /\ y \in Nat
    OBVIOUS
  <2>3. ~(y < x)
    BY Zenon, <1>2, <1>3, <2>2
  <2> QED BY <2>2, <2>3
<1> QED BY Zenon, <1>4 DEF Min

(* A message that passes the prescan has only records that pass it. *)
LEMMA PrescanAll ==
    ASSUME NEW us \in Seq(MsgRR), prescan(us) = "NOERROR", NEW i \in DOMAIN us
    PROVE  prescanRecord(us[i]) = "NOERROR"
<1> DEFINE failing == {j \in DOMAIN us : prescanRecord(us[j]) # "NOERROR"}
<1>1. failing \subseteq Nat
  OBVIOUS
<1>2. CASE failing = {}
  BY <1>2
<1>3. CASE failing # {}
  <2>1. Min(failing) \in failing
    BY <1>1, <1>3, MinIsMember
  <2> QED BY <1>3, <2>1 DEF prescan
<1> QED BY <1>2, <1>3

-----------------------------------------------------------------------------
(* The type policy. *)

(* The records of one type. *)
OfType(z, t) == {x \in z : x.type = t}

(* Under a policy an update record only moves records of its own type. *)
LEMMA PolicyKept ==
    ASSUME NEW z, Zone(z), NEW h, Scanned(h), TypePolicy,
           NEW t \in DataTypes \ Mutable
    PROVE  Untouchable(applyRecord(z, h)[1], t) = Untouchable(z, t)
<1>1. h.class \in {"IN", "ANY", "NONE"} /\ h.type \in Mutable
  BY DEF Scanned, MsgRR, prescanRecord
<1>2. h.type # t /\ h.type # "ANY"
  BY <1>1, ZoneAssumption DEF DataTypes
<1>3. SUFFICES OfType(applyRecord(z, h)[1], t) = OfType(z, t)
  BY DEF Untouchable, OfType
<1>4. CASE h.class = "IN" /\ h.type = "SOA"
  <2>1. applyRecord(z, h) = addSOA(z, h)
    BY <1>4 DEF applyRecord, applyAdd
  <2>2. stored(h).type = h.type
    BY DEF stored
  <2>3. OfType({r \in z : r.type # "SOA"} \cup {stored(h)}, t) = OfType(z, t)
    BY <1>2, <1>4, <2>2 DEF OfType
  <2> QED BY <2>1, <2>3 DEF addSOA
<1>5. CASE h.class = "IN" /\ h.type # "SOA"
  <2> DEFINE old == indexOfRR(z, h)
             new == [old EXCEPT !.ttl = h.ttl]
             gone == IF h.type = "CNAME" THEN rrsetOf(z, h.name, "CNAME") ELSE {}
  <2>1. applyRecord(z, h) = addOther(z, h)
    BY <1>5 DEF applyRecord, applyAdd
  <2>2. OfType((z \ gone) \cup {stored(h)}, t) = OfType(z, t)
    BY <1>2 DEF OfType, stored, rrsetOf
  <2>3. ASSUME \E r \in z : sameRR(r, h)
        PROVE  OfType((z \ {old}) \cup {new}, t) = OfType(z, t)
    <3>1. old \in z /\ old.type = h.type
      BY <2>3 DEF indexOfRR, sameRR
    <3>2. old \in RR
      BY <3>1 DEF Zone
    <3> HIDE DEF old
    <3>3. new.type = h.type
      BY <3>1, <3>2 DEF RR
    <3> QED BY Zenon, <1>2, <3>1, <3>3 DEF OfType
  <2> QED BY <2>1, <2>2, <2>3 DEF addOther
<1>6. CASE h.class = "ANY"
  <2>1. applyRecord(z, h) = applyDeleteRRset(z, h)
    BY <1>6 DEF applyRecord
  <2>2. OfType(z \ {r \in z : /\ r.name = h.name
                              /\ h.type = "ANY" \/ r.type = h.type
                              /\ ~protected(r)}, t) = OfType(z, t)
    BY <1>2 DEF OfType
  <2> QED BY <2>1, <2>2 DEF applyDeleteRRset, deleteWhere
<1>7. CASE h.class = "NONE"
  <2>1. applyRecord(z, h) = applyDeleteRecord(z, h)
    BY <1>7 DEF applyRecord
  <2>2. ASSUME \E r \in z : sameRR(r, h)
        PROVE  OfType(z \ {indexOfRR(z, h)}, t) = OfType(z, t)
    <3>1. indexOfRR(z, h).type = h.type
      BY <2>2 DEF indexOfRR, sameRR
    <3> QED BY <1>2, <3>1 DEF OfType
  <2> QED BY <2>1, <2>2 DEF applyDeleteRecord
<1> QED BY <1>1, <1>4, <1>5, <1>6, <1>7

(* The server's own increment changes nothing but the serial. *)
LEMMA BumpKeepsPolicy ==
    ASSUME NEW z, Zone(z), NEW t
    PROVE  Untouchable(bumpSerial(z), t) = Untouchable(z, t)
<1> DEFINE soa == soaOf(z)
           new == [soa EXCEPT !.data = nextSerial(soa.data)]
<1>1. soa \in z /\ soa.type = "SOA" /\ soa \in RR
  BY TheSOA DEF Zone, WellFormed
<1> HIDE DEF soa
<1>2. new.type = "SOA" /\ new.name = soa.name /\ new.ttl = soa.ttl
  BY <1>1 DEF RR
<1> HIDE DEF new
<1>3. bumpSerial(z) = (z \ {soa}) \cup {new}
  BY DEF bumpSerial, soa, new
<1>4. CASE t = "SOA"
  BY <1>1, <1>2, <1>3, <1>4 DEF Untouchable
<1>5. CASE t # "SOA"
  <2>1. {x \in bumpSerial(z) : x.type = t} = {x \in z : x.type = t}
    BY <1>1, <1>2, <1>3, <1>5
  <2> QED BY <2>1 DEF Untouchable
<1> QED BY <1>4, <1>5

-----------------------------------------------------------------------------
(* The invariant is inductive. *)

(* The records of a message that is being applied passed the prescan. *)
LEMMA MessageScanned ==
    ASSUME NEW m \in Messages, prescan(m.updates) = "NOERROR",
           NEW i \in 1..Len(m.updates)
    PROVE  Scanned(m.updates[i])
<1>1. m \in Message /\ ParsedMessage(m)
  BY ServerAssumption
<1>2. m.updates \in Seq(MsgRR)
  BY <1>1 DEF Message
<1>3. i \in DOMAIN m.updates /\ m.updates[i] \in MsgRR
  BY <1>2
<1>4. prescanRecord(m.updates[i]) = "NOERROR"
  BY <1>2, <1>3, PrescanAll
<1> QED BY <1>1, <1>3, <1>4 DEF Scanned, ParsedMessage

(* Whoever is not involved keeps what it knows. *)
LEMMA ApplyingFrame ==
    ASSUME NEW u \in Updaters, Applying(u), rrs' = rrs, msg'[u] = msg[u],
           out'[u] = out[u], next'[u] = next[u]
    PROVE  Applying(u)'
BY DEF Applying, SerialSoFar, OneSOAAdd, AddsSOA

(* The state setup leaves satisfies the invariant.                         *)
LEMMA InitInd == Init => IndInv
<1> SUFFICES ASSUME Init PROVE IndInv
  OBVIOUS
<1>1. TypeOK
  BY ServerAssumption DEF Init, TypeOK
<1>2. ZoneWellFormed
  BY ServerAssumption DEF Init, ZoneWellFormed
<1>3. LockHeld
  BY ServerAssumption DEF Init, LockHeld
<1>4. \A u \in Updaters : pc[u] = "apply" => Applying(u)
  BY DEF Init
<1> QED BY <1>1, <1>2, <1>3, <1>4 DEF IndInv

(* What headerVerdict, checkPrereqs and prescan answer is an rcode. *)
LEMMA VerdictTypes ==
    /\ \A m : headerVerdict(m) \in Rcodes
    /\ \A us \in Seq(MsgRR) : prescan(us) \in Rcodes
    /\ \A z : \A ps \in Seq(MsgRR) : checkPrereqs(z, ps) \in Rcodes
<1>1. \A m : headerVerdict(m) \in Rcodes
  BY DEF headerVerdict, Rcodes
<1>2. \A h : prescanRecord(h) \in Rcodes
  BY DEF prescanRecord, Rcodes
<1>3. \A us \in Seq(MsgRR) : prescan(us) \in Rcodes
  BY <1>2 DEF prescan, Rcodes
<1>4. ASSUME NEW z, NEW ps \in Seq(MsgRR)
      PROVE  checkPrereqs(z, ps) \in Rcodes
  <2> DEFINE failing == {i \in DOMAIN ps : prereqVerdict(z, ps[i]) # NoVerdict}
  <2>1. \A h : prereqVerdict(z, h) \in Rcodes \cup {NoVerdict}
    BY DEF prereqVerdict, checkPrereqExists, checkPrereqAbsent, Rcodes, NoVerdict
  <2>2. failing \subseteq Nat
    OBVIOUS
  <2>3. failing # {} => Min(failing) \in failing
    BY Zenon, <2>2, MinIsMember
  <2>4. CASE failing # {}
    <3>1. checkPrereqs(z, ps) = prereqVerdict(z, ps[Min(failing)])
      BY <2>4 DEF checkPrereqs
    <3>2. prereqVerdict(z, ps[Min(failing)]) # NoVerdict
      BY <2>3, <2>4
    <3> QED BY <2>1, <3>1, <3>2
  <2>5. CASE failing = {}
    BY <2>5 DEF checkPrereqs, Rcodes
  <2> QED BY <2>4, <2>5
<1> QED BY <1>1, <1>3, <1>4

(* The steps before and after the working copy exists change neither the   *)
(* zone nor what another handler knows.                                    *)
LEMMA ReceiveInd ==
    ASSUME IndInv, NEW u \in Updaters, NEW m \in Messages, Receive(u, m)
    PROVE  IndInv'
<1> USE DEF IndInv
<1>a. \/ \E code \in Rcodes : Answer(u, code)
      \/ /\ headerVerdict(m) = "NOERROR"
         /\ pc' = [pc EXCEPT ![u] = "lock"] /\ UNCHANGED rcode
  BY VerdictTypes DEF Receive
<1>b. /\ pc[u] = "idle"
      /\ msg' = [msg EXCEPT ![u] = m]
      /\ UNCHANGED <<rrs, view, mu, out, changed, next, snap, notified, restarts>>
  BY DEF Receive
<1>1. TypeOK'
  <2>1. CASE \E code \in Rcodes : Answer(u, code)
    BY <1>b, <2>1 DEF TypeOK, Answer
  <2>2. CASE pc' = [pc EXCEPT ![u] = "lock"] /\ UNCHANGED rcode
    BY <1>b, <2>2 DEF TypeOK
  <2> QED BY <1>a, <2>1, <2>2
<1>2. ZoneWellFormed'
  BY DEF ZoneWellFormed, Receive
<1>3. LockHeld'
  <2> SUFFICES ASSUME NEW v \in Updaters
               PROVE  /\ pc'[v] \in {"check", "apply", "notify", "unlock"} => mu' = v
                      /\ mu' = v => pc'[v] \in {"check", "apply", "notify", "reply",
                                               "unlock"}
                      /\ pc'[v] \in {"lock", "check", "apply"} =>
                            /\ msg'[v] \in Messages
                            /\ headerVerdict(msg'[v]) = "NOERROR"
                      /\ pc'[v] \in {"idle", "lock", "check", "apply"} =>
                            rcode'[v] = "none"
    BY DEF LockHeld
  <2>1. CASE v = u
    <3>1. mu # u /\ rcode[u] = "none"
      BY <1>b DEF LockHeld
    <3>2. msg'[v] = m /\ mu' = mu
      BY <1>b, <2>1 DEF TypeOK
    <3>3. \/ pc'[v] = "reply"
          \/ headerVerdict(m) = "NOERROR" /\ pc'[v] = "lock" /\ rcode' = rcode
      BY <1>a, <2>1 DEF TypeOK, Answer
    <3> QED BY <2>1, <3>1, <3>2, <3>3
  <2>2. CASE v # u
    <3>1. pc'[v] = pc[v] /\ msg'[v] = msg[v] /\ rcode'[v] = rcode[v] /\ mu' = mu
      BY <1>a, <1>b, <2>2 DEF TypeOK, Answer
    <3> QED BY <3>1 DEF LockHeld
  <2> QED BY <2>1, <2>2
<1>4. ASSUME NEW v \in Updaters, pc'[v] = "apply" PROVE Applying(v)'
  <2>1. v # u /\ pc[v] = "apply" /\ msg'[v] = msg[v]
    BY <1>4 DEF TypeOK, Receive, Answer
  <2> QED BY <2>1, ApplyingFrame DEF Receive
<1> QED BY <1>1, <1>2, <1>3, <1>4

(* Only a free lock is taken.                                              *)
LEMMA LockInd ==
    ASSUME IndInv, NEW u \in Updaters, Lock(u)
    PROVE  IndInv'
<1> USE DEF IndInv
<1>1. TypeOK'
  BY DEF TypeOK, Lock
<1>2. ZoneWellFormed'
  BY DEF ZoneWellFormed, Lock
<1>3. LockHeld'
  BY ServerAssumption DEF TypeOK, LockHeld, Lock
<1>4. ASSUME NEW v \in Updaters, pc'[v] = "apply" PROVE Applying(v)'
  <2>1. v # u /\ pc[v] = "apply"
    BY <1>4 DEF TypeOK, Lock
  <2> QED BY <2>1, ApplyingFrame DEF Lock
<1> QED BY <1>1, <1>2, <1>3, <1>4

(* A message's sections. *)
LEMMA MessageType ==
    ASSUME NEW m \in Messages
    PROVE  m.prereqs \in Seq(MsgRR) /\ m.updates \in Seq(MsgRR)
BY ServerAssumption DEF Message

(* The checks are made, and the working copy starts out as the zone. *)
LEMMA CheckInd ==
    ASSUME IndInv, NEW u \in Updaters, Check(u)
    PROVE  IndInv'
<1> USE DEF IndInv
<1>0. /\ msg[u] \in Messages
      /\ checkPrereqs(rrs, msg[u].prereqs) \in Rcodes
      /\ prescan(msg[u].updates) \in Rcodes
  BY ZenonT(60), MessageType, VerdictTypes DEF LockHeld, Check
<1>a. \/ \E code \in Rcodes : Answer(u, code) /\ UNCHANGED out
      \/ /\ pc' = [pc EXCEPT ![u] = "apply"]
         /\ out' = [out EXCEPT ![u] = rrs]
         /\ UNCHANGED rcode
  BY Zenon, <1>0 DEF Check
<1>b. pc[u] = "check" /\ UNCHANGED <<rrs, view, mu, msg, changed, next, snap,
                                     notified, restarts>>
  BY DEF Check
<1>1. TypeOK'
  <2>1. CASE \E code \in Rcodes : Answer(u, code) /\ UNCHANGED out
    BY <1>b, <2>1 DEF TypeOK, Answer
  <2>2. CASE /\ pc' = [pc EXCEPT ![u] = "apply"]
             /\ out' = [out EXCEPT ![u] = rrs]
             /\ UNCHANGED rcode
    BY <1>b, <2>2 DEF TypeOK
  <2> QED BY <1>a, <2>1, <2>2
<1>2. ZoneWellFormed'
  BY DEF ZoneWellFormed, Check
<1>3. LockHeld'
  BY <1>a, <1>b DEF TypeOK, LockHeld, Answer
<1>4. ASSUME NEW v \in Updaters, pc'[v] = "apply" PROVE Applying(v)'
  <2>1. CASE v = u
    <3>1. /\ checkPrereqs(rrs, msg[u].prereqs) = "NOERROR"
          /\ prescan(msg[u].updates) = "NOERROR"
          /\ out'[u] = rrs /\ rrs' = rrs /\ msg' = msg
      BY <1>4, <2>1 DEF TypeOK, Check, Answer
    <3>2. WellFormed(rrs)
      BY DEF ZoneWellFormed
    <3> QED BY Zenon, <2>1, <3>1, <3>2 DEF Applying, SerialSoFar
  <2>2. CASE v # u
    <3>1. pc[v] = "apply" /\ out'[v] = out[v]
      BY <1>4, <2>2 DEF TypeOK, Check, Answer
    <3> QED BY <3>1, ApplyingFrame DEF Check
  <2> QED BY <2>1, <2>2
<1> QED BY <1>1, <1>2, <1>3, <1>4

(* One more record: by the lemmas on zones, the working copy stays a zone, *)
(* its serial moves only by an added SOA, and only forward.                *)
LEMMA ApplyInd ==
    ASSUME IndInv, NEW u \in Updaters, ApplyRecord(u)
    PROVE  IndInv'
<1> USE DEF IndInv
<1> DEFINE h == msg[u].updates[next[u]]
           res == applyRecord(out[u], h)
<1>0. /\ msg[u] \in Messages /\ Applying(u)
      /\ next[u] \in 1..Len(msg[u].updates)
      /\ next[u] \in DOMAIN msg[u].updates
  <2>1. msg[u] \in Messages /\ Applying(u) /\ next[u] \in Nat \ {0}
    BY DEF TypeOK, LockHeld, ApplyRecord
  <2>2. msg[u].updates \in Seq(MsgRR)
    BY <2>1, MessageType
  <2> QED BY <2>1, <2>2 DEF ApplyRecord
<1>a. Scanned(h)
  BY <1>0, MessageScanned DEF Applying
<1>b. Zone(out[u])
  BY <1>0 DEF Zone, Applying, TypeOK
<1> HIDE DEF h
<1>c. /\ Zone(res[1]) /\ res[2] \in BOOLEAN
      /\ \/ soaOf(res[1]) = soaOf(out[u])
         \/ /\ h.class = "IN" /\ h.type = "SOA"
            /\ serialGreater(soaOf(res[1]).data, soaOf(out[u]).data)
  BY <1>a, <1>b, ApplyRecordKeepsZone
<1>d. TypePolicy => \A t \in DataTypes \ Mutable :
                      Untouchable(res[1], t) = Untouchable(out[u], t)
  BY <1>a, <1>b, PolicyKept
<1>e. /\ out' = [out EXCEPT ![u] = res[1]]
      /\ changed' = [changed EXCEPT ![u] = @ \/ res[2]]
      /\ next' = [next EXCEPT ![u] = @ + 1]
      /\ UNCHANGED <<rrs, view, mu, pc, msg, rcode, snap, notified, restarts>>
  BY DEF ApplyRecord, h
<1> HIDE DEF res
<1>1. TypeOK'
  <2>1. res[1] \in SUBSET RR
    BY ZenonT(60), <1>c DEF Zone
  <2>2. changed' \in [Updaters -> BOOLEAN]
    BY ZenonT(60), <1>c, <1>e DEF TypeOK
  <2>3. out' \in [Updaters -> SUBSET RR]
    BY <2>1, <1>e DEF TypeOK
  <2>4. next' \in [Updaters -> Nat \ {0}]
    <3>1. next \in [Updaters -> Nat \ {0}] /\ next' = [next EXCEPT ![u] = @ + 1]
      BY Zenon, <1>e DEF TypeOK
    <3> QED BY <3>1
  <2>5. UNCHANGED <<rrs, view, mu, pc, msg, rcode, snap, notified, restarts>>
    BY <1>e
  <2> QED BY ZenonT(60), <2>2, <2>3, <2>4, <2>5 DEF TypeOK
<1>2. ZoneWellFormed'
  BY <1>e DEF ZoneWellFormed
<1>3. LockHeld'
  BY <1>e DEF LockHeld
<1>4. ASSUME NEW v \in Updaters, pc'[v] = "apply" PROVE Applying(v)'
  <2>1. CASE v # u
    <3>1. out'[v] = out[v] /\ next'[v] = next[v]
      BY <1>e, <2>1 DEF TypeOK
    <3> QED BY <1>4, <1>e, <3>1, ApplyingFrame
  <2>2. CASE v = u
    <3>1. out'[u] = res[1] /\ next'[u] = next[u] + 1 /\ next[u] \in Nat
      BY Zenon, <1>e DEF TypeOK
    <3>2. WellFormed(out'[u])
      BY <3>1, <1>c DEF Zone
    <3>3. OneSOAAdd(msg[u]) => SerialSoFar(u)'
      <4> SUFFICES ASSUME OneSOAAdd(msg[u]) PROVE SerialSoFar(u)'
        OBVIOUS
      <4>1. SerialSoFar(u)
        BY <1>0 DEF Applying
      <4>2. CASE soaOf(res[1]) = soaOf(out[u])
        <5>1. CASE soaOf(out[u]).data = soaOf(rrs).data
          BY ZenonT(60), <4>2, <5>1, <3>1, <1>e DEF SerialSoFar
        <5>2. CASE /\ \E i \in DOMAIN msg[u].updates :
                         i < next[u] /\ AddsSOA(msg[u], i)
                   /\ serialGreater(soaOf(out[u]).data, soaOf(rrs).data)
          <6>1. PICK i \in DOMAIN msg[u].updates : i < next[u] /\ AddsSOA(msg[u], i)
            BY <5>2
          <6>2. i \in Nat
            BY <1>0, MessageType
          <6>3. i < next'[u]
            BY <3>1, <6>1, <6>2
          <6>4. serialGreater(soaOf(out'[u]).data, soaOf(rrs').data)
            BY <4>2, <5>2, <3>1, <1>e
          <6>5. i \in DOMAIN msg'[u].updates /\ AddsSOA(msg'[u], i)
            BY <6>1, <1>e
          <6> QED BY <6>3, <6>4, <6>5 DEF SerialSoFar, AddsSOA
        <5> QED BY ZenonT(60), <4>1, <5>1, <5>2 DEF SerialSoFar
      <4>3. CASE /\ h.class = "IN" /\ h.type = "SOA"
                 /\ serialGreater(soaOf(res[1]).data, soaOf(out[u]).data)
        <5>1. AddsSOA(msg[u], next[u])
          BY <4>3 DEF AddsSOA, h
        <5>2. ~\E i \in DOMAIN msg[u].updates : i < next[u] /\ AddsSOA(msg[u], i)
          BY <5>1, <1>0, <3>1 DEF OneSOAAdd
        <5>3. soaOf(out[u]).data = soaOf(rrs).data
          BY <4>1, <5>2 DEF SerialSoFar
        <5>4. serialGreater(soaOf(out'[u]).data, soaOf(rrs').data)
          <6>1. rrs' = rrs
            BY <1>e
          <6>2. serialGreater(soaOf(res[1]).data, soaOf(out[u]).data)
            BY <4>3
          <6> QED BY Zenon, <3>1, <5>3, <6>1, <6>2
        <5>5. next[u] < next'[u]
          BY <3>1
        <5> QED BY <5>1, <5>4, <5>5, <1>0, <1>e DEF SerialSoFar, AddsSOA
      <4> QED BY <1>c, <4>2, <4>3
    <3>4. TypePolicy => \A t \in DataTypes \ Mutable :
                          Untouchable(out'[u], t) = Untouchable(rrs', t)
      BY ZenonT(60), <1>0, <1>d, <1>e, <3>1 DEF Applying
    <3> QED BY ZenonT(60), <2>2, <3>2, <3>3, <3>4, <1>0, <1>e DEF Applying
  <2> QED BY <2>1, <2>2
<1> QED BY <1>1, <1>2, <1>3, <1>4

(* What the handler is about to swap in: a zone whose serial is not the    *)
(* old one, ahead of it if the message adds at most one SOA, and within    *)
(* the type policy.                                                        *)
LEMMA ToSwap ==
    ASSUME IndInv, NEW u \in Updaters, pc[u] = "apply"
    PROVE  LET new == toSwap(rrs, out[u])
           IN  /\ Zone(new)
               /\ soaOf(new).data # soaOf(rrs).data
               /\ OneSOAAdd(msg[u]) => serialGreater(soaOf(new).data, soaOf(rrs).data)
               /\ TypePolicy => \A t \in DataTypes \ Mutable :
                                   Untouchable(new, t) = Untouchable(rrs, t)
<1> USE DEF IndInv
<1>1. Applying(u)
  OBVIOUS
<1>2. Zone(out[u]) /\ Zone(rrs)
  BY <1>1 DEF Zone, Applying, TypeOK, ZoneWellFormed
<1>3. hasSOA(rrs) /\ hasSOA(out[u])
  BY <1>2 DEF Zone, WellFormed, OneSOA
<1>4. soaOf(rrs).data \in Serials
  BY <1>2, TheSOA DEF Zone, WellFormed
<1>5. CASE soaOf(out[u]).data = soaOf(rrs).data
  <2>1. toSwap(rrs, out[u]) = bumpSerial(out[u])
    BY <1>3, <1>5 DEF toSwap
  <2>2. /\ Zone(bumpSerial(out[u]))
        /\ soaOf(bumpSerial(out[u])).data = nextSerial(soaOf(rrs).data)
    BY <1>2, <1>5, BumpKeepsZone
  <2>3. \A t : Untouchable(bumpSerial(out[u]), t) = Untouchable(out[u], t)
    BY <1>2, BumpKeepsPolicy
  <2>4. /\ nextSerial(soaOf(rrs).data) # soaOf(rrs).data
        /\ serialGreater(nextSerial(soaOf(rrs).data), soaOf(rrs).data)
    BY <1>4, NextSerialMoves, NextSerialForward
  <2> QED BY ZenonT(60), <1>1, <2>1, <2>2, <2>3, <2>4 DEF Applying
<1>6. CASE soaOf(out[u]).data # soaOf(rrs).data
  <2>1. toSwap(rrs, out[u]) = out[u]
    BY <1>6 DEF toSwap
  <2> QED BY ZenonT(60), <1>1, <1>2, <1>6, <2>1 DEF Applying, SerialSoFar
<1> QED BY Zenon, <1>5, <1>6

(* Two handlers are never applying at once. *)
LEMMA OneApplies ==
    ASSUME IndInv, NEW u \in Updaters, NEW v \in Updaters,
           pc[u] = "apply", pc[v] = "apply"
    PROVE  u = v
BY DEF IndInv, LockHeld

(* The step that may change the zone. *)
LEMMA CommitInd ==
    ASSUME IndInv, NEW u \in Updaters, Commit(u)
    PROVE  IndInv'
<1> USE DEF IndInv
<1> DEFINE new == toSwap(rrs, out[u])
<1>0. pc[u] = "apply" /\ Zone(new)
  BY Zenon, ToSwap DEF Commit
<1>a. \/ /\ \E code \in {"NOERROR", "SERVFAIL"} : Answer(u, code)
         /\ UNCHANGED <<rrs, view>>
      \/ /\ rrs' = new /\ view' = new
         /\ rcode' = [rcode EXCEPT ![u] = "NOERROR"]
         /\ \E next_pc \in {"notify", "reply"} : pc' = [pc EXCEPT ![u] = next_pc]
  BY DEF Commit, swap
<1>b. UNCHANGED <<mu, msg, out, changed, next, snap, notified, restarts>>
  BY DEF Commit
<1> HIDE DEF new
<1>c. \E code \in Rcodes, next_pc \in {"notify", "reply"} :
          /\ rcode' = [rcode EXCEPT ![u] = code]
          /\ pc' = [pc EXCEPT ![u] = next_pc]
  BY <1>a DEF Answer, Rcodes
<1>d. (rrs' = rrs /\ view' = view) \/ (rrs' = new /\ view' = new)
  BY <1>a
<1>1. TypeOK'
  <2>1. rrs' \in SUBSET RR /\ view' \in SUBSET RR
    BY <1>0, <1>d DEF TypeOK, Zone
  <2>2. /\ rcode' \in [Updaters -> Rcodes \cup {"none"}]
        /\ pc' \in [Updaters -> {"idle", "lock", "check", "apply", "notify",
                                "reply", "unlock"}]
    BY <1>c DEF TypeOK
  <2> QED BY <1>b, <2>1, <2>2 DEF TypeOK
<1>2. ZoneWellFormed'
  BY <1>0, <1>b, <1>d DEF ZoneWellFormed, Zone
<1>3. LockHeld'
  BY <1>0, <1>b, <1>c DEF LockHeld, TypeOK
<1>4. ASSUME NEW v \in Updaters, pc'[v] = "apply" PROVE FALSE
  <2>1. v # u /\ pc[v] = "apply"
    BY <1>4, <1>c DEF TypeOK
  <2> QED BY <1>0, <2>1, OneApplies
<1> QED BY <1>1, <1>2, <1>3, <1>4

(* Notifying, replying and unlocking leave the zone alone. *)
LEMMA FinishInd ==
    ASSUME IndInv, NEW u \in Updaters, Notify(u) \/ Reply(u) \/ Unlock(u)
    PROVE  IndInv'
<1> USE DEF IndInv
<1>a. CASE Notify(u)
  <2>1. TypeOK'
    BY <1>a DEF TypeOK, Notify
  <2>2. ZoneWellFormed'
    BY <1>a DEF ZoneWellFormed, Notify
  <2>3. LockHeld'
    BY <1>a DEF TypeOK, LockHeld, Notify
  <2>4. ASSUME NEW v \in Updaters, pc'[v] = "apply" PROVE Applying(v)'
    <3>1. pc[v] = "apply"
      BY <1>a, <2>4 DEF TypeOK, Notify
    <3> QED BY Zenon, <1>a, <3>1, ApplyingFrame DEF Notify
  <2> QED BY <2>1, <2>2, <2>3, <2>4
<1>b. CASE Reply(u) /\ mu = u
  <2>1. TypeOK'
    BY <1>b DEF TypeOK, Reply
  <2>2. ZoneWellFormed'
    BY <1>b DEF ZoneWellFormed, Reply
  <2>3. LockHeld'
    BY <1>b DEF TypeOK, LockHeld, Reply
  <2>4. ASSUME NEW v \in Updaters, pc'[v] = "apply" PROVE Applying(v)'
    <3>1. pc[v] = "apply"
      BY <1>b, <2>4 DEF TypeOK, Reply
    <3> QED BY Zenon, <1>b, <3>1, ApplyingFrame DEF Reply
  <2> QED BY <2>1, <2>2, <2>3, <2>4
<1>c. CASE (Reply(u) /\ mu # u) \/ Unlock(u)
  <2>a. Done(u) /\ UNCHANGED <<rrs, view, snap, notified, restarts>>
    BY <1>c DEF Reply, Unlock
  <2>b. (mu # u /\ mu' = mu) \/ (mu = u /\ mu' = Nobody)
    BY <1>c DEF Reply, Unlock, LockHeld
  <2>1. TypeOK'
    BY <2>a, <2>b DEF TypeOK, Done
  <2>2. ZoneWellFormed'
    BY Zenon, <2>a DEF ZoneWellFormed
  <2>3. LockHeld'
    BY <2>a, <2>b, ServerAssumption DEF TypeOK, LockHeld, Done
  <2>4. ASSUME NEW v \in Updaters, pc'[v] = "apply" PROVE Applying(v)'
    <3>1. /\ pc[v] = "apply" /\ msg'[v] = msg[v] /\ out'[v] = out[v]
          /\ next'[v] = next[v]
      BY <2>4, <2>a DEF TypeOK, Done
    <3> QED BY Zenon, <2>a, <3>1, ApplyingFrame
  <2> QED BY <2>1, <2>2, <2>3, <2>4
<1> QED BY <1>a, <1>b, <1>c

(* Readers copy the view, which is a zone; a restart begins again. *)
LEMMA OthersInd ==
    ASSUME IndInv,
           Restart \/ \E r \in Readers : StartRead(r) \/ FinishRead(r)
    PROVE  IndInv'
<1> USE DEF IndInv
<1>a. CASE \E r \in Readers : StartRead(r) \/ FinishRead(r)
  <2>0. PICK r \in Readers : StartRead(r) \/ FinishRead(r)
    BY <1>a
  <2>a. UNCHANGED <<rrs, view, mu, updaterVars, restarts>>
    BY <2>0 DEF StartRead, FinishRead
  <2>b. \/ snap' = [snap EXCEPT ![r] = view]
        \/ snap' = [snap EXCEPT ![r] = {}]
    BY <2>0 DEF StartRead, FinishRead
  <2>c. notified' \in SUBSET Readers
    BY <2>0 DEF StartRead, FinishRead, TypeOK
  <2>1. TypeOK'
    BY <2>a, <2>b, <2>c DEF TypeOK, updaterVars
  <2>2. ZoneWellFormed'
    BY <2>a, <2>b DEF ZoneWellFormed, TypeOK
  <2>3. LockHeld'
    BY <2>a DEF LockHeld, updaterVars
  <2>4. \A v \in Updaters : pc'[v] = "apply" => Applying(v)'
    BY Zenon, <2>a, ApplyingFrame DEF updaterVars
  <2> QED BY <2>1, <2>2, <2>3, <2>4
<1>b. CASE Restart
  <2>1. TypeOK'
    BY <1>b, ServerAssumption DEF TypeOK, Restart
  <2>2. ZoneWellFormed'
    BY ZenonT(60), <1>b, ServerAssumption DEF ZoneWellFormed, Restart
  <2>3. LockHeld'
    BY <1>b, ServerAssumption DEF LockHeld, Restart
  <2>4. \A v \in Updaters : pc'[v] = "apply" => Applying(v)'
    BY <1>b DEF Restart
  <2> QED BY <2>1, <2>2, <2>3, <2>4
<1> QED BY Zenon, <1>a, <1>b

(* Every step keeps the invariant: one case per action.                    *)
LEMMA StepInd == IndInv /\ [Next]_vars => IndInv'
<1> SUFFICES ASSUME IndInv, [Next]_vars PROVE IndInv'
  OBVIOUS
<1>1. CASE \E u \in Updaters : UpdaterStep(u)
  <2>1. PICK u \in Updaters : UpdaterStep(u)
    BY <1>1
  <2>2. CASE \E m \in Messages : Receive(u, m)
    BY <2>2, ReceiveInd
  <2>3. CASE Lock(u)
    BY <2>3, LockInd
  <2>4. CASE Check(u)
    BY <2>4, CheckInd
  <2>5. CASE ApplyRecord(u)
    BY <2>5, ApplyInd
  <2>6. CASE Commit(u)
    BY <2>6, CommitInd
  <2>7. CASE Notify(u) \/ Reply(u) \/ Unlock(u)
    BY <2>7, FinishInd
  <2> QED BY <2>1, <2>2, <2>3, <2>4, <2>5, <2>6, <2>7 DEF UpdaterStep
<1>2. CASE Restart \/ \E r \in Readers : StartRead(r) \/ FinishRead(r)
  BY <1>2, OthersInd
<1>3. CASE UNCHANGED vars
  <2>1. /\ UNCHANGED <<rrs, view, mu, pc, msg, out, changed, next, rcode, snap,
                      notified, restarts>>
    BY <1>3 DEF vars, updaterVars
  <2>2. TypeOK' /\ ZoneWellFormed' /\ LockHeld'
    BY <2>1 DEF IndInv, TypeOK, ZoneWellFormed, LockHeld
  <2>3. \A v \in Updaters : pc'[v] = "apply" => Applying(v)'
    BY <2>1, ApplyingFrame DEF IndInv
  <2> QED BY <2>2, <2>3 DEF IndInv
<1> QED BY <1>1, <1>2, <1>3 DEF Next

(* Every behaviour of the plugin keeps the inductive invariant. *)
THEOREM Invariance == Spec => []IndInv
BY InitInd, StepInd, PTL DEF Spec

(* Type correctness, for every zone, message set and number of goroutines. *)
THEOREM TypeCorrect == Spec => []TypeOK
<1>1. IndInv => TypeOK
  BY DEF IndInv
<1> QED BY <1>1, Invariance, PTL

(* The served zone, and every view a reader still holds, is a zone: one    *)
(* apex SOA, an apex NS, CNAMEs alone, no duplicates; after any sequence   *)
(* of UPDATEs by any number of concurrent handlers.                        *)
THEOREM ZoneAlwaysWellFormed == Spec => []ZoneWellFormed
<1>1. IndInv => ZoneWellFormed
  BY DEF IndInv
<1> QED BY <1>1, Invariance, PTL

-----------------------------------------------------------------------------
(* Action properties: a change of the zone is a Commit, and ToSwap says    *)
(* what a Commit swaps in.                                                 *)

(* A change of the served zone is the Commit of a changed working copy.    *)
LEMMA ChangeIsCommit ==
    ASSUME IndInv, [Next]_vars, ZoneChanges
    PROVE  \E u \in Updaters :
               /\ pc[u] = "apply" /\ mu = u
               /\ view' = toSwap(rrs, out[u])
               /\ rcode' = [rcode EXCEPT ![u] = "NOERROR"]
               /\ UNCHANGED msg
<1>1. view' # view /\ restarts' = restarts
  BY DEF ZoneChanges
<1>2. ~Restart
  BY <1>1 DEF Restart, IndInv, TypeOK
<1>3. ~\E r \in Readers : StartRead(r) \/ FinishRead(r)
  BY <1>1 DEF StartRead, FinishRead
<1>4. ~UNCHANGED vars
  BY <1>1 DEF vars
<1>5. PICK u \in Updaters : UpdaterStep(u)
  BY <1>2, <1>3, <1>4 DEF Next
<1>6. Commit(u)
  BY ZenonT(60), <1>1, <1>5 DEF UpdaterStep, Receive, Lock, Check, ApplyRecord, Notify, Reply,
                    Unlock
<1>7. pc[u] = "apply" /\ mu = u
  BY Zenon, <1>6 DEF Commit, IndInv, LockHeld
<1> QED BY <1>1, <1>6, <1>7 DEF Commit, swap

(* A change of content is a change of serial: secondaries notice it. *)
THEOREM SerialTellsChange == Spec => ContentChangeMovesSerial
<1>1. IndInv /\ [Next]_vars =>
        [ZoneChanges => soaOf(view').data # soaOf(view).data]_vars
  <2> SUFFICES ASSUME IndInv, [Next]_vars, ZoneChanges
               PROVE  soaOf(view').data # soaOf(view).data
    OBVIOUS
  <2>1. view = rrs
    BY DEF IndInv, ZoneWellFormed
  <2> QED BY Zenon, <2>1, ChangeIsCommit, ToSwap
<1> QED BY <1>1, Invariance, PTL DEF Spec, ContentChangeMovesSerial

(* An UPDATE with at most one added SOA moves the serial forward. *)
THEOREM SerialForward == Spec => SerialForwardOneSOA
<1>1. IndInv /\ [Next]_vars =>
        [ZoneChanges /\ (\A u \in Updaters : mu = u => OneSOAAdd(msg[u])) =>
            serialGreater(soaOf(view').data, soaOf(view).data)]_vars
  <2> SUFFICES ASSUME IndInv, [Next]_vars, ZoneChanges,
                      \A u \in Updaters : mu = u => OneSOAAdd(msg[u])
               PROVE  serialGreater(soaOf(view').data, soaOf(view).data)
    OBVIOUS
  <2>1. view = rrs
    BY DEF IndInv, ZoneWellFormed
  <2> QED BY <2>1, ChangeIsCommit, ToSwap
<1> QED BY <1>1, Invariance, PTL DEF Spec, SerialForwardOneSOA

(* The prerequisites an UPDATE was checked against still hold in the       *)
(* version it replaces, and only an UPDATE answered NOERROR replaces one.  *)
THEOREM ChangesAreGranted == Spec => ChangeIsOneGrantedUpdate
<1>1. IndInv /\ [Next]_vars =>
        [ZoneChanges =>
          \E u \in Updaters :
            /\ rcode[u] = "none"
            /\ rcode'[u] = "NOERROR"
            /\ headerVerdict(msg[u]) = "NOERROR"
            /\ checkPrereqs(view, msg[u].prereqs) = "NOERROR"
            /\ prescan(msg[u].updates) = "NOERROR"]_vars
  <2> SUFFICES ASSUME IndInv, [Next]_vars, ZoneChanges
               PROVE  \E u \in Updaters :
                        /\ rcode[u] = "none"
                        /\ rcode'[u] = "NOERROR"
                        /\ headerVerdict(msg[u]) = "NOERROR"
                        /\ checkPrereqs(view, msg[u].prereqs) = "NOERROR"
                        /\ prescan(msg[u].updates) = "NOERROR"
    OBVIOUS
  <2>1. PICK u \in Updaters : /\ pc[u] = "apply"
                              /\ rcode' = [rcode EXCEPT ![u] = "NOERROR"]
    BY ChangeIsCommit
  <2>2. rcode[u] = "none" /\ headerVerdict(msg[u]) = "NOERROR" /\ Applying(u)
    BY <2>1 DEF IndInv, LockHeld
  <2>3. rcode'[u] = "NOERROR"
    BY <2>1 DEF IndInv, TypeOK
  <2>4. view = rrs
    BY DEF IndInv, ZoneWellFormed
  <2> QED BY ZenonT(60), <2>2, <2>3, <2>4 DEF Applying
<1> QED BY <1>1, Invariance, PTL DEF Spec, ChangeIsOneGrantedUpdate

(* Under a `mutable` list, records of every other type stay as they are. *)
THEOREM PolicyHolds == Spec => MutablePolicy
<1>1. IndInv /\ [Next]_vars =>
        [restarts' = restarts /\ TypePolicy =>
          \A t \in DataTypes \ Mutable :
            Untouchable(view', t) = Untouchable(view, t)]_vars
  <2> SUFFICES ASSUME IndInv, [Next]_vars, restarts' = restarts, TypePolicy,
                      NEW t \in DataTypes \ Mutable
               PROVE  Untouchable(view', t) = Untouchable(view, t)
    OBVIOUS
  <2>1. CASE view' = view
    BY <2>1
  <2>2. CASE view' # view
    <3>1. ZoneChanges
      BY <2>2 DEF ZoneChanges
    <3>2. view = rrs
      BY DEF IndInv, ZoneWellFormed
    <3> QED BY <3>1, <3>2, ChangeIsCommit, ToSwap
  <2> QED BY <2>1, <2>2
<1> QED BY <1>1, Invariance, PTL DEF Spec, MutablePolicy

=============================================================================
