---------------------------- MODULE MCDynUpdate ----------------------------
(***************************************************************************)
(* Instances of DynUpdate for TLC: a zone with its apex and two names, a   *)
(* serial space of 8, and the UPDATE messages the runs send.               *)
(***************************************************************************)
EXTENDS DynUpdate

CONSTANTS apex, www, elsewhere, d1, d2, nodata, nobody

rr(n, t, d, l) == [name |-> n, type |-> t, data |-> d, ttl |-> l]
mrr(c, n, t, d, l) == [class |-> c, name |-> n, type |-> t, data |-> d, ttl |-> l]
Add(n, t, d) == mrr("IN", n, t, d, 1)
DelSet(n, t) == mrr("ANY", n, t, nodata, 0)
DelRR(n, t, d) == mrr("NONE", n, t, d, 0)
Update(us) == [zone |-> "ours", tsig |-> TRUE, prereqs |-> <<>>, updates |-> us]
Guarded(ps, us) == [Update(us) EXCEPT !.prereqs = ps]

MCSeed == {rr(apex, "SOA", 2 * Half - 2, 1), rr(apex, "NS", d1, 1), rr(www, "TXT", d1, 1)}

-----------------------------------------------------------------------------
(* Content: every message of one or two of these update records. *)

ContentRecords ==
    { Add(apex, "SOA", 1), Add(apex, "SOA", 4), Add(apex, "NS", d2),
      Add(www, "TXT", d1), mrr("IN", www, "TXT", d1, 0),
      Add(www, "CNAME", d1), Add(www, "CNAME", d2), Add(www, "RRSIG", d1),
      DelSet(apex, "ANY"), DelSet(www, "ANY"),
      DelRR(apex, "NS", d1), DelRR(www, "TXT", d1) }

ContentMessages ==
    {Update(<<a>>) : a \in ContentRecords}
        \cup {Update(<<a, b>>) : a, b \in ContentRecords}
-----------------------------------------------------------------------------
(* Concurrency: updates that depend on what others did, and ones that fail *)
(* at each stage of serveUpdate.                                           *)

InUse(n) == mrr("ANY", n, "ANY", nodata, 0)
NotInUse(n) == mrr("NONE", n, "ANY", nodata, 0)
SetExists(n, t) == mrr("ANY", n, t, nodata, 0)
SetAbsent(n, t) == mrr("NONE", n, t, nodata, 0)
Equals(n, t, d) == mrr("IN", n, t, d, 0)

RacingMessages ==
    { Guarded(<<Equals(www, "TXT", d1)>>, <<DelSet(www, "TXT"), Add(www, "TXT", d2)>>),
      Guarded(<<Equals(www, "TXT", d2)>>, <<Add(www, "TXT", d1), DelRR(www, "TXT", d2)>>),
      Guarded(<<NotInUse(www)>>, <<Add(www, "CNAME", d1)>>),
      Update(<<DelSet(www, "ANY"), Add(www, "NSEC3", d1)>>),
      Update(<<DelSet(www, "ANY")>>),
      [Update(<<DelSet(www, "ANY")>>) EXCEPT !.tsig = FALSE] }

(* Policy and rejection: every message of one or two of these records,     *)
(* when A records are not in the `mutable` list, and every kind of header  *)
(* and prerequisite.                                                       *)
PolicyRecords ==
    { Add(www, "TXT", d1), Add(www, "TXT", d2), Add(www, "A", d1),
      Add(www, "CNAME", d1), Add(apex, "SOA", 1), Add(elsewhere, "TXT", d1),
      Add(www, "META", d1), mrr("OTHER", www, "TXT", d1, 0),
      mrr("ANY", www, "TXT", d1, 0), mrr("NONE", www, "TXT", d1, 1),
      DelSet(www, "TXT"), DelSet(www, "A"), DelSet(www, "ANY"),
      DelSet(apex, "NS"), DelRR(www, "A", d2), DelRR(www, "TXT", d1) }

PolicyPrereqs ==
    { InUse(www), NotInUse(www), SetExists(www, "TXT"), SetAbsent(www, "TXT"),
      Equals(www, "TXT", d1), Equals(www, "TXT", d2), Equals(elsewhere, "TXT", d1),
      mrr("IN", www, "TXT", d1, 1), mrr("OTHER", www, "TXT", d1, 0),
      mrr("ANY", www, "TXT", d1, 0), mrr("NONE", www, "ANY", d1, 0) }

PolicyMessages ==
    {Update(<<a, b>>) : a, b \in PolicyRecords}
        \cup {Guarded(<<p, q>>, <<Add(www, "TXT", d2)>>) : p, q \in PolicyPrereqs}
        \cup [zone : {"ours", "other", "malformed"}, tsig : BOOLEAN,
              prereqs : {<<>>}, updates : {<<DelSet(www, "TXT")>>}]

EveryMessage == ContentMessages \cup PolicyMessages

PolicySeed == MCSeed \cup {rr(www, "A", d1, 1), rr(www, "A", d2, 1)}
=============================================================================
