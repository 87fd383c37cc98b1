----------------------------- MODULE ProbeNames -----------------------------
(***************************************************************************)
(* The names the probe plugin serves: the grammar of probe names           *)
(* (labels.go), the DNS-SD browse tree (dnssd.go), key tag queries         *)
(* (keytag.go) and error reports sent to the agent domain (errorreport.go).*)
(*                                                                         *)
(* A name is the zone it is in and the sequence of labels below that zone, *)
(* already in lower case.  The label "ZONE" inside a report stands for the *)
(* labels of the probe zone.                                               *)
(***************************************************************************)
EXTENDS Integers, Sequences, FiniteSets, Functions

CONSTANTS
    Tokens,            \* labels parseToken accepts: hex, 8 to 32 long
    KeyTagLabels,      \* well-formed _ta- labels
    BadKeyTagLabels,   \* labels that start with _ta- and are not key tags
    Decimals,          \* labels parseDecimalLabel accepts
    maxReportLabels, minReportLabels

ASSUME NamesAssumption ==
    /\ minReportLabels \in Nat /\ maxReportLabels \in Nat
    /\ 5 <= minReportLabels /\ minReportLabels <= maxReportLabels

-----------------------------------------------------------------------------
(* labels.go *)

modifierOrder ==
    <<"_unsigned", "_badsig", "_expiredsig", "_futuresig",
      "_truncate", "_nxdomain", "_nxname", "_servfail", "_big">>

Modifiers == Range(modifierOrder)

signatureMods == {"_unsigned", "_badsig", "_expiredsig", "_futuresig"}

conflicts == {signatureMods, {"_nxdomain", "_nxname", "_servfail"}}

Validate(mods) == \A group \in conflicts : \A a, b \in mods \cap group : a = b

NotAQuery == [token |-> "", mods |-> {}]

(* The token is the label next to the zone, every other one a modifier, and*)
(* none is repeated.                                                       *)
ParseQuery(sub) ==
    LET n == Len(sub)
        mods == Range(SubSeq(sub, 1, n - 1))
    IN  IF /\ sub # <<>>
           /\ sub[n] \in Tokens
           /\ mods \subseteq Modifiers /\ Cardinality(mods) = n - 1
           /\ Validate(mods)
        THEN [token |-> sub[n], mods |-> mods]
        ELSE NotAQuery

Sub(q) == SelectSeq(modifierOrder, LAMBDA m : m \in q.mods) \o <<q.token>>

-----------------------------------------------------------------------------
(* dnssd.go, keytag.go *)

dnssdPrefix ==
    [browse    |-> <<"_services", "_dns-sd", "_udp">>,
     enumerate |-> <<"_probe", "_tcp">>,
     instance  |-> <<"probe", "_probe", "_tcp">>]

parseDNSSD(sub) ==
    LET n == Len(sub)
        kinds == {k \in DOMAIN dnssdPrefix : dnssdPrefix[k] = SubSeq(sub, 1, n - 1)}
    IN  IF n > 1 /\ sub[n] \in Tokens /\ kinds # {}
        THEN CHOOSE k \in kinds : TRUE
        ELSE "none"

ParseKeyTagQuery(sub) ==
    CASE Len(sub) = 1 /\ sub[1] \in KeyTagLabels    -> "tags"
      [] Len(sub) = 1 /\ sub[1] \in BadKeyTagLabels -> "bad"
      [] OTHER                                      -> "no"

-----------------------------------------------------------------------------
(* errorreport.go *)

(* The label count is bounded before any label is looked at.               *)
parseReportLabels(sub) ==
    LET n == Len(sub)
    IN  IF n < minReportLabels THEN "not-a-report"
        ELSE IF n > maxReportLabels THEN "malformed"
        ELSE IF sub[1] # "_er" \/ sub[n] # "_er" THEN "not-a-report"
        ELSE IF {sub[2], sub[n - 1]} \subseteq Decimals THEN "report"
        ELSE "malformed"

(* The visitor a report is about, "" when the failing name is not one the  *)
(* probe zone handed out.                                                  *)
reportToken(sub) ==
    LET n == Len(sub)
    IN  IF sub[n - 2] = "ZONE" THEN ParseQuery(SubSeq(sub, 3, n - 3)).token ELSE ""

=============================================================================
