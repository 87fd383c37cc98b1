---------------------------- MODULE MCSniReload ----------------------------
(***************************************************************************)
(* Small instances of SniReload.                                           *)
(***************************************************************************)
EXTENDS SniReload, TLC

CONSTANTS a, b, main, none

MCLower == [l \in {"", "*", "f*", "dns", "WWW", "www", "net"} |->
               IF l = "WWW" THEN "www" ELSE l]

(* Pair 1 is a wildcard certificate that gains a host name.  Pair 2 is a   *)
(* host certificate; its third issue has no name a client could match.     *)
MCSANs ==
    <<<< {<<"*", "net">>}, {<<"*", "net">>, <<"WWW", "net">>},
         {<<"*", "net">>} >>,
      << {<<"dns", "net">>, <<"f*", "net">>}, {<<"dns", "net">>},
         {<<"f*", "net">>, <<"*">>} >>>>

PlainCfg == [strict |-> TRUE, noSNI |-> "asUnmatched"]
NoSNICfg == [strict |-> TRUE, noSNI |-> "cert"]

(* Every version has a content of its own; and the third and fourth bring   *)
(* the first two back.                                                     *)
MCFresh == [v \in 0..MaxVersion |-> v]
MCTakenBack == [v \in 0..MaxVersion |-> IF v < 3 THEN v ELSE v - 2]

PollerSymmetry == Permutations(Pollers)

=============================================================================
