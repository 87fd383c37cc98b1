------------------------------ MODULE EchConfig ------------------------------
(***************************************************************************)
(* The ECH transport canary, probe/echconfig.go: the ECHConfigList a probe *)
(* zone serves in its HTTPS records, and what can be read of it after the  *)
(* path between the server and the visitor.                                *)
(*                                                                         *)
(* The key's length and the code points are scaled to the radix of Wire;   *)
(* the code has x25519PubKeyLen 32, echVersion 0xfe0d and KEM 0x0020.      *)
(***************************************************************************)
EXTENDS Wire

CONSTANTS x25519PubKeyLen, echVersion, echKEMX25519, echSuite,
          CanaryIDs, CanaryKeys, CanaryNames,   \* what the list may be built from
          PathValues                            \* octets a bad path writes

VARIABLES canary,       \* configID, publicKey and publicName
          served,       \* the list BuildECHConfigList returned, <<>> for none
          got,          \* the list the visitor gets
          parsed        \* what ParseECHConfigList makes of it, a set of at most one

echVars == <<canary, served, got, parsed>>

NoCanary == [id |-> 0, key |-> <<>>, name |-> <<>>]

EchRest == canary = NoCanary /\ served = <<>> /\ got = <<>> /\ parsed = {}

EchInit ==
    /\ canary \in [id : CanaryIDs, key : CanaryKeys, name : CanaryNames]
    /\ served = <<>> /\ got = <<>> /\ parsed = {}

buildHPKEKeyConfig(id, key) ==
    <<id>> \o bigEndian(echKEMX25519, 2) \o prefixed(key, 2) \o prefixed(echSuite, 2)

\* No key of another length and no name an 8-bit length cannot express; the
\* 16-bit lengths cannot overflow then.
buildable(c) == Len(c.key) = x25519PubKeyLen /\ Len(c.name) < Octets

BuildECHConfigList(c) ==
    LET contents == buildHPKEKeyConfig(c.id, c.key)
                      \o <<0>> \o prefixed(c.name, 1) \o bigEndian(0, 2)
    IN  prefixed(bigEndian(echVersion, 2) \o prefixed(contents, 2), 2)

\* The outer length must be exact; of what it announces only the first
\* config is read, and of that neither the suites nor the extensions.
ParseOuterLoosely(b) ==             \* mutant: octets may be missing at the end
    LET cfg == SubSeq(b, 3, Len(b))
        c   == IF Len(cfg) < 4 THEN Truncated ELSE field(cfg, 3, 2)
        key == IF Len(c) < 5 THEN Truncated ELSE field(c, 4, 2)
        at  == 6 + Len(key)
        suites == field(c, at, 2)
        end == at + 2 + Len(suites)
        name == field(c, end + 1, 1)
    IN  IF \/ Truncated \in {c, key, suites, name}
           \/ readUint(cfg, 1, 2) # echVersion
           \/ readUint(c, 2, 2) # echKEMX25519
           \/ Len(suites) % 4 # 0
        THEN {} ELSE {[id |-> c[1], key |-> key, name |-> name]}

ParseECHConfigList(b) ==
    LET outer == IF Len(b) < 2 THEN Truncated ELSE field(b, 1, 2)
        cfg == IF Len(b) = 2 + Len(outer) THEN outer ELSE Truncated
        c   == IF Len(cfg) < 4 THEN Truncated ELSE field(cfg, 3, 2)
        key == IF Len(c) < 5 THEN Truncated ELSE field(c, 4, 2)
        at  == 6 + Len(key)
        suites == field(c, at, 2)
        end == at + 2 + Len(suites)
        name == field(c, end + 1, 1)
    IN  IF \/ Truncated \in {cfg, c, key, suites, name}
           \/ readUint(cfg, 1, 2) # echVersion
           \/ readUint(c, 2, 2) # echKEMX25519
           \/ Len(suites) % 4 # 0
        THEN {} ELSE {[id |-> c[1], key |-> key, name |-> name]}

\* setup builds the list once, and refuses the block when it cannot.
ServeCanary ==
    /\ served = <<>> /\ buildable(canary)
    /\ served' = BuildECHConfigList(canary)
    /\ UNCHANGED <<canary, got, parsed>>

\* A visitor reads the parameter off a record that came over a path which
\* may rewrite or shorten it.
ReadCanary ==
    /\ served # <<>> /\ got = <<>>
    /\ \E b \in Mangled(served, PathValues) : got' = b /\ parsed' = ParseECHConfigList(b)
    /\ UNCHANGED <<canary, served>>

EchNext == ServeCanary \/ ReadCanary

------------------------------------------------------------------------------
\* Where the list says nothing that ParseECHConfigList returns: the config's
\* length (a shorter one only cuts the extensions off), the suite, the
\* maximum_name_length and the extensions.
Unread ==
    LET suite == 2 + 4 + 1 + 2 + 2 + x25519PubKeyLen + 2
        name  == suite + 4 + 2
    IN  {5, 6} \cup (suite + 1)..(suite + 5)
               \cup {name + Len(canary.name) + 1, name + Len(canary.name) + 2}

(* What the canary measures: a list that arrives as it was served reads    *)
(* back as the zone's key and name, one that is cut short or lengthened    *)
(* never parses, and one in which an octet was rewritten parses to the     *)
(* served values only if that octet is none they depend on.                *)
RewriteIsSeen ==
    got # <<>> =>
        /\ got = served => parsed = {canary}
        /\ Len(got) # Len(served) => parsed = {}
        /\ got # served /\ parsed = {canary} =>
              \A i \in DOMAIN served : got[i] # served[i] => i \in Unread

(* "enough to distinguish intact from rewritten": a visitor told of any    *)
(* rewriting.                                                              *)
AnyRewriteIsSeen == got \notin {<<>>, served} => parsed # {canary}
=============================================================================
