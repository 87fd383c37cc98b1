-------------------------------- MODULE Wire --------------------------------
(***************************************************************************)
(* Octet strings, as encoding/binary and the two hand-written codecs of    *)
(* the repository (radnr/pkg/dnr and probe/echconfig.go) see them: a       *)
(* sequence of values below Octets, 256 in the code.  A smaller radix      *)
(* keeps every width rule (a 16-bit length is two octets and wraps at      *)
(* Octets^2) within TLC's reach.                                           *)
(***************************************************************************)
EXTENDS Integers, Sequences, Functions

CONSTANTS Octets,   \* how many values an octet has
          Dot       \* the character '.'

ASSUME OctetsAssumption == Octets \in Nat /\ Octets > 1

Octet == 0 .. (Octets - 1)

\* binary.BigEndian.AppendUint16/32 after a Go conversion: what does not fit
\* in w octets is cut off, silently.
bigEndian(n, w) == [k \in 1..w |-> (n \div Octets^(w - k)) % Octets]

\* binary.BigEndian.Uint16/32 of the w octets of b from position i.
readUint(b, i, w) ==
    LET n[k \in 0..w] == IF k = 0 THEN 0 ELSE n[k - 1] * Octets + b[i + k - 1]
    IN  n[w]

\* What a read past the end yields: no octet string holds a -1, so one test
\* at the end of a parse stands for the early returns along it.
Truncated == <<-1>>

\* The field at position i of b that a w-octet length announces.
field(b, i, w) ==
    IF i + w - 1 <= Len(b) /\ i + w - 1 + readUint(b, i, w) <= Len(b)
    THEN SubSeq(b, i + w, i + w - 1 + readUint(b, i, w))
    ELSE Truncated

prefixed(b, w) == bigEndian(Len(b), w) \o b

\* What the path may make of an octet string: nothing, another value of one
\* octet, a shorter string, or octets after its end.
Mangled(b, Values) ==
    {b} \cup {[b EXCEPT ![i] = v] : i \in DOMAIN b, v \in Values}
        \cup {SubSeq(b, 1, n) : n \in 0 .. (Len(b) - 1)}
        \cup {b \o <<v>> : v \in Values}
=============================================================================
