------------------------------ MODULE DnrOption ------------------------------
(***************************************************************************)
(* The RFC 9463 Encrypted DNS option, radnr/pkg/dnr/dnr.go, with the       *)
(* SvcParams it carries, radnr/pkg/svcparams/svcparams.go.                 *)
(*                                                                         *)
(* Texts are sequences of octets, so that a name is split and joined at    *)
(* its dots as the code does it.  The wire's sizes are constants: the code *)
(* has OptionType 144, octetUnit 8, ipv6Size 16, maxLabelLen 63 and        *)
(* maxNameLen 255 with Octets = 256.                                       *)
(***************************************************************************)
EXTENDS Wire, SequencesExt

CONSTANTS OptionType, octetUnit, ipv6Size, maxLabelLen, maxNameLen,
          Mapped        \* first octet of the 4-in-6 range, ::ffff:0:0/96

maxLengthUnits == Octets - 1
uint16Max == Octets * Octets - 1

\* strings.Split(text, ".")
labels(text) ==
    FoldLeft(LAMBDA ls, c : IF c = Dot THEN Append(ls, <<>>)
                            ELSE [ls EXCEPT ![Len(ls)] = Append(@, c)],
             <<<<>>>>, text)

trimDot(text) ==
    IF text # <<>> /\ Last(text) = Dot THEN Front(text) ELSE text

NoName == <<>>      \* the zero DomainName, which every error path returns

ParseDomainName(text) ==
    LET name == trimDot(text) IN
    IF /\ Len(name) + 2 <= maxNameLen
       /\ \A i \in DOMAIN labels(name) : Len(labels(name)[i]) \in 1..maxLabelLen
    THEN name ELSE NoName

wire(name) ==
    FlattenSeq([i \in DOMAIN labels(name) |-> prefixed(labels(name)[i], 1)]) \o <<0>>

------------------------------------------------------------------------------
\* netip.Addr: sixteen octets, whether it was written as IPv6, and a zone.
AddrFrom16(o) == [octets |-> o, is6 |-> TRUE, zone |-> FALSE]

Is4In6(a) == a.is6 /\ a.octets[1] = Mapped

wireSize(o) ==
    LET total == 2 + 2 + 4 + 2 + Len(o.ADN) + 2 + 2 + Len(o.Addrs) * ipv6Size
                   + 2 + Len(o.SvcParams)
    IN  total + ((octetUnit - (total % octetUnit)) % octetUnit)

Validate(o) ==
    /\ o.ADN # NoName
    /\ \A i \in DOMAIN o.Addrs : LET a == o.Addrs[i] IN a.is6 /\ ~Is4In6(a) /\ ~a.zone
    /\ Len(o.Addrs) * ipv6Size <= uint16Max
    /\ Len(o.SvcParams) <= uint16Max
    /\ wireSize(o) \div octetUnit <= maxLengthUnits

\* Marshal of an option Validate accepts; the rest of the allocation is zero.
Marshal(o) ==
    LET out == bigEndian(OptionType, 1) \o bigEndian(wireSize(o) \div octetUnit, 1)
                 \o bigEndian(o.ServicePriority, 2) \o bigEndian(o.Lifetime, 4)
                 \o prefixed(wire(o.ADN), 2)
                 \o prefixed(FlattenSeq([i \in DOMAIN o.Addrs |-> o.Addrs[i].octets]), 2)
                 \o prefixed(o.SvcParams, 2)
    IN  [i \in 1..wireSize(o) |-> IF i <= Len(out) THEN out[i] ELSE 0]

------------------------------------------------------------------------------
decodeADNAnyLabel(b) ==             \* mutant: a label may hold a dot
    LET from[i \in 1..(Len(b) + 1)] ==
            IF i > Len(b) THEN Truncated
            ELSE IF b[i] = 0 THEN <<>>
            ELSE IF i + b[i] > Len(b) \/ from[i + b[i] + 1] = Truncated THEN Truncated
            ELSE <<Dot>> \o SubSeq(b, i + 1, i + b[i]) \o from[i + b[i] + 1]
    IN  IF from[1] = Truncated \/ from[1] = <<>> THEN NoName ELSE ParseDomainName(Tail(from[1]))

\* The text of a wire name.  from[i] is the text of the labels from octet i
\* on, each after a dot; what follows the root label is not looked at.
decodeADN(b) ==
    LET from[i \in 1..(Len(b) + 1)] ==
            IF i > Len(b) THEN Truncated
            ELSE IF b[i] = 0 THEN <<>>
            ELSE LET label == SubSeq(b, i + 1, i + b[i]) IN
                 IF \/ i + b[i] > Len(b)
                    \/ Dot \in Range(label)
                    \/ from[i + b[i] + 1] = Truncated
                 THEN Truncated
                 ELSE <<Dot>> \o label \o from[i + b[i] + 1]
    IN  IF from[1] \in {Truncated, <<>>} THEN NoName ELSE ParseDomainName(Tail(from[1]))

parseAddrs(b) ==
    [k \in 1..(Len(b) \div ipv6Size) |->
        AddrFrom16(SubSeq(b, (k - 1) * ipv6Size + 1, k * ipv6Size))]

\* parseHeader: the body that the Length octet announces.
parseHeader(b) ==
    IF /\ Len(b) >= octetUnit
       /\ b[1] = OptionType
       /\ b[2] # 0
       /\ b[2] * octetUnit <= Len(b)
    THEN SubSeq(b, 3, b[2] * octetUnit)
    ELSE Truncated

\* The option in b, as a set: empty when Unmarshal returns an error.
Unmarshal(b) ==
    LET p    == parseHeader(b)
        adn  == field(p, 7, 2)
        addr == field(p, 9 + Len(adn), 2)
        svc  == field(p, 11 + Len(adn) + Len(addr), 2)
        o    == [ADN |-> decodeADN(adn), Addrs |-> parseAddrs(addr), SvcParams |-> svc,
                 ServicePriority |-> readUint(p, 1, 2), Lifetime |-> readUint(p, 3, 4)]
    IN  IF \/ Truncated \in {p, adn, addr, svc}
           \/ Len(addr) % ipv6Size # 0
           \/ ~Validate(o)
        THEN {} ELSE {o}

------------------------------------------------------------------------------
keyALPN == 1
keyPort == 3
keyDohPath == 7

\* svcparams.Encode of the parameters that are present, keys ascending, and
\* whether it returns an error: an empty or over-long ALPN id, or a value that
\* a 16-bit length cannot express.
encodeALPN(ids) == FlattenSeq([i \in DOMAIN ids |-> prefixed(ids[i], 1)])

svcparam(key, val) == bigEndian(key, 2) \o prefixed(val, 2)

EncodeFails(ALPN, DohPath) ==
    \/ \E i \in DOMAIN ALPN : Len(ALPN[i]) \notin 1..(Octets - 1)
    \/ Len(encodeALPN(ALPN)) > uint16Max
    \/ Len(DohPath) > uint16Max

EncodeByInsertion(ALPN, Port, DohPath) ==   \* mutant: dohpath before the port
    (IF ALPN # <<>> THEN svcparam(keyALPN, encodeALPN(ALPN)) ELSE <<>>)
      \o (IF DohPath # <<>> THEN svcparam(keyDohPath, DohPath) ELSE <<>>)
      \o (IF Port # 0 THEN svcparam(keyPort, bigEndian(Port, 2)) ELSE <<>>)

Encode(ALPN, Port, DohPath) ==
    (IF ALPN # <<>> THEN svcparam(keyALPN, encodeALPN(ALPN)) ELSE <<>>)
      \o (IF Port # 0 THEN svcparam(keyPort, bigEndian(Port, 2)) ELSE <<>>)
      \o (IF DohPath # <<>> THEN svcparam(keyDohPath, DohPath) ELSE <<>>)
=============================================================================
