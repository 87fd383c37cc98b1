----------------------------- MODULE RadnrConfig -----------------------------
(***************************************************************************)
(* From a radnr block of the Corefile to what a host on the LAN learns:    *)
(* radnr/setup.go parses the block, internal/config validates it, OnStartup*)
(* launches Run, whose BuildRA encodes the Router Advertisement, and a     *)
(* host decodes the option the advertisement carries.                      *)
(*                                                                         *)
(* A config is a record with the fields of config.Config.  A line of the   *)
(* block is [p, v]: the field it sets and the value.  Texts and addresses  *)
(* are those of DnrOption.                                                 *)
(***************************************************************************)
EXTENDS DnrOption

CONSTANTS Blocks,           \* the blocks an operator writes
          LDH,              \* the characters 0-9 A-Z a-z and -
          WireValues,       \* the values an octet may take on a bad path
          defaultLifetime

VARIABLES block,            \* the lines not yet parsed
          config,           \* cfg, as parse fills it in
          stage,            \* how far the block has come
          ra,               \* the advertisement BuildRA returned
          arrived,          \* the octets of the option as a host gets them
          heard             \* the options the host decoded: one or none

radnrVars == <<block, config, stage, ra, arrived, heard>>

EmptyConfig ==
    [Interface |-> "", ADN |-> <<>>, DohPath |-> <<>>, UnicastTarget |-> <<>>,
     Addrs |-> <<>>, ALPN |-> <<>>, AdvertisePrefixes |-> <<>>, Port |-> 0,
     RouterLifetime |-> 0, AdvertiseRDNSS |-> FALSE, AllowDefaultRouter |-> FALSE,
     DryRun |-> FALSE]

NoRA == [routerLifetime |-> 0, option |-> <<>>, rdnss |-> <<>>]

RadnrRest ==
    /\ block = <<>> /\ config = EmptyConfig /\ stage = "none"
    /\ ra = NoRA /\ arrived = <<>> /\ heard = {}

RadnrInit ==
    /\ block \in Blocks
    /\ config = EmptyConfig
    /\ stage = "corefile"
    /\ ra = NoRA /\ arrived = <<>> /\ heard = {}

\* What directiveParsers refuse: an unknown property, a missing or surplus
\* argument, a number that needs more than 16 bits.
lineRefused(l) ==
    \/ l.p \notin DOMAIN EmptyConfig
    \/ l.p \in {"Port", "RouterLifetime"} /\ l.v > uint16Max
    \/ l.p \in {"Addrs", "ALPN", "AdvertisePrefixes"} /\ l.v = <<>>

\* addr and advertise-prefix accumulate; every other directive replaces.
applyLine(c, l) ==
    IF l.p \in {"Addrs", "AdvertisePrefixes"}
    THEN [c EXCEPT ![l.p] = @ \o l.v]
    ELSE [c EXCEPT ![l.p] = l.v]

\* parse: one line of the block.
ParseLine ==
    /\ stage = "corefile" /\ block # <<>>
    /\ IF lineRefused(Head(block))
       THEN stage' = "refused" /\ UNCHANGED config
       ELSE config' = applyLine(config, Head(block)) /\ UNCHANGED stage
    /\ block' = Tail(block)
    /\ UNCHANGED <<ra, arrived, heard>>

------------------------------------------------------------------------------
isIPv6(a) == a.is6 /\ ~Is4In6(a)

validateADN(adn) ==
    /\ trimDot(adn) # <<>>
    /\ \A i \in DOMAIN labels(trimDot(adn)) :
          LET label == labels(trimDot(adn))[i]
          IN  label # <<>> /\ Range(label) \subseteq LDH

\* Config.Validate; a unicast target is a sequence of at most one address.
ValidateConfig(c) ==
    /\ c.Interface # "" /\ c.ADN # <<>> /\ validateADN(c.ADN)
    /\ c.Addrs # <<>> /\ \A i \in DOMAIN c.Addrs : isIPv6(c.Addrs[i])
    /\ <<>> \notin Range(c.ALPN)
    /\ c.RouterLifetime # 0 => c.AllowDefaultRouter
    /\ c.AdvertisePrefixes = <<>>
    /\ \A i \in DOMAIN c.UnicastTarget : isIPv6(c.UnicastTarget[i])

\* setup: the whole block is read; what Validate accepts is registered, and
\* OnStartup, which validates again, launches Run.
SetupRadnr ==
    /\ stage = "corefile" /\ block = <<>>
    /\ stage' = IF ValidateConfig(config) THEN "started" ELSE "refused"
    /\ UNCHANGED <<block, config, ra, arrived, heard>>

option(c) ==
    [ADN |-> ParseDomainName(c.ADN), Addrs |-> c.Addrs,
     SvcParams |-> Encode(c.ALPN, c.Port, c.DohPath),
     ServicePriority |-> 1, Lifetime |-> defaultLifetime]

\* BuildRA, the first thing Run does: its error ends Run, and with it radnr.
BuildRA ==
    /\ stage = "started"
    /\ IF \/ ~ValidateConfig(config)
          \/ EncodeFails(config.ALPN, config.DohPath)
          \/ ~Validate(option(config))
       THEN stage' = "dead" /\ UNCHANGED ra
       ELSE /\ stage' = "advertising"
            /\ ra' = [routerLifetime |-> config.RouterLifetime,
                      option |-> Marshal(option(config)),
                      rdnss |-> IF config.AdvertiseRDNSS THEN config.Addrs ELSE <<>>]
    /\ UNCHANGED <<block, config, arrived, heard>>

\* A host gets the option, perhaps damaged on the way, and decodes it with
\* dnr.Unmarshal.  A dry run transmits nothing.
Hear ==
    /\ stage = "advertising" /\ ~config.DryRun
    /\ \E b \in Mangled(ra.option, WireValues) :
          arrived' = b /\ heard' = Unmarshal(b)
    /\ stage' = "heard"
    /\ UNCHANGED <<block, config, ra>>

RadnrNext == ParseLine \/ SetupRadnr \/ BuildRA \/ Hear

------------------------------------------------------------------------------
\* The reference reader of SvcParams, RFC 9460 section 2.2: the sequence of
\* <<key, value>> pairs, or <<>> when they do not fill the octets exactly.
readSvcParams(b) ==
    LET from[i \in 1..(Len(b) + 1)] ==
            IF i > Len(b) THEN <<>>
            ELSE LET val == IF i + 1 > Len(b) THEN Truncated ELSE field(b, i + 2, 2)
                 IN  IF val = Truncated THEN <<<<0, Truncated>>>>
                     ELSE <<<<readUint(b, i, 2), val>>>> \o from[i + 4 + Len(val)]
    IN  from[1]

\* What the config offers, by key, and so what a host must read.
Offered(c) ==
    {kv \in {<<keyALPN, encodeALPN(c.ALPN)>>, <<keyPort, bigEndian(c.Port, 2)>>,
             <<keyDohPath, c.DohPath>>} :
        \/ kv[1] = keyALPN /\ c.ALPN # <<>>
        \/ kv[1] = keyPort /\ c.Port # 0
        \/ kv[1] = keyDohPath /\ c.DohPath # <<>>}

(* A host that gets an advertisement undamaged learns what the Corefile    *)
(* says, whatever the order and repetition of its lines and however close  *)
(* the option is to the size its Length octet can express: the name without*)
(* its trailing dot, every address, each SvcParam once and in ascending key*)
(* order; and the daemon is a default router only where the block says     *)
(* allow-default-router.                                                   *)
HostLearnsConfig ==
    stage = "heard" /\ arrived = ra.option =>
        /\ \E o \in heard :
              /\ o.ADN = trimDot(config.ADN)
              /\ o.Addrs = config.Addrs
              /\ LET ps == readSvcParams(o.SvcParams) IN
                 /\ Range(ps) = Offered(config)
                 /\ \A i, j \in DOMAIN ps : i < j => ps[i][1] < ps[j][1]
              /\ o.Lifetime = defaultLifetime
        /\ ra.routerLifetime # 0 => config.AllowDefaultRouter

(* What a host decodes from octets the path has damaged, cut short or      *)
(* lengthened is an option Validate accepts and Marshal encodes so that it *)
(* decodes to the same option again ("exactly the options that Validate    *)
(* accepts can be encoded, and exactly those can be decoded"), and its name*)
(* is the one on the wire label by label, never another split of it.       *)
DecodedIsEncodable ==
    \A o \in heard :
        /\ Validate(o) /\ Unmarshal(Marshal(o)) = {o}
        /\ IsPrefix(wire(o.ADN), field(parseHeader(arrived), 7, 2))

(* A config that setup and OnStartup accepted is advertised.  Config.      *)
(* Validate is weaker than BuildRA: a label of more than 63 characters, an *)
(* over-long name or ALPN id, an address with a zone and an option that is *)
(* too large all pass it.                                                  *)
AcceptedIsAdvertised == stage # "dead"

\* The labels of a wire name end at a root label, and are not it alone.
framed(b) ==
    LET ends[i \in 1..(Len(b) + 1)] ==
            i <= Len(b) /\ (b[i] = 0 \/ (i + b[i] <= Len(b) /\ ends[i + b[i] + 1]))
    IN  ends[1] /\ b[1] # 0

(* verification/README.md and Dnr.lean's decodeADN_not_injective say that  *)
(* decodeADN accepts every framed name, "a label containing `.`" and label *)
(* lengths 64-255 included.  It refuses the first itself and the second in *)
(* ParseDomainName.                                                        *)
FramedNameDecodes ==
    stage = "heard" =>
        LET adn == field(parseHeader(arrived), 7, 2)
        IN  adn # Truncated /\ framed(adn) => decodeADN(adn) # NoName
=============================================================================
