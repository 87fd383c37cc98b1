----------------------------- MODULE ProbeObserve -----------------------------
(***************************************************************************)
(* What the probe zone reads off a query (probe/observe.go, encrypted.go,  *)
(* keytag.go) and how it counts it (metrics.go): Observe, the transport,   *)
(* and the counters, whose children two caches keep behind an index.       *)
(*                                                                         *)
(* ServeDNS runs once per query, in a goroutine of its own.  A slot of a   *)
(* cache is loaded in one step and, when it was empty, stored in another.  *)
(***************************************************************************)
EXTENDS Integers, Sequences, SequencesExt, FiniteSets, Bags

CONSTANTS Handlers,         \* the goroutines, one per query
          Messages,         \* the queries
          maxUnwrap,        \* how many writers connectionState looks at
          maxKeyTagsPerQuery

VARIABLES msg,              \* each goroutine's query
          obs,              \* its Observation
          found,            \* the counter cachedCounter's Load returned
          at,               \* where the goroutine is
          slots,            \* observationCounters and cleartextCounters
          counts            \* the counters, as a bag of series

observeVars == <<msg, obs, found, at, slots, counts>>

Nil == "nil"

------------------------------------------------------------------------------
\* The first of the writers that implements ConnectionStater decides.  A writer
\* is "plain" (it can be unwrapped), "opaque" (it cannot), "cleartext" or "tls".
connectionState(w) ==
    \E i \in 1..Len(w) : /\ i <= maxUnwrap /\ w[i] = "tls"
                         /\ \A j \in 1..(i - 1) : w[j] = "plain"

transportFrom(m) ==
    IF connectionState(m.writers)
    THEN CASE m.alpn \in {"h2", "http/1.1"} -> "https"
           [] m.alpn = "doq" -> "quic"
           [] OTHER -> "tls"
    ELSE IF m.proto = "tcp" THEN "tcp" ELSE "udp"

\* An option of odd length, of none or of too many is dropped whole.
parseEDNSKeyTags(o) ==
    IF o.odd \/ Len(o.tags) \notin 1..maxKeyTagsPerQuery THEN <<>> ELSE o.tags

ednsKeyTags(options) ==
    FoldLeft(LAMBDA tags, o : IF o.kind = "keytag" THEN tags \o parseEDNSKeyTags(o) ELSE tags,
             <<>>, options)

\* addrBits is the length of the address in the option, 0 when it is not one.
applyECSObservation(ob, o) ==
    [ob EXCEPT !.ECS = TRUE, !.ECSScope = o.mask, !.ECSFamily = o.family,
               !.ECSPrefix = IF o.mask \in 1..o.addrBits THEN o.mask ELSE @]

applyEDNSObservation(ob, opt) ==
    FoldLeft(LAMBDA b, o : CASE o.kind = "cookie" -> [b EXCEPT !.Cookie = TRUE]
                             [] o.kind = "zoneversion" -> [b EXCEPT !.ZoneVersionAsked = TRUE]
                             [] o.kind = "ecs" -> applyECSObservation(b, o)
                             [] OTHER -> b,
             [ob EXCEPT !.EDNS = TRUE, !.DO = opt.DO, !.CompactAware = opt.CO,
                        !.DELEGAware = opt.DE, !.KeyTags = ednsKeyTags(opt.options)],
             opt.options)

Blank ==
    [Transport |-> "udp", TLS |-> FALSE, IPv6 |-> FALSE, EDNS |-> FALSE, DO |-> FALSE,
     CompactAware |-> FALSE, DELEGAware |-> FALSE, KeyTags |-> <<>>, KnowsZoneKey |-> FALSE,
     Cookie |-> FALSE, ZoneVersionAsked |-> FALSE, ECS |-> FALSE, ECSScope |-> 0,
     ECSFamily |-> 0, ECSPrefix |-> 0]

\* Observe, and what observeAndRecord adds to it; m.opt is a sequence of at
\* most one OPT record, m.key the zone's Signer.KeyTag(), if it has a signer.
Observe(m) ==
    LET ob == [Blank EXCEPT !.Transport = transportFrom(m), !.IPv6 = m.IPv6,
                            !.TLS = connectionState(m.writers)]
        seen == IF m.opt = <<>> THEN ob ELSE applyEDNSObservation(ob, Head(m.opt))
    IN  [seen EXCEPT !.KnowsZoneKey = Range(m.key) \cap Range(seen.KeyTags) # {}]

Encrypted(ob) == ob.Transport \in {"tls", "quic", "https"}

------------------------------------------------------------------------------
\* The labels of the two per-query counters.
delegLabel(ob) == IF ~ob.EDNS THEN "unknown" ELSE IF ob.DELEGAware THEN "aware" ELSE "unaware"
ecsLabel(ob) == IF ~ob.ECS THEN "silent" ELSE IF ob.ECSScope = 0 THEN "declined" ELSE "disclosed"

ecsFamilyLabel(family) == CASE family = 1 -> "inet" [] family = 2 -> "inet6" [] OTHER -> "other"

knows(ob) == IF ob.KnowsZoneKey THEN "yes" ELSE "no"

observationSeries(ob) ==
    <<"observations", ob.Transport, ob.IPv6, ob.DO, ob.CompactAware, delegLabel(ob),
      ecsLabel(ob), ob.ZoneVersionAsked>>

encryptedSeries(ob) == <<"encrypted", ob.Transport, Encrypted(ob), ob.TLS>>

\* The mixed-radix index of an observation's slot.
transportIndex(t) ==
    CASE t = "udp" -> 0 [] t = "tcp" -> 1 [] t = "tls" -> 2 [] t = "quic" -> 3 [] t = "https" -> 4

flagIndex(b) == IF b THEN 1 ELSE 0
delegIndex(ob) == IF ~ob.EDNS THEN 0 ELSE IF ob.DELEGAware THEN 1 ELSE 2
ecsIndex(ob) == IF ~ob.ECS THEN 0 ELSE IF ob.ECSScope = 0 THEN 1 ELSE 2

packed(digits) == FoldLeft(LAMBDA idx, d : idx * d[1] + d[2], 0, digits)

observationIndexNarrow(ob) ==   \* mutant: a three-valued label in two places
    packed(<<<<5, transportIndex(ob.Transport)>>, <<2, flagIndex(ob.IPv6)>>, <<2, flagIndex(ob.DO)>>,
             <<2, flagIndex(ob.CompactAware)>>, <<3, delegIndex(ob)>>, <<2, ecsIndex(ob)>>,
             <<2, flagIndex(ob.ZoneVersionAsked)>>>>)

observationIndex(ob) ==
    packed(<<<<5, transportIndex(ob.Transport)>>, <<2, flagIndex(ob.IPv6)>>, <<2, flagIndex(ob.DO)>>,
             <<2, flagIndex(ob.CompactAware)>>, <<3, delegIndex(ob)>>, <<3, ecsIndex(ob)>>,
             <<2, flagIndex(ob.ZoneVersionAsked)>>>>)

\* The slot a counter is kept in; an encrypted query's has none.
observationSlot(ob) == <<"observations", observationIndex(ob)>>
encryptedSlot(ob) == IF ob.TLS THEN <<>> ELSE <<"cleartext", transportIndex(ob.Transport)>>

------------------------------------------------------------------------------
ObserveRest ==
    /\ msg = <<>> /\ obs = <<>> /\ found = <<>> /\ at = <<>>
    /\ slots = <<>> /\ counts = EmptyBag

ObserveInit ==
    /\ msg \in [Handlers -> Messages]
    /\ obs = [h \in Handlers |-> Blank]
    /\ found = [h \in Handlers |-> Nil]
    /\ at = [h \in Handlers |-> "arrived"]
    /\ slots = <<>>             \* slot -> series, the filled ones only
    /\ counts = EmptyBag

Inc(s) == SetToBag({s})

\* cachedCounter's Load.
loaded(slot) == IF slot \in DOMAIN slots THEN slots[slot] ELSE Nil

\* The rest of cachedCounter: a miss looks the series up and stores it.
counter(h, series) == IF found[h] # Nil THEN found[h] ELSE series

fill(h, slot, series) ==
    slots' = IF found[h] # Nil \/ slot = <<>> THEN slots
             ELSE [k \in DOMAIN slots \cup {slot} |-> IF k = slot THEN series ELSE slots[k]]

\* observeAndRecord up to the load of the observation's slot.
Arrive(h) ==
    /\ at[h] = "arrived"
    /\ LET ob == Observe(msg[h]) IN
       /\ obs' = [obs EXCEPT ![h] = ob]
       /\ found' = [found EXCEPT ![h] = loaded(observationSlot(ob))]
    /\ at' = [at EXCEPT ![h] = "counting"]
    /\ UNCHANGED <<msg, slots, counts>>

\* observationCounter(o).Inc(), then the disclosed prefix length.
CountObservation(h) ==
    LET ob == obs[h] IN
    /\ at[h] = "counting"
    /\ fill(h, observationSlot(ob), observationSeries(ob))
    /\ counts' = counts (+) Inc(counter(h, observationSeries(ob)))
                   (+) (IF ob.ECS /\ ob.ECSScope > 0
                        THEN Inc(<<"ecs_prefix_bits", ecsFamilyLabel(ob.ECSFamily), ob.ECSScope>>)
                        ELSE EmptyBag)
    /\ at' = [at EXCEPT ![h] = "counted"]
    /\ UNCHANGED <<msg, obs, found>>

LoadEncrypted(h) ==
    /\ at[h] = "counted"
    /\ found' = [found EXCEPT ![h] = loaded(encryptedSlot(obs[h]))]
    /\ at' = [at EXCEPT ![h] = "encrypted"]
    /\ UNCHANGED <<msg, obs, slots, counts>>

\* encryptedCounter(o).Inc(), then the key tags, when there were any.
CountEncrypted(h) ==
    LET ob == obs[h] IN
    /\ at[h] = "encrypted"
    /\ fill(h, encryptedSlot(ob), encryptedSeries(ob))
    /\ counts' = counts (+) Inc(counter(h, encryptedSeries(ob)))
                   (+) (IF ob.KeyTags # <<>> THEN Inc(<<"key_tag_knowledge", knows(ob)>>)
                        ELSE EmptyBag)
    /\ at' = [at EXCEPT ![h] = "done"]
    /\ UNCHANGED <<msg, obs, found>>

ObserveNext ==
    \E h \in DOMAIN at : Arrive(h) \/ CountObservation(h) \/ LoadEncrypted(h) \/ CountEncrypted(h)

------------------------------------------------------------------------------
\* What a query says, read off the message: m.via is how it really came.
Options(m) == IF m.opt = <<>> THEN <<>> ELSE Head(m.opt).options
OfKind(m, kind) == SelectSeq(Options(m), LAMBDA o : o.kind = kind)
Bit(m, b) == m.opt # <<>> /\ Head(m.opt)[b]

\* Every writer above the one that knows can be unwrapped, and soon enough.
Visible(m) ==
    \/ m.via \in {"udp", "tcp"}
    \/ \E i \in 1..maxUnwrap : i = Len(m.writers) /\ Range(SubSeq(m.writers, 1, i - 1)) \subseteq {"plain"}

Told(m) ==
    UNION {Range(o.tags) : o \in {k \in Range(OfKind(m, "keytag")) :
                                    ~k.odd /\ Len(k.tags) <= maxKeyTagsPerQuery}}

Expected(m) ==
    LET subnets == OfKind(m, "ecs")
        bits == Last(subnets).mask
        secure == m.via \notin {"udp", "tcp"}
    IN  {<<"observations", m.via, m.IPv6, Bit(m, "DO"), Bit(m, "CO"),
           CASE m.opt = <<>> -> "unknown" [] Bit(m, "DE") -> "aware" [] OTHER -> "unaware",
           CASE subnets = <<>> -> "silent" [] bits = 0 -> "declined" [] OTHER -> "disclosed",
           OfKind(m, "zoneversion") # <<>> >>,
         <<"encrypted", m.via, secure, secure>>}
        \cup (IF subnets = <<>> \/ bits = 0 THEN {}
              ELSE {<<"ecs_prefix_bits", ecsFamilyLabel(Last(subnets).family), bits>>})
        \cup (IF Told(m) = {} THEN {} ELSE {<<"key_tag_knowledge",
                        CASE m.key = <<>> -> "unknown"
                          [] m.key # <<>> /\ Range(m.key) \subseteq Told(m) -> "yes"
                          [] OTHER -> "no">>})

(* Every query is counted once in each series, and in the series its own   *)
(* labels name, whatever other queries filled the counter caches before or *)
(* meanwhile ("the cache can never attach a count to the wrong series"):   *)
(* a resolver that declines a client subnet is not counted as one that     *)
(* discloses or says nothing, one without EDNS is not counted as unaware of*)
(* DELEG, an encrypted query whose writers can be unwrapped is not counted *)
(* as its TCP connection, and the zone's key is counted only where tags    *)
(* were sent, from all their lists.  Not so for tags sent to a zone without*)
(* a signer (NoSignerIsUnknown).                                           *)
CountedAsSent ==
    (\A h \in DOMAIN at :
        at[h] = "done" /\ Visible(msg[h]) /\ (msg[h].key = <<>> => Told(msg[h]) = {})) =>
        \A s \in BagToSet(counts) \cup UNION {Expected(msg[h]) : h \in DOMAIN at} :
            CopiesIn(s, counts) = Cardinality({h \in DOMAIN at : s \in Expected(msg[h])})

(* metrics.go of `knows`: it is "unknown" when the zone has no signer to   *)
(* compare against.  recordMetrics counts "no".                            *)
NoSignerIsUnknown ==
    (\A h \in DOMAIN at : at[h] = "done" /\ msg[h].key = <<>>) =>
        CopiesIn(<<"key_tag_knowledge", "no">>, counts) = 0

(* Observation.ECSPrefix is documented as zero "when absent or declined".  *)
(* With two subnet options in one query, the later of which declines, the  *)
(* prefix of the earlier one stays.                                        *)
DeclinedHasNoPrefix ==
    \A h \in DOMAIN obs : obs[h].ECSScope = 0 => obs[h].ECSPrefix = 0
===============================================================================
