# Formal models of coredns-plugins

TLA+ models of the five CoreDNS plugins of this repository and of the pipeline
that builds them into an image, checked with TLC on
small instances, and TLAPS proofs of the safety properties of `dynupdate`, `sni_tls`,
`cookie`, the hooks, `radnr`'s advertiser, `probe`'s handler, stores and zones, and the
pipeline, for every value of their constants. Definitions carry the names of the Go functions they model;
`PROJECT.json` maps each of them to its lines.

## The system

| Part | What it does | Modules | State of the model |
|---|---|---|---|
| `dynupdate` UPDATE handler (`update.go`, `zone.go`) | RFC 2136 UPDATE on an in-memory zone, one at a time under `d.mu` | `ZoneOps`, `DynUpdate`, `AtomicZone` | whole |
| `dynupdate` serving (`dynupdate.go`) | queries and transfers from a view that `swap` replaces; NOTIFY | `DynUpdate`, `DynUpdateSecondary` | without `file.File`'s answers |
| `sni_tls` store (`sni_tls.go`) | certificate by SNI, wildcard, strict and no-SNI policy | `CertStore`, `SniHandshake` | whole |
| `sni_tls` reload (`reload.go`) | polls the files, rebuilds the store when their digest changes | `SniReload` | whole |
| hooks of `sni_tls` and `radnr` | one background loop per block across caddy's starts and reloads | `Lifecycle` | whole; caddy external |
| `radnr` advertiser | Router Advertisements on a timer and on solicitation (RFC 4861) | `RadnrAdvertiser` | whole; discrete time |
| `radnr` configuration and option (`setup.go`, `internal/config`, `pkg/`) | a block becomes an Encrypted DNS option (RFC 9463) that hosts decode | `Wire`, `DnrOption`, `RadnrConfig` | whole; sizes scaled down |
| `cookie` | DNS cookies (RFC 7873, 9018), secrets rolled over by reload | `Cookie` | whole; SipHash abstract |
| `probe` names | a grammar of modifiers, tokens, DNS-SD and error reports | `ProbeNames` | labels, not characters |
| `probe` handler and signer | synthesised, deliberately broken answers; SOA signature cache | `ProbeHandler` | control and signatures; record contents left out |
| `probe` setup, zones, metadata, zone version | a block becomes two zones; which one answers and accounts for a name | `ProbeSetup` | directives and zones; tokenising and the key file left out |
| `probe` observation and metrics | what a query says of its resolver, counted through two caches | `ProbeObserve` | what the per-query counters depend on |
| `probe` ECH canary (`echconfig.go`) | an ECHConfigList whose damage on the path is to be seen | `Wire`, `EchConfig` | whole; sizes scaled down |
| `probe` memory store | observations and reports with limits and expiry | `ProbeMemStore` | whole |
| `probe` Valkey store | the same, shared by replicas | `ProbeValkey` | whole; Valkey external |
| `ci/` image pipeline | patches upstream's `plugin.cfg`, builds and smoke-tests the binary | `Build` | `BuildCoredns` and `Containerize`; tools external |

Not modelled:

- How caddy splits a Corefile into tokens, and the parsers of `dynupdate`, `cookie`
  and `sni_tls`: each fills one record, and the models quantify over the records.
- SipHash (`cookie/siphash.go`): 64-bit mixing has no property that survives a
  smaller width. The model's hash is what went into it.
- The contents of `probe`'s records (addresses, texts, NSEC bitmaps, padding): no
  property tells them apart, and an answer's RRsets, rcode and signatures are
  modelled. Likewise the TLS version and group names, anonymised addresses and
  the counters that are incremented in one place.
- Lint, test, scan and publish in `ci/`, which call tools and keep no state.
- Memory shared by records between a working set and the zone (`update.go:315`),
  and the digest's running the files together without their lengths
  (`reload.go:174`): values are values in the models.

How the parts interact: `dynupdate` notifies secondaries through the transfer
plugin (`DynUpdateSecondary` composes the two); caddy drives the hooks of
`sni_tls` and `radnr` (`Lifecycle`), whose loops are `SniReload` and
`RadnrAdvertiser`; `SniReload` builds `CertStore`'s stores, which
`SniHandshake` asks; `ProbeHandler` reads names with `ProbeNames` and uses a
store of which it only knows that it can fail. `RadnrConfig` goes on where
`Lifecycle`'s `OnStartup` accepts a block, and its `BuildRA` is the one that may fail
at the start of `RadnrAdvertiser`'s `Run`. `ProbeSetup` yields the zones that
`ProbeHandler` takes as given, and `ProbeObserve` is what it does between reading a
name and recording the observation. `Build` puts all plugins into one binary. The
plugins share no state.

## Modules and code

- **ZoneOps** is the record algebra: prerequisites, prescan, the three forms of
  update record, serials modulo `2 * Half`. A zone is a set of records; the
  slice's order matters only when there are two SOAs or duplicates, which
  `ZoneWellFormed` excludes.
- **DynUpdate** runs handlers over it. Variables: `rrs` (`d.rrs`), `view`, `mu`,
  and per handler its message, working set `out`, position and answer. Actions
  are the handler's stretches between points where another goroutine can see
  something: `Receive`, `Lock`, `Check`, `ApplyRecord` (one record), `Commit`
  (serial, build and swap, which may fail), `Notify`, `Reply`, `Unlock`; readers
  hold a snapshot between `StartRead` and `FinishRead`; `Restart` goes back to
  the zone file.
- **AtomicZone** is what the handler promises: an UPDATE is answered and applied
  in one step. What a message does to a zone is a parameter, for which `DynUpdate`
  gives `ZoneOps`'s rules. `ImplementsAtomicZone` maps a handler's `Commit` (or its failing
  check) to that step.
- **DynUpdateSecondary** adds a secondary that asks after a NOTIFY or a refresh,
  and takes over what it was sent unless the serial is the one it has.
- **CertStore / SniHandshake**: operators for building and asking a store, and one
  step per ClientHello, over every configuration and every set of present,
  missing and renewed files. The reference is RFC 9525's matching (`Matches`).
- **SniReload**: `setup` and each `reloadOnce` read the files one at a time while
  `Rotate` replaces them one at a time. `current` and `digest` are two stores.
  Versions count a file's changes; `Issue` gives the content of each, and so
  whether contents come back. In the runs they do not.
- **Lifecycle**: caddy's phases, the plugin's hook per block, and failures of other
  plugins in between. `registry` is the process-wide map, `running` what each
  block remembers. `failed` records the blocks whose `OnRestartFailed` failed: of
  those the code promises nothing until the next reload.
- **RadnrAdvertiser**: discrete time. `Run`'s select is a choice between the timer,
  a solicitation and the cancellation; the loop may lag; the reader is a
  goroutine of its own with an unbuffered channel to the loop. `BuildFails` is
  the return of `Run` before it has started anything.
- **Wire** is what the two hand-written codecs have in common: octets below `Octets`
  (256 in the code), big-endian numbers that wrap, fields with a length prefix,
  and `Mangled`, what a path may make of an octet string.
- **DnrOption / RadnrConfig**: the RFC 9463 option and its service parameters octet
  by octet, then a block line by line (`ParseLine`), `SetupRadnr`, `BuildRA`, and a
  host that decodes what arrives (`Hear`). A name is its characters, since it is
  split and joined at its dots. `Unmarshal` yields a set, empty for an error. The
  reference reader of service parameters, `readSvcParams`, follows RFC 9460.
- **Cookie**: servers with skewed clocks, each at its stage of the rollover table
  of `cookie/README.md`, and a client that keeps the last cookie it got. It moves
  between addresses and the source that `netip` finds invalid (`NoAddress`). The
  hash is what went into it.
- **ProbeNames / ProbeHandler**: labels of each class in small sets; an answer is
  its rcode, its RRsets, the error codes and the signatures, each with the type it
  says it covers, the records it was made over, whether it was left intact, and
  its times. A query is counted and then stored, in two steps, and the response
  is written in a third: a write that fails is returned as SERVFAIL, which the
  server sends in its place.
- **ProbeSetup**: a block directive by directive, the checks at the end of `parse`,
  and one query name. A number is refused beyond `uint32Max`, a key is loaded (or
  is not) where its directive stands, and the store connects or not when `parse` is
  over. `zoneMatches` compares octets and leaves escaped names to
  the library, `Metadata` compares labels; `splitName` is the library's reading of
  a name in presentation form, character by character (`scan`).
- **ProbeObserve**: one goroutine per query. Loading a slot of a counter cache and
  filling it are two steps, so two queries can both miss. A query brings the key tag
  of the zone it is sent to (`key`), none if that has no signer. The counters are a bag
  of series. `Expected` reads the series off the message without the code's
  labels or index.
- **EchConfig**: the list as served, and as a visitor gets it.
- **Build**: `Patch` in any order, as Go iterates a map, then the commands in the
  order of `pipeline`; `sed` without a match changes nothing, `setcap` may leave any
  part of the capabilities, and `getcap` is what notices. The smoke test finds a
  plugin's name also inside a longer one (`nameWithin`).
- **ProbeMemStore**: a handler stamps an item first and gets the lock later.
- **ProbeValkey**: each command is a step that other replicas' steps and expiry
  come between. `INCR` and the arrival of its reply are two steps; the rest of a call is a
  pipeline. A call can fail at any point (`Fail`), with what it sent executed later
  or never, and Valkey can refuse one command and go on with the next (`Refuse`).
  Expiry is in whole seconds: a `ttl` below one makes `EXPIRE` delete the key.

Operators whose comment starts with "Mutant of" or "mutant:" are seeded faults: with one in
place of the definition it follows, the property `PROJECT.json` names with it
is violated. They are used nowhere else.

## Runs

`tlc -workers 2 -config <cfg> <module>`; every run takes under two minutes.

| Run | Instance | Shows |
|---|---|---|
| `dynupdate` | one handler, every kind of prerequisite and update record, a type policy without A, a restart, 8 serials | `IndInv` (types, lock, a well-formed zone); a change moves the serial (`ContentChangeMovesSerial`), forward if the message adds at most one SOA (`SerialForwardOneSOA`); records of immutable types stay (`MutablePolicy`) |
| `dynupdate_secondary` | two handlers, a secondary, four UPDATEs, 6 serials, fairness | the handler implements the atomic zone (`ImplementsAtomicZone`, `ChangeIsOneGrantedUpdate`); `SameSerialSameZone`; `EveryUpdateAnswered`; `SecondariesConverge` |
| `sni_reload` | two poll loops of one store, a pair issued three times and replaced file by file, fairness | `NeverBlank`, `DigestNeverAhead`, `NeverRollsBack`, `CatchesUpUnraced` |
| `sni_setup_race` | the same with two issues | a counterexample to `CatchesUp`, see below |
| `pure` | `sni_tls`: three pairs, every option, file set and hello | `CoveredNameIsServed`, `StrictNeverGuesses` |
| | `radnr`: blocks with up to two extra lines in either order, names and options up to and past their limits, any one octet damaged | `HostLearnsConfig`, `DecodedIsEncodable` |
| | ECH: names up to and past an 8-bit length, any octet rewritten to any value, cut short or lengthened | `RewriteIsSeen` |
| | `probe` blocks with up to two extra lines, seven agent domains, some thirty names | `ZonesStayApart` |
| | any two of 120 queries, racing | `CountedAsSent` |
| | the pipeline, four `plugin.cfg` files, every patch order, every command failing | `ShippedIsWired` |
| `lifecycle` | two blocks, four reloads, failures of this and of other plugins | `OneInstanceRuns`, `ServingBlocksRun` |
| `radnr` | one advertiser whose `BuildRA` may fail, 18 units of time, lag 1, read errors, fairness | `RateLimited`, `AnsweredInTime`, `UnsolicitedSpacing`, `CancelEndsBoth` |
| `memstore` | two handlers, three tokens, four items | `QueueMirrorsMap` (and the limits), `KeptUntilExpiry`, `NothingStaleIsRead` |
| `valkey` | two recorders and two reporters, caps of 1, calls that fail, lost replies | `SeenIsExact`: no number is told twice, whatever replies are lost; `NewestReportsKept`: no report is lost to an older one, and if no call failed the newest are there; likewise `KeysExpire` |
| `cookie` | two servers, two addresses and a source without one, modulus 16 with the wrap inside, a full rollover | `WindowIsExact`, `AcceptedEverywhere`, `EnforcedOverUDP` |
| `probe_handler` | every query shape, a failing store, writes that fail | `OnlyDeliberateFailures`, `AgentAlwaysAnswers`, `SignedOnRequest` |
| `probe_soa_cache` | two handlers, failing signer, moving clock | `SignaturesAsAsked` |

### Disagreements

`sni_setup_race` ends in a counterexample to what `verification/README.md` says of
the poller, "eventually serves what is on disk": `setup` builds the store before it
takes the digest, and a rotation between the two is never noticed. `sni_reload`
shows that in its instance, where no content comes back, this is the only way to
miss one (`CatchesUpUnraced`).

The modules define further properties that state a sentence of the source or
of its documents and that the code does not keep. They belong to no run, or to one of another
instance; each is refuted within a minute when it replaces the properties of the cfg named here.

| Property | cfg | What the code says | What it does |
|---|---|---|---|
| `SerialNeverBackwards` | `MCDynUpdate` | `dynupdate/update.go:288`: a stale updater cannot wind the zone backwards | two SOA adds in one message, each ahead of the one before, do |
| `DroppedIsAlwaysReclaimed` | `MCLifecycle` | `sni_tls/reload.go:64`: a failed reload reclaims the discarded instance's loop | nobody does if the reload introduced the plugin, or if `OnRestartFailed` fails too |
| `LinkRateLimited` | `MCRadnrAdvertiser`, `NAdvertisers = 2` | `advertiser.go:254`: the rate limit holds whatever triggered the RAs | it is per advertiser; a reload starts one that sends at once |
| `ReadsUntilClosed` | `MCRadnrAdvertiser` | `advertiser.go:143`: reads until the connection is closed or ctx is cancelled | any read error ends the reader |
| `CatchesUpUnraced` | `MCSniReload`, `Issue <- MCTakenBack`, `MaxVersion = 4` | `verification/README.md:58`: eventually serves what is on disk | not after a rotation that is taken back and made again around one poll: the digest is read before the store is built |
| `SeenIsTruthful` | `MCProbeMemStore` | `probe/observe.go:589`: keep the count truthful even once we stop retaining detail | it stops at the cap plus one |
| `KeysAlwaysExpire` | `MCProbeValkey` | `probe/valkey.go:45`: the ttl is applied to both keys on every write | a call cut off after INCR or RPUSH leaves a key without |
| `AtMostOnePastCap` | `MCProbeValkey`, three reporters | `probe/valkey.go:238`: momentarily one entry past the cap | one per replica between RPUSH and LTRIM |
| `CountedMeansKept` | `MCProbeValkey`, `Failures = FALSE` | `probe/valkey.go:157`: both keys get their expiry refreshed on every write | past the cap only the counter's |
| `SignsOneRRset` | `MCProbeHandler` | `probe/sign.go:200`: signs one RRset | ANY at a DNS-SD instance puts SRV and TXT under one RRSIG |
| `NXDOMAINWithSOAOnly` | `MCProbeHandler` | `probe/labels.go:59`: accompanied only by a signed SOA | with DO an NSEC comes with it |
| `ServfailIsNotDNSSEC` | `MCProbeHandler` | `probe/ede.go:75`: not a DNSSEC code | `_servfail` with `_badsig` carries DNSSEC Bogus |
| `ReportsFindTheirVisitor` | `MCProbeHandler` | `probe/errorreport.go:179`: correlate when the failing name was one of ours | DNS-SD names are not correlated |
| `CachedLooksFresh` | `MCProbeSOACache`, `Validity = 1` | `probe/probe.go:616`: a resolver that receives a thirty-second-old signature sees nothing different | `setup` accepts any positive `validity`: below `soaSigMaxAge` a cached signature has expired when it is served |
| `RRSIGTimeIsModular` | `MCProbeSOACache`, `Start = 62`, `MaxTime = 66` | `probe/sign.go:303`: Unix time modulo 2^32 | 2^31 too much in the first half-turn after the wrap |
| `DeclinedHasNoPrefix` | `MCPure` | `probe/observe.go:59`: `ECSPrefix` is zero when absent or declined | of two subnet options the later of which declines, the earlier's prefix stays |
| `NoSignerIsUnknown` | `MCPure` | `probe/metrics.go:116`: `knows` is "unknown" when the zone has no signer | `recordMetrics` counts "no" |
| `AnyRewriteIsSeen` | `MCPure` | `probe/echconfig.go:231`: enough to distinguish intact from rewritten | suites, extensions and the config's length may change unseen |
| `AcceptedIsAdvertised` | `MCPure` | `advertiser.go:248`: `Run` advertises until ctx is cancelled | a block that `Config.Validate` accepts and `BuildRA` refuses starts, and never advertises |
| `FramedNameDecodes` | `MCPure` | `verification/README.md:330`: `decodeADN` accepts label lengths 64-255 and a label containing `.` | it refuses both (`radnr/pkg/dnr/dnr.go:333`, as `dnr_test.go:235` expects) |
| `ShippedHasAll` | `MCPure` | `ci/main.go:580`: checks every plugin in `pluginCfgPatches` shows up | it looks for substrings: a name inside another plugin's will do |
| `DynupdateNextToFile` | `MCPure` | `ci/main.go:93`: slot immediately before `file` | it is inserted after `hosts`, whatever upstream lists between the two |

One more is of the same kind although no sentence promises it: `ClosedWhenDone`
(`MCRadnrAdvertiser`) fails, since a `BuildRA` error returns from `Run` with the
connection open. A probe block for the root zone without an `ns` line gets the name
server `ns..` (`FinishParse`), which no property is about.

Two properties of `ProbeHandler` belong to no run and hold: `OneReading`
(`MCProbeHandler`), that no name is read in two ways, and `CacheNeverOlder`
(`MCProbeSOACache`), a conjunct of the proofs' `SlotOK`.

### Bounds

A wrap, a limit and a race each need few elements, and the instances contain
them: serial and timestamp spaces are small enough that runs go round them;
caps are 1 or 2, so they are reached and passed; two handlers (or loops,
servers, instances) suffice for an interleaving, and three where a queue or
an overtaking is the point. All bounds are constants, used in guards: `MaxTime`, `End`,
`MaxRestarts`, `MaxUpdates`, `MaxVersion`, `MaxReloads`, `MaxRecords`,
`MaxInbox`, `NAdvertisers`. The codecs' sizes are scaled together: nine values of an
octet, four octets to a unit, two to an address, three to a label, seven to a
name, so that blocks and lists reach every limit and pass it. Where a bound is all that stops a behaviour, or the
process itself ends, the cfg turns the deadlock check off.
`SameSerialSameZone` needs fewer changes than there are serials
(`UpdatesAssumption`): after a full turn a serial names two zones, in DNS as in
the model. The clock of `Cookie` likewise stays within one turn of the
timestamp.

### Fairness

- `DynUpdateSecondary`: a handler that runs goes on and a waiting one gets the lock
  (weak fairness is enough for finitely many UPDATEs); a notified secondary asks
  (strong, since UPDATEs keep taking the lock it needs), a transfer ends. No
  client has to send anything. NOTIFYs are delivered (`LossyNotify` FALSE): a lost
  one leaves a secondary behind until its refresh timer, which promises nothing
  here. The safety proofs allow for lost ones.
- `SniReload`: `setup` ends, the ticker ticks, a started reload is carried through.
  Nobody has to rotate a file or call a hook.
- `RadnrAdvertiser`: goroutines that can run do, and a `select` does not pass over
  a closed `Done` for ever (Go picks uniformly among ready cases).

## Proofs

`tlapm <module>`. The theorems hold for every value of the constants that satisfies
the named assumptions of the module (`ZoneAssumption`, `CookieAssumption` and so
on), which TLC evaluates on the runs; the bounds of the runs (`MaxTime`, `MaxReloads`
...) are constants too, so a theorem is about runs of any length.

| Module, for any | Theorem | Property |
|---|---|---|
| `DynUpdateProofs`: names, data, TTLs, type policy, messages, handlers, readers, even serial space | `Invariance` | `IndInv` |
| | `TypeCorrect`, `ZoneAlwaysWellFormed` | `TypeOK`, `ZoneWellFormed`, conjuncts of `IndInv` |
| | `SerialTellsChange` | `ContentChangeMovesSerial` |
| | `SerialForward` | `SerialForwardOneSOA` |
| | `ChangesAreGranted` | `ChangeIsOneGrantedUpdate` |
| | `PolicyHolds` | `MutablePolicy` |
| `DynRefinementProofs`: and secondaries | `HandlerIsAtomic` | `ImplementsAtomicZone` |
| | `SerialNamesVersion` | `SameSerialSameZone`, if no message adds a SOA |
| `SniReloadProofs`: pairs, poll loops, rotations, contents | `NeverBlankAlways` | `NeverBlank` |
| | `DigestNeverAheadAlways` | `DigestNeverAhead` |
| | `NoRollback` | `NeverRollsBack` |
| `NetworkProofs`: advertisers, intervals, delays, lag | `RateLimitHolds` | `RateLimited` |
| | `UnsolicitedSpacingHolds` | `UnsolicitedSpacing` |
| | `AnsweredInTimeAlways` | `AnsweredInTime` |
| and certificates, server names | `CoveredAlwaysServed` | `CoveredNameIsServed` |
| | `StrictNeverEverGuesses` | `StrictNeverGuesses` |
| `OperationProofs`: cookie servers, addresses, timestamp width, window, skew | `WindowAlwaysExact` | `WindowIsExact` |
| | `AlwaysAcceptedEverywhere` | `AcceptedEverywhere` |
| | `EnforcementHolds` | `EnforcedOverUDP` |
| and blocks, reloads | `OneInstanceAlways` | `OneInstanceRuns` |
| | `ServingAlwaysRuns` | `ServingBlocksRun` |
| `ProbeMemStoreProofs`: handlers, tokens, limits, time to live | `QueueAlwaysMirrorsMap` | `QueueMirrorsMap` |
| | `AlwaysKeptUntilExpiry` | `KeptUntilExpiry` |
| | `NothingStaleIsEverRead` | `NothingStaleIsRead` |
| `OperationProofs` also: recorders, reporters, cap, ttl | `SeenAlwaysExact` | `SeenIsExact` |
| | `NewestReportsAlwaysKept` | `NewestReportsKept` |
| | `KeysAlwaysGetExpiry` | `KeysExpire` |
| `ConfigurationProofs`: `plugin.cfg` files in upstream's order | `AlwaysShippedWired` | `ShippedIsWired` |
| and probe blocks, query names, octets | `AlwaysZonesApart` | `ZonesStayApart` |
| `ProbeHandlerProofs`: queries, handlers, cache age, validity | `FailuresAreDeliberate` | `OnlyDeliberateFailures` |
| | `AgentAnswersAlways` | `AgentAlwaysAnswers` |
| | `AlwaysSignedOnRequest` | `SignedOnRequest` |
| | `SignaturesAreAsAsked` | `SignaturesAsAsked`, if `Before2106` |

Each module also proves its inductive invariant (`LifecycleInvariant`,
`ReloadInvariant`, `HandshakeInvariant`, `RadnrInvariant`, `CookieInvariant`,
`MemInvariant`, `ValkeyInvariant`, `HandlerInvariant`, `RefinementInvariant`,
`BuildInvariant`, `SetupInvariant`). TLC was run
on each of them, in the instance of its component's run, before it was proved.

### Assumptions worth a second look

- `ServerAssumption`: the seed is a well-formed zone. `readZone` only asks for a SOA at
  the origin; an apex NS, no CNAME beside other data and no duplicates are
  assumed of the operator's zone file.
- `CookieAssumption`: `Wait > maxAgeSeconds - MaxSkew`, the pause
  that `cookie/README.md:72` asks of whoever retires a secret, and a window narrower
  than the timestamp's turn.
- `NamesAssumption` (`SniHandshake`): a name in a certificate has a label, and
  `asciiLower` neither makes nor removes an asterisk.
- `HandlerAssumption`: the clock starts late enough that an expired window is not
  before 1970. Nothing is assumed of `validity` against `soaSigMaxAge`:
  `SignaturesAsAsked` says which signatures it vouches for.
- `StockAssumption`: upstream lists none of the plugins the pipeline adds, and the
  plugins the patches are anchored to in the order that the comments of
  `pluginCfgPatches` refer to. Nothing is assumed about which anchors there are.
- `SetupAssumption`: a zone, an agent domain and a query name are fully qualified,
  since they come through `dns.CanonicalName` or off the wire, and the
  dot is not the escape character.
- `UpdatesAssumption`: fewer UPDATEs than serials. It matters to
  `SerialNamesVersion` only.
- `ServerSetsSerial` and `Before2106` are hypotheses of one theorem each. Without the first
  an UPDATE may set the serial of an earlier version; without the second
  `rrsigTime` folds wrongly (`RRSIGTimeIsModular`).

### Arguments

**`dynupdate`.** `ZoneWellFormed` is not inductive: `Commit` installs `out[u]`, of which
it says nothing. `IndInv` therefore adds that only the holder of `d.mu` is past
`Lock` (`LockHeld`), and, for a handler in `apply`, `Applying`: its prerequisites
still hold in `rrs` (nobody else can write), its records passed prescan, its
working set is a well-formed zone, differs from `rrs` only in mutable
types, and has a serial that is the old one or, after an added SOA, a greater
one. The lemmas go from the bottom up: serial arithmetic (`nextSerial` is greater
and never 0), `deleteWhere` and each of `addSOA`, `addOther`, `applyDeleteRRset`,
`applyDeleteRecord` keep a zone a zone, the same for the type policy; then one
lemma per action; `StepInd` puts them together. The action properties follow
from `IndInv` because only `Commit` and `Restart` change the view
(`SerialForward` needs at most one SOA add: serial comparison is not
transitive, which is why `SerialNeverBackwards` fails).

*Refinement.* `AtomicZone` serves a message in one step, by a recursive function
over its records (`After`). `RefinementInv` adds to `IndInv` that the working set of a
handler in `apply` is what `After` gives for the records done so far. That `After` exists and
satisfies its recursion is itself proved (`AfterExists`, `AfterUnfolds`), by a least
counterexample over the length of the message. Then each step of a handler is a step of
`AtomicZone` or a stutter (`UpdaterRefines`).

*Secondaries.* Every step of `DynUpdateSecondary` is one of `DynUpdate` or leaves it
alone (`SecondariesOnlyRead`), so `IndInv` carries over. `SecondaryInv` numbers the
versions by the distance of their serial from the seed's. Every copy and every
snapshot is a version up to the served one, and is the served zone if the number is
the same; each version took an UPDATE of its own, so the numbers stay below a full turn.

**`sni_tls` reload.** `ReloadInv` compares disk, digest and stores file by file in the order of
reading: what a loop has read so far of its new store is as new as its digest and as the
store in use, which `reloadMu` keeps others from replacing; versions only go up. For `setup` the
comparison is with the disk, until a rotation races it.

**`sni_tls` handshakes.** The invariant only remembers that the answer is `GetCertificate`'s.
The work is in the lemmas. `LookupMatches` and `MatchesLookup`: for a name the store
keeps, finding it (exactly, or by its suffix) and RFC 9525's `Matches` are the
same. `ByNameHolds` and `BySuffixHolds`: what the two maps return has the name,
whichever pair came last. `FoundCovers` and `CoveredFound` combine them.

**Hooks.** `LifecycleInv` adds to the two properties how far caddy has got over an
instance's hooks: those done have their loop running.

**`radnr`.** `ScheduleInv` places the timer: no later than the interval and the oldest unanswered
solicitation allow, no sooner than the unsolicited interval if nobody asked, and
handled within the lag.

**`cookie`.** `InWindowExact` is arithmetic modulo any `Modulus`. `CookieInv` orders the stages of a
rollover and says of each cookie in hand which server made it, when, with which secret; a cookie
of the old secret is no younger than the last step to stage 2.

**Memory store.** `Mirror` says of each queue and its map that they hold the same entries, in
order, within the limits. Inserting by stamp, expiry from the front and every
refusal keep it.

**Valkey store.** `CountInv` counts each life of the counter: the replies given in it, told or
lost, are the numbers up to the counter, each once. `ReportsInv` says the list is an end of
what was pushed, over the cap only while somebody has yet to trim or has failed.
`ExpiryInv` names, for a key without expiry, the writer that owes it one.

**`probe` handler.** `HandlerInv` says of each step of `ServeDNS` which types its draft still has to
sign, and of each slot of the cache that its signature was made for the modifiers of that slot,
at most as long ago as the slot says.

**Pipeline.** Go visits the patches in any order, so `BuildInv` cannot say what the file looks
like by the order of steps. It says that the file is `Wired(stock, P)`, the lines of
upstream's file each replaced by what the set `P` of patches done makes of it.
`SedWired` shows that one more `sed` leads from `P` to `P \cup {p}`: no patch's
text is another's anchor. It is an induction over the lines, with `joined` shown
to commute with a change of each line. The rest of `BuildInv` is what each command of
`pipeline` leaves behind, and the chain's order follows from the stock's.

**`probe` zones.** `ServeDNS` compares octets and `Metadata` compares labels; `MatchesAgree` says
that they answer alike for all fully qualified names. It rests on the scan of a name: it can be
cut at any dot that ends a label (`scan` of a concatenation continues the scan of the first part), and
the labels determine the name. Without an escape every dot ends
a label, with one the code asks the library. Then names under two zones make one of the zones
lie under the other, which `validateAgentDomain` refuses in both directions. `SetupInv`
carries from line to line that the names are fully qualified, and what the
checks at the end of `parse` established.

*Induction.* The library's induction theorems take an operator as a parameter. `NumberInduction` and
`SequenceInduction` are stated for a set of numbers or of sequences instead, and a recursive
function is handled through a relation between its argument and its value of
which existence and uniqueness are shown by them.

### Only model-checked

- Liveness, which is out of the prover's reach: `CatchesUpUnraced`, `CancelEndsBoth`,
  `SecondariesConverge`, `EveryUpdateAnswered`.
- `HostLearnsConfig` and `DecodedIsEncodable`: readers and writers of nested fields of octets
  with recursive operators, which the prover does not take.
- `RewriteIsSeen`, about one reader and one writer of octets, and `CountedAsSent`, whose
  model folds over the options of a message.

## Plan

*Prove.* `RewriteIsSeen`, and `CountedAsSent` with the fold over the message written as a
recursive function.

*Extend.* `Lifecycle` composed with `SniReload`.
