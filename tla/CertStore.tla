----------------------------- MODULE CertStore -----------------------------
(***************************************************************************)
(* The certificate store of sni_tls (sni_tls.go): how a store is built     *)
(* from the configured cert/key files and which certificate a ClientHello  *)
(* is answered with.                                                       *)
(*                                                                         *)
(* A name is the sequence of its labels.  A file's content is the number   *)
(* of the key pair it was issued with, 0 for a file that does not exist:   *)
(* the n-th certificate and the n-th key of a pair belong together.  A     *)
(* certificate is <<pair, n>>.                                             *)
(***************************************************************************)
EXTENDS Naturals, Sequences, FiniteSets, FiniteSetsExt

CONSTANTS
    NPairs,      \* number of `sni_tls cert key` lines
    MaxVersion,  \* bound: how many key pairs are ever issued for one pair
    Lower,       \* asciiLower, label by label
    SANs         \* SANs[i][n]: the DNS names in pair i's n-th certificate

ASSUME StoreAssumption ==
    /\ NPairs \in Nat \ {0}
    /\ MaxVersion \in Nat

(* The options of a server block, besides its pairs.                       *)
storeConfig ==
    [strict : BOOLEAN, noSNI : {"asUnmatched", "refuse", "fallback", "cert"}]

(* The pairs a store is read from: the no_sni pair, when there is one,     *)
(* comes after the others.                                                 *)
noSNIPair == NPairs + 1
fileCount(cfg) == IF cfg.noSNI = "cert" THEN noSNIPair ELSE NPairs
files(cfg) == 1..fileCount(cfg)

Content == 0..MaxVersion
Disk(cfg) == [files(cfg) -> [cert : Content, key : Content]]

-----------------------------------------------------------------------------
(* Building a store *)

asciiLower(name) == [k \in DOMAIN name |-> Lower[name[k]]]

(* Labels that contain an asterisk.                                        *)
Starred == {"*", "f*"}

validPresentedName(name) ==
    LET stars == {k \in DOMAIN name : name[k] \in Starred}
    IN  \/ stars = {}
        \/ stars = {1} /\ name[1] = "*" /\ Len(name) > 1

names(i, n) == {asciiLower(s) : s \in {t \in SANs[i][n] : validPresentedName(t)}}

isMissing(f) == f.cert = 0 \/ f.key = 0

(* tls.LoadX509KeyPair accepts a certificate only with its own key; loadCert*)
(* also wants a name to look the certificate up by.                        *)
loadAnyCert(f) == f.cert = f.key
loadCert(i, f) == loadAnyCert(f) /\ names(i, f.cert) # {}

Present(d) == {i \in 1..NPairs : ~isMissing(d[i])}

(* buildCertStore returns no error *)
loadable(cfg, d) ==
    /\ Present(d) # {}
    /\ \A i \in Present(d) : loadCert(i, d[i])
    /\ cfg.noSNI = "cert" =>
          isMissing(d[noSNIPair]) \/ loadAnyCert(d[noSNIPair])

NoCert == <<0, 0>>

(* A later pair's name replaces an earlier one's.                          *)
byName(d) ==
    [s \in UNION {names(i, d[i].cert) : i \in Present(d)} |->
        LET i == Max({j \in Present(d) : s \in names(j, d[j].cert)})
        IN  <<i, d[i].cert>>]

bySuffix(d) ==
    LET wild == {s \in DOMAIN byName(d) : s[1] = "*"}
    IN  [t \in {Tail(s) : s \in wild} |-> byName(d)[<<"*">> \o t]]

loadNoSNI(cfg, d) ==
    IF cfg.noSNI = "cert" /\ ~isMissing(d[noSNIPair])
    THEN <<noSNIPair, d[noSNIPair].cert>> ELSE NoCert

buildCertStore(cfg, d) ==
    LET first == Min(Present(d))
    IN  [byName    |-> byName(d),
         bySuffix  |-> bySuffix(d),
         fallback  |-> <<first, d[first].cert>>,
         noSNICert |-> loadNoSNI(cfg, d),
         noSNI     |-> cfg.noSNI,
         strict    |-> cfg.strict]

-----------------------------------------------------------------------------
(* Answering a ClientHello: a certificate or a TLS alert, <<0, number>>.   *)
(* crypto/tls turns a nil certificate into unrecognized_name.              *)

unrecognizedName == <<0, 112>>
alertMissingExtension == <<0, 109>>

refuseNoSNI(quic) == IF quic THEN alertMissingExtension ELSE unrecognizedName

emptyLabel == ""

(* Mutant of wildcardFor: the first label may be empty.                    *)
wildcardForEmptyLabel(store, name) ==
    Len(name) > 1 /\ Tail(name) \in DOMAIN store.bySuffix

(* Mutant of wildcardFor: off by one in the number of labels.              *)
wildcardForDeep(store, name) ==
    Len(name) > 3 /\ name[1] # emptyLabel /\ Tail(name) \in DOMAIN store.bySuffix

wildcardFor(store, name) ==
    Len(name) > 1 /\ name[1] # emptyLabel /\ Tail(name) \in DOMAIN store.bySuffix

unmatched(store) == IF store.strict THEN unrecognizedName ELSE store.fallback

withoutSNI(store, quic) ==
    CASE store.noSNI = "refuse"   -> refuseNoSNI(quic)
      [] store.noSNI = "fallback" -> store.fallback
      [] store.noSNI = "cert"     ->
            IF store.noSNICert = NoCert THEN refuseNoSNI(quic)
            ELSE store.noSNICert
      [] store.noSNI = "asUnmatched" ->
            IF store.strict THEN refuseNoSNI(quic) ELSE unmatched(store)

(* <<>> is the name of a ClientHello without SNI.                          *)
GetCertificate(store, sni, quic) ==
    LET name == asciiLower(sni)
    IN  IF sni = <<>> THEN withoutSNI(store, quic)
        ELSE IF name \in DOMAIN store.byName THEN store.byName[name]
        ELSE IF wildcardFor(store, name) THEN store.bySuffix[Tail(name)]
        ELSE unmatched(store)

=============================================================================
