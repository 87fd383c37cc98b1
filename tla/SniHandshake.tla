--------------------------- MODULE SniHandshake ---------------------------
(***************************************************************************)
(* sni_tls answering handshakes: for every configuration and every set of  *)
(* files a store can be built from, what a ClientHello gets, compared with *)
(* the rules for matching names (RFC 9525, section 6.3).                   *)
(***************************************************************************)
EXTENDS CertStore

CONSTANT SNIs  \* the server names clients send, <<>> for none

(* A name in a certificate has a label at least, and asciiLower changes    *)
(* letters: it neither adds nor removes an asterisk, nor empties a label.  *)
ASSUME NamesAssumption ==
    /\ SNIs \subseteq Seq(DOMAIN Lower)
    /\ \A i \in 1..NPairs, n \in 1..MaxVersion :
          SANs[i][n] \subseteq Seq(DOMAIN Lower) \ {<<>>}
    /\ \A l \in DOMAIN Lower : /\ Lower[l] \in Starred <=> l \in Starred
                               /\ Lower[l] = "*" <=> l = "*"

VARIABLES cfg, onDisk, hello, answer

sniVars == <<cfg, onDisk, hello, answer>>

NoHello == [sni |-> <<>>, quic |-> FALSE]

SniRest ==
    /\ cfg = [strict |-> FALSE, noSNI |-> "asUnmatched"] /\ onDisk = <<>>
    /\ hello = NoHello /\ answer = NoCert

SniInit ==
    /\ cfg \in storeConfig
    /\ onDisk \in {d \in Disk(cfg) : loadable(cfg, d)}
    /\ hello = NoHello
    /\ answer = NoCert

(* One handshake: it changes nothing that a later one could see.           *)
Handshake(sni, quic) ==
    /\ answer = NoCert
    /\ hello' = [sni |-> sni, quic |-> quic]
    /\ answer' = GetCertificate(buildCertStore(cfg, onDisk), sni, quic)
    /\ UNCHANGED <<cfg, onDisk>>

SniNext == \E sni \in SNIs, quic \in BOOLEAN : Handshake(sni, quic)

SniSpec == SniInit /\ [][SniNext]_sniVars

-----------------------------------------------------------------------------
Answered == answer # NoCert

isCert(c) == c[1] # 0

(* The reference: does an identifier presented in a certificate match the  *)
(* name the client asked for?  An asterisk is a whole left-most label and  *)
(* stands for exactly one label, which is not empty.                       *)
Matches(san, name) ==
    \/ name = san /\ \A k \in DOMAIN san : san[k] \notin Starred
    \/ /\ Len(san) > 1 /\ Len(name) = Len(san)
       /\ san[1] = "*" /\ name[1] # emptyLabel
       /\ \A k \in 2..Len(san) : san[k] = name[k] /\ san[k] \notin Starred

Covers(c, name) ==
    \E san \in SANs[c[1]][c[2]] : Matches(asciiLower(san), asciiLower(name))

(* The certificates of the configured pairs whose files were there.        *)
Loaded == {<<i, onDisk[i].cert>> : i \in Present(onDisk)}

(* A client that names a host some loaded certificate covers is answered   *)
(* with a certificate that covers it, whichever pairs are missing, renewed *)
(* or listed later, in either mode.                                        *)
CoveredNameIsServed ==
    Answered /\ hello.sni # <<>> /\ (\E c \in Loaded : Covers(c, hello.sni))
        => answer \in Loaded /\ Covers(answer, hello.sni)

(* Strict mode never guesses: a name that no certificate covers fails the *)
(* handshake, also when it spells a wildcard out or has an empty first     *)
(* label, and a client without SNI gets a host's certificate only where    *)
(* `no_sni fallback` says so.  A `no_sni cert` policy answers those clients*)
(* with its certificate and no other, and the QUIC alert goes to QUIC only.*)
StrictNeverGuesses ==
    Answered =>
        /\ cfg.strict /\ answer \in Loaded =>
              IF hello.sni = <<>> THEN cfg.noSNI = "fallback" ELSE Covers(answer, hello.sni)
        /\ hello.sni = <<>> /\ cfg.noSNI = "cert" /\ isCert(answer) => answer[1] = noSNIPair
        /\ answer = alertMissingExtension => hello.quic

=============================================================================
