------------------------------- MODULE Cookie -------------------------------
(***************************************************************************)
(* The cookie plugin on the servers behind one anycast address: a client   *)
(* whose queries may reach a different server each time, server clocks     *)
(* that differ, and an operator who rolls the secret over in the stages    *)
(* of the plugin's README while cookies of the old secret are in use.      *)
(*                                                                         *)
(* A server cookie is its fields; the hash is represented by what went     *)
(* into it (secret, address, timestamp), so only a cookie made with a      *)
(* secret verifies under it.  The client cookie is the client's own.       *)
(***************************************************************************)
EXTENDS Integers, FiniteSets

CONSTANTS
    Servers,
    Mode,              \* "permissive" or "enforce"
    Modulus,           \* 2^32: timestamps are taken modulo this
    maxAgeSeconds, maxFutureSeconds,
    MaxSkew,           \* how far ahead of the slowest a server's clock may be
    Wait,              \* how long the operator waits before forgetting a secret:
                       \* by the README the longest TTL, plus maxAgeSeconds
    Addresses,         \* addresses the client moves between
    Start, End     \* bounds on the clock, less than Modulus apart

ASSUME CookieAssumption ==
    /\ Mode \in {"permissive", "enforce"}
    /\ Modulus \in Nat \ {0}
    /\ maxAgeSeconds \in Nat /\ maxFutureSeconds \in Nat
    /\ maxAgeSeconds + maxFutureSeconds < Modulus
    /\ MaxSkew \in 0..maxFutureSeconds
    /\ Wait \in Nat /\ Wait > maxAgeSeconds - MaxSkew
    /\ Start \in Nat /\ End \in Nat /\ Start <= End
    /\ End - Start + MaxSkew < Modulus - maxFutureSeconds

Secrets == {"A", "B"}

-----------------------------------------------------------------------------
(* cookie.go                                                               *)

(* Mutant of inWindow: plain instead of 32-bit subtraction.                *)
inWindowPlain(t, ts) == t - ts \in -maxFutureSeconds..maxAgeSeconds

(* age is the uint32 difference.                                           *)
inWindow(t, ts) ==
    LET age == (t - ts) % Modulus
    IN  age <= maxAgeSeconds \/ age >= Modulus - maxFutureSeconds

serverCookie(secret, ip, t) ==
    [len |-> 16, version |-> 1, secret |-> secret, ip |-> ip, ts |-> t % Modulus]

(* Mutant of verify: the address is not part of the hash.                  *)
verifyAnyAddress(secret, c, ip, t) ==
    c.len = 16 /\ c.version = 1 /\ inWindow(t, c.ts) /\ c.secret = secret

verify(secret, c, ip, t) ==
    /\ c.len = 16 /\ c.version = 1
    /\ inWindow(t, c.ts)
    /\ c.secret = secret /\ c.ip = ip

(* Mutant of check: verify_only secrets are not tried.                     *)
checkGeneratingOnly(keys, c, ip, t) ==
    IF verify(keys.generate, c, ip, t) THEN "valid" ELSE "invalid_server"

check(keys, c, ip, t) ==
    CASE verify(keys.generate, c, ip, t)              -> "valid"
      [] ~verify(keys.generate, c, ip, t)
         /\ \E k \in keys.verifyOnly : verify(k, c, ip, t) -> "valid_previous"
      [] OTHER                                        -> "invalid_server"

-----------------------------------------------------------------------------
(* handler.go.  An option is a record; its kind says what classify makes   *)
(* of its length.                                                          *)

NoCookie == [kind |-> "none"]
Malformed == [kind |-> "malformed"]
ClientOnly == [kind |-> "client_only"]
WithServer(c) == [kind |-> "with_server", cookie |-> c]

NoAddress == "invalid"      \* clientAddr of a source that is no IP address

inspect(keys, option, ip, t) ==
    CASE option.kind # "with_server" -> option.kind
      [] option.kind = "with_server" /\ ip = NoAddress -> "invalid_server"
      [] OTHER -> check(keys, option.cookie, ip, t)

validated(status) == status \in {"valid", "valid_previous"}

(* The rcode and the COOKIE option of the response.                        *)
ServeDNS(keys, option, ip, proto, t) ==
    LET status == inspect(keys, option, ip, t)
        fresh == WithServer(serverCookie(keys.generate, ip, t))
    IN  CASE status = "none"      -> [rcode |-> "next", option |-> NoCookie]
          [] status = "malformed" -> [rcode |-> "FORMERR", option |-> NoCookie]
          [] status \notin {"none", "malformed"} ->
                [rcode |-> IF ~validated(status) /\ Mode = "enforce" /\ proto = "udp"
                           THEN "BADCOOKIE" ELSE "next",
                 option |-> fresh]

-----------------------------------------------------------------------------
VARIABLES
    slowest,  \* the slowest server's clock, in seconds
    skew,     \* how far ahead each server's clock is
    stage,    \* each server's stage of the rollover, 0 to 3
    entered,  \* when the last server entered stage 2
    ip,       \* the client's address
    held,     \* the option the client sends: its cookie, once it has one
    issued,   \* history: when that cookie was made
    reply,    \* the reply in flight, if any
    sent      \* history: when it was sent

cookieVars == <<slowest, skew, stage, entered, ip, held, issued, reply, sent>>

Protos == {"udp", "tcp"}
Sources == Addresses \cup {NoAddress}

Quiet == [rcode |-> "quiet"]

(* Options a client may send besides the one it holds: none at all, one of *)
(* a wrong length, a fresh start, a cookie of some other server.           *)
Strays ==
    {NoCookie, Malformed, ClientOnly}
        \cup {WithServer([serverCookie("other", ip, slowest)
                            EXCEPT !.len = l, !.version = v]) :
                l \in {16, 20}, v \in {1, 2}}

(* The secrets a server has loaded at each stage of the rollover.          *)
secrets(s) ==
    CASE stage[s] = 0 -> [generate |-> "A", verifyOnly |-> {}]
      [] stage[s] = 1 -> [generate |-> "A", verifyOnly |-> {"B"}]
      [] stage[s] = 2 -> [generate |-> "B", verifyOnly |-> {"A"}]
      [] stage[s] = 3 -> [generate |-> "B", verifyOnly |-> {}]

clock(s) == slowest + skew[s]

CookieInit ==
    /\ slowest = Start
    /\ skew \in [Servers -> 0..MaxSkew]
    /\ stage = [s \in Servers |-> 0]
    /\ entered = Start
    /\ ip \in Sources
    /\ held = ClientOnly
    /\ issued = Start
    /\ reply = Quiet /\ sent = Start

(* Some server of the set answers a query of the client.  The client has   *)
(* one query out at a time, so a query that is delayed is one asked later, *)
(* and one that is lost is none.                                           *)
Answer(s, option, proto) ==
    /\ reply = Quiet
    /\ reply' = ServeDNS(secrets(s), option, ip, proto, clock(s))
    /\ sent' = slowest
    /\ UNCHANGED <<slowest, skew, stage, entered, ip, held, issued>>

(* The client keeps the cookie that comes with a reply.                    *)
Receive ==
    /\ reply # Quiet
    /\ IF reply.option = NoCookie THEN UNCHANGED <<held, issued>>
       ELSE held' = reply.option /\ issued' = sent
    /\ reply' = Quiet /\ sent' = Start
    /\ UNCHANGED <<slowest, skew, stage, entered, ip>>

Lose ==
    /\ reply # Quiet
    /\ reply' = Quiet /\ sent' = Start
    /\ UNCHANGED <<slowest, skew, stage, entered, ip, held, issued>>

(* The client's address changes; it still has its cookie.                  *)
Move ==
    /\ reply = Quiet
    /\ ip' \in Sources \ {ip}
    /\ UNCHANGED <<slowest, skew, stage, entered, held, issued, reply, sent>>

(* A reload puts a server into the next stage.  Every server is in stage 1 *)
(* before any enters stage 2, and stage 3 waits.                           *)
Reload(s) ==
    /\ stage[s] < 3
    /\ stage[s] = 1 => \A r \in Servers : stage[r] >= 1
    /\ stage[s] = 2 => /\ \A r \in Servers : stage[r] >= 2
                       /\ slowest >= entered + Wait
    /\ stage' = [stage EXCEPT ![s] = @ + 1]
    /\ entered' = IF stage[s] = 1 THEN slowest ELSE entered
    /\ UNCHANGED <<slowest, skew, ip, held, issued, reply, sent>>

Tick ==
    /\ slowest < End
    /\ slowest' = slowest + 1
    /\ UNCHANGED <<skew, stage, entered, ip, held, issued, reply, sent>>

CookieNext ==
    \/ \E s \in Servers, option \in {held} \cup Strays, proto \in Protos :
          Answer(s, option, proto)
    \/ \E s \in Servers : Reload(s)
    \/ Receive \/ Lose \/ Move \/ Tick

CookieSpec == CookieInit /\ [][CookieNext]_cookieVars

-----------------------------------------------------------------------------
(* Properties                                                              *)

(* The type invariant: what is in the variables, and that a client only    *)
(* ever holds 16-byte version 1 cookies of the set's secrets.              *)
CookieTypeOK ==
    /\ slowest \in Start..End
    /\ skew \in [Servers -> 0..MaxSkew]
    /\ stage \in [Servers -> 0..3]
    /\ entered \in Start..slowest /\ issued \in Start..slowest
    /\ ip \in Sources
    /\ \/ held = ClientOnly
       \/ \E k \in Secrets, a \in Sources, t \in 0..(Modulus - 1) :
              held = WithServer(serverCookie(k, a, t))

(* inWindow's 32-bit arithmetic is the true window: a timestamp d seconds  *)
(* old is accepted exactly when d is at most maxAge and at least -maxFuture*)
(* (also where the clock wraps), for every d no whole wrap away from that. *)
WindowIsExact ==
    \A s \in Servers, d \in (maxAgeSeconds - Modulus + 1)..(Modulus - maxFutureSeconds - 1) :
        inWindow(clock(s), (clock(s) - d) % Modulus)
            <=> d \in -maxFutureSeconds..maxAgeSeconds

(* Every server validates a cookie any server of the set made for this     *)
(* address within maxAge (less the clocks' difference), whatever stage of  *)
(* the rollover the two are in (check, and the README's rollout table).  So*)
(* BADCOOKIE never costs a client a second round trip.                     *)
AcceptedEverywhere ==
    \A s \in Servers :
        /\ held.kind = "with_server"
        /\ held.cookie.ip = ip /\ ip # NoAddress
        /\ slowest - issued <= maxAgeSeconds - MaxSkew
        => validated(inspect(secrets(s), held, ip, clock(s)))

(* Under enforce, ServeDNS lets a UDP query with a COOKIE option through   *)
(* only if the set made the cookie, for the address the query came from and*)
(* at most maxAge ago (plus the clocks' difference); none does from a      *)
(* source without an address, whose cookies hash alike.                    *)
EnforcedOverUDP ==
    [][\A s \in Servers, option \in Strays \cup {held} :
         /\ Answer(s, option, "udp")
         /\ option # NoCookie /\ reply'.rcode = "next" /\ Mode = "enforce"
         => /\ option = held
            /\ held.kind = "with_server" /\ held.cookie.ip = ip /\ ip # NoAddress
            /\ slowest - issued <= maxAgeSeconds + MaxSkew]_cookieVars

=============================================================================
