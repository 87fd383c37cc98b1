-------------------------- MODULE RadnrAdvertiser --------------------------
(***************************************************************************)
(* radnr's advertisers on one link (internal/advertiser/advertiser.go):    *)
(* Run's loop over the interval timer, the solicitations and the           *)
(* cancellation, the goroutine that reads solicitations, and OnStartup and *)
(* OnShutdown (radnr.go), which start the next advertiser and cancel the   *)
(* one before.  Advertiser k is the one of the k-th Corefile.              *)
(*                                                                         *)
(* Time is a number of units; the durations are constants.  A send is one  *)
(* step and takes no time.  time.Timer (Go 1.23 on) never delivers a tick  *)
(* of before its last Reset, so it is ready exactly when next has come.    *)
(***************************************************************************)
EXTENDS Integers, FiniteSets, FiniteSetsExt

CONSTANTS
    NAdvertisers,  \* bound: how many advertisers the reloads start
    MinDelay,      \* minDelayBetweenRAs
    MaxRADelay,    \* maxRADelay
    Interval,      \* a.Interval, MaxRtrAdvInterval
    Lag,           \* how late the loop may handle a timer that has fired
    ReadErrors,    \* whether ReadFrom can fail on an open connection
    MaxTime,      \* bound on the clock
    MaxInbox       \* bound on solicitations waiting in a socket

ASSUME RadnrAssumption ==
    /\ NAdvertisers \in Nat \ {0}
    /\ MinDelay \in Nat \ {0} /\ MaxRADelay \in Nat /\ Interval \in Nat \ {0}
    /\ Lag \in Nat /\ ReadErrors \in BOOLEAN
    /\ MaxTime \in Nat /\ MaxInbox \in Nat

Advertisers == 1..NAdvertisers
Never == -1

raDelay == IF MaxRADelay = 0 THEN {0} ELSE 0..(MaxRADelay - 1)

minInterval == Max({Interval \div 3, MinDelay})

(* Mutant of nextInterval: the lower bound of the interval is left out.    *)
nextIntervalShort == MinDelay..Interval

nextInterval ==
    IF minInterval >= Interval THEN {Interval} ELSE minInterval..(Interval - 1)

(* A solicitation as ReadFrom reports it: its hop limit is 255, it comes   *)
(* from the unspecified address, it has a source link-layer option.        *)
Solicitations == [hop255 : BOOLEAN, unspecified : BOOLEAN, lladdr : BOOLEAN]

validSolicitation(m) == m.hop255 /\ ~(m.unspecified /\ m.lladdr)

VARIABLES
    now,        \* the clock
    buildable,  \* the advertisers whose config BuildRA accepts (RadnrConfig)
    pc,         \* where each Run is
    reader,     \* where each readSolicitations is
    open,       \* the connections that are open
    cancelled,  \* the advertisers whose context is cancelled
    inbox,      \* how many messages wait in each socket
    next,       \* s.next
    lastSent,   \* s.lastSent
    asked       \* history: when the oldest unanswered solicitation came in

schedule == <<next, lastSent, asked>>
advVars == <<now, buildable, pc, reader, open, cancelled, inbox, schedule>>

AdvInit ==
    /\ now = 0
    /\ buildable \in SUBSET Advertisers
    /\ pc = [a \in Advertisers |-> "off"]
    /\ reader = [a \in Advertisers |-> "off"]
    /\ open = {}
    /\ cancelled = {}
    /\ inbox = [a \in Advertisers |-> 0]
    /\ next = [a \in Advertisers |-> Never]
    /\ lastSent = [a \in Advertisers |-> Never]
    /\ asked = [a \in Advertisers |-> Never]

-----------------------------------------------------------------------------
(* The plugin's hooks                                                      *)

OnStartup(a) ==
    /\ pc[a] = "off"
    /\ \A b \in Advertisers : b < a => pc[b] # "off"
    /\ open' = open \cup {a}
    /\ cancelled' = cancelled \cup {b \in Advertisers : b < a}
    /\ pc' = [pc EXCEPT ![a] = "start"]
    /\ UNCHANGED <<now, buildable, reader, inbox, schedule>>

OnShutdown(a) ==
    /\ pc[a] # "off"
    /\ a \notin cancelled
    /\ cancelled' = cancelled \cup {a}
    /\ UNCHANGED <<now, buildable, pc, reader, open, inbox, schedule>>

-----------------------------------------------------------------------------
(* raSchedule                                                              *)

(* send, and at for the time of the next one                               *)
send(a, interval) ==
    /\ lastSent' = [lastSent EXCEPT ![a] = now]
    /\ next' = [next EXCEPT ![a] = now + interval]
    /\ asked' = [asked EXCEPT ![a] = Never]

earliest(a) == lastSent[a] + MinDelay

(* Mutant of held:    no minimum delay.                                    *)
heldNever(a) == FALSE

held(a) == now < earliest(a)

onTimer(a, interval) ==
    IF held(a)
    THEN /\ next' = [next EXCEPT ![a] = earliest(a)]
         /\ UNCHANGED <<lastSent, asked>>
    ELSE send(a, interval)

(* Mutant of onSolicitation: each solicitation puts the answer off.        *)
onSolicitationPostpones(a, delay) ==
    next' = [next EXCEPT ![a] = now + MinDelay + delay]

onSolicitation(a, delay) ==
    LET at == IF held(a) THEN earliest(a) + delay ELSE now + delay
    IN  next' = [next EXCEPT ![a] = IF at < @ THEN at ELSE @]

-----------------------------------------------------------------------------
(* Run                                                                     *)

closeConn(a, label) ==
    /\ open' = open \ {a}
    /\ pc' = [pc EXCEPT ![a] = label]

(* BuildRA refuses what Config.Validate let through: Run returns at once,  *)
(* with the connection OnStartup opened still open.                        *)
BuildFails(a) ==
    /\ pc[a] = "start"
    /\ a \notin buildable
    /\ pc' = [pc EXCEPT ![a] = "done"]
    /\ UNCHANGED <<now, buildable, reader, open, cancelled, inbox, schedule>>

CancelledAtStart(a) ==
    /\ pc[a] = "start"
    /\ a \in buildable
    /\ a \in cancelled
    /\ closeConn(a, "done")
    /\ UNCHANGED <<now, buildable, reader, cancelled, inbox, schedule>>

InitialRA(a, interval) ==
    /\ pc[a] = "start"
    /\ a \in buildable
    /\ a \notin cancelled
    /\ send(a, interval)
    /\ reader' = [reader EXCEPT ![a] = "read"]
    /\ pc' = [pc EXCEPT ![a] = "loop"]
    /\ UNCHANGED <<now, buildable, open, cancelled, inbox>>

(* select takes any of its ready cases, cancelled or not.                  *)
TimerFires(a, interval) ==
    /\ pc[a] = "loop"
    /\ now >= next[a]
    /\ onTimer(a, interval)
    /\ UNCHANGED <<now, buildable, pc, reader, open, cancelled, inbox>>

TakeSolicitation(a, delay) ==
    /\ pc[a] = "loop"
    /\ reader[a] = "offer"
    /\ reader' = [reader EXCEPT ![a] = "read"]
    /\ onSolicitation(a, delay)
    /\ asked' = [asked EXCEPT ![a] = IF @ = Never THEN now ELSE @]
    /\ UNCHANGED <<now, buildable, pc, open, cancelled, inbox, lastSent>>

(* Mutant of Stop: the connection is not closed.                           *)
StopWithoutClose(a) ==
    /\ pc[a] = "loop"
    /\ a \in cancelled
    /\ pc' = [pc EXCEPT ![a] = "closing"]
    /\ UNCHANGED <<now, buildable, reader, open, cancelled, inbox, schedule>>

Stop(a) ==
    /\ pc[a] = "loop"
    /\ a \in cancelled
    /\ closeConn(a, "closing")
    /\ UNCHANGED <<now, buildable, reader, cancelled, inbox, schedule>>

Finish(a) ==
    /\ pc[a] = "closing"
    /\ reader[a] = "done"
    /\ pc' = [pc EXCEPT ![a] = "done"]
    /\ UNCHANGED <<now, buildable, reader, open, cancelled, inbox, schedule>>

-----------------------------------------------------------------------------
(* readSolicitations                                                       *)

readTo(a, label) ==
    /\ reader' = [reader EXCEPT ![a] = label]
    /\ UNCHANGED <<now, buildable, pc, open, cancelled, schedule>>

ReadFrom(a, m) ==
    /\ reader[a] = "read"
    /\ a \in open
    /\ inbox[a] > 0
    /\ inbox' = [inbox EXCEPT ![a] = @ - 1]
    /\ readTo(a, IF validSolicitation(m) THEN "offer" ELSE "read")

ReadFails(a) ==
    /\ reader[a] = "read"
    /\ a \notin open \/ ReadErrors
    /\ UNCHANGED inbox
    /\ readTo(a, "done")

GiveUpOffer(a) ==
    /\ reader[a] = "offer"
    /\ a \in cancelled
    /\ UNCHANGED inbox
    /\ readTo(a, "done")

-----------------------------------------------------------------------------
(* The link and the clock                                                  *)

Solicit ==
    /\ \E a \in open : inbox[a] < MaxInbox
    /\ inbox' = [a \in Advertisers |->
                    IF a \in open /\ inbox[a] < MaxInbox THEN inbox[a] + 1
                    ELSE inbox[a]]
    /\ UNCHANGED <<now, buildable, pc, reader, open, cancelled, schedule>>

(* A timer that has fired is handled within Lag, also by a loop that is    *)
(* being cancelled; an advertiser that has started gets on with it.        *)
TimePasses ==
    /\ now < MaxTime
    /\ \A a \in Advertisers :
          /\ pc[a] # "start"
          /\ pc[a] = "loop" => now < next[a] + Lag
    /\ now' = now + 1
    /\ UNCHANGED <<buildable, pc, reader, open, cancelled, inbox, schedule>>

Run(a) ==
    \/ BuildFails(a) \/ CancelledAtStart(a) \/ Stop(a) \/ Finish(a)
    \/ \E i \in nextInterval : InitialRA(a, i) \/ TimerFires(a, i)
    \/ \E d \in raDelay : TakeSolicitation(a, d)

readSolicitations(a) ==
    ReadFails(a) \/ GiveUpOffer(a) \/ \E m \in Solicitations : ReadFrom(a, m)

AdvNext ==
    \/ \E a \in Advertisers :
          OnStartup(a) \/ OnShutdown(a) \/ Run(a) \/ readSolicitations(a)
    \/ Solicit
    \/ TimePasses

AdvSpec == AdvInit /\ [][AdvNext]_advVars

(* Goroutines that can go on do; select, which picks a ready case at       *)
(* random, does not pass over a cancellation for ever.                     *)
Fairness ==
    \A a \in Advertisers :
        /\ WF_advVars(Run(a)) /\ WF_advVars(Stop(a))
        /\ WF_advVars(ReadFails(a) /\ a \notin open) /\ WF_advVars(GiveUpOffer(a))

AdvFairSpec == AdvSpec /\ Fairness

-----------------------------------------------------------------------------
(* Properties                                                              *)

(* Type invariant.                                                         *)
AdvTypeOK ==
    /\ now \in 0..MaxTime /\ buildable \subseteq Advertisers
    /\ pc \in [Advertisers -> {"off", "start", "loop", "closing", "done"}]
    /\ reader \in [Advertisers -> {"off", "read", "offer", "done"}]
    /\ open \subseteq Advertisers /\ cancelled \subseteq Advertisers
    /\ inbox \in [Advertisers -> 0..MaxInbox]
    /\ next \in [Advertisers -> Int] /\ lastSent \in [Advertisers -> Int]
    /\ asked \in [Advertisers -> Int]

Sends(a) == lastSent'[a] # lastSent[a]

(* Run's comment: an advertiser's RAs are at least MIN_DELAY_BETWEEN_RAS   *)
(* apart whatever triggered them, however late its timer is handled.       *)
RateLimited ==
    [][\A a \in Advertisers :
         Sends(a) /\ lastSent[a] # Never => now - lastSent[a] >= MinDelay]_advVars

(* The same for the link, as RFC 4861 means it and Run's comment quotes it,*)
(* with advertisers that replace each other.                               *)
LinkRateLimited ==
    [][\A a, b \in Advertisers :
         Sends(a) /\ lastSent[b] # Never => now - lastSent[b] >= MinDelay]_advVars

(* A solicitation Run has taken is answered within MIN_DELAY_BETWEEN_RAS   *)
(* plus MAX_RA_DELAY_TIME (and the loop's lag), however many more come in, *)
(* and no advertiser falls silent for longer than its interval while it    *)
(* runs, with or without a reader: one that a read error ended leaves the  *)
(* periodic RAs alone.                                                     *)
AnsweredInTime ==
    \A a \in Advertisers :
        pc[a] = "loop" =>
            /\ asked[a] # Never => now <= asked[a] + MinDelay + MaxRADelay + Lag
            /\ now <= lastSent[a] + Max({Interval, MinDelay}) + Lag

(* An RA nobody asked for comes no sooner than MinRtrAdvInterval after the *)
(* one before: a solicited RA resets the interval timer too.               *)
UnsolicitedSpacing ==
    [][\A a \in Advertisers :
         pc[a] = "loop" /\ Sends(a) /\ asked[a] = Never
            => lastSent'[a] - lastSent[a] >= Min({minInterval, Interval})]_advVars

(* A cancelled advertiser's goroutines both end, also with the reader      *)
(* blocked on a read or on handing over a solicitation, and its socket is  *)
(* closed unless its Run never got past BuildRA.                           *)
CancelEndsBoth ==
    \A a \in Advertisers :
        a \in cancelled /\ pc[a] # "off"
            ~> /\ pc[a] = "done" /\ reader[a] \in {"off", "done"}
               /\ a \in open => a \notin buildable

(* A Run that has returned has closed its connection.  A BuildRA error     *)
(* returns without.                                                        *)
ClosedWhenDone == \A a \in Advertisers : pc[a] = "done" => a \notin open

(* readSolicitations' comment: it reads until the connection is closed or  *)
(* the context is cancelled.                                               *)
ReadsUntilClosed ==
    \A a \in Advertisers : reader[a] = "done" => a \notin open \/ a \in cancelled

=============================================================================
