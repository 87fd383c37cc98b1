--------------------------- MODULE NetworkProofs ---------------------------
(***************************************************************************)
(* Proofs about what a peer on the network gets: router advertisements     *)
(* (RadnrAdvertiser) and certificates (SniHandshake).  The two share no    *)
(* state.                                                                  *)
(***************************************************************************)
EXTENDS RadnrAdvertiser, SniHandshake, WellFoundedInduction, TLAPS

-----------------------------------------------------------------------------
(***************************************************************************)
(* RadnrAdvertiser, for every number of advertisers, every interval, delay *)
(* and lag, and however long they run.                                     *)
(***************************************************************************)

(* The bounds raSchedule keeps to: Longest is the longest an advertiser is *)
(* silent, Shortest the shortest unsolicited interval.                     *)
Longest == Max({Interval, MinDelay})
Shortest == Min({minInterval, Interval})

(* raSchedule between two RAs.  The timer is handled in time; it is set no *)
(* later than the interval allows, nor than the oldest unanswered          *)
(* solicitation does; and without one it is set no sooner than the         *)
(* unsolicited interval allows, also after it fired early and was held.    *)
ScheduleInv(a) ==
    /\ lastSent[a] \in 0..now
    /\ now <= next[a] + Lag
    /\ next[a] <= lastSent[a] + Longest
    /\ asked[a] # Never =>
          /\ lastSent[a] <= asked[a] /\ asked[a] <= now
          /\ next[a] <= asked[a] + MinDelay + MaxRADelay
    /\ asked[a] = Never => next[a] >= lastSent[a] + Shortest

(* The inductive invariant.                                                *)
RadnrInv ==
    /\ AdvTypeOK
    /\ \A a \in Advertisers :
          /\ pc[a] \in {"off", "start"} => lastSent[a] = Never
          /\ pc[a] = "loop" => ScheduleInv(a)

-----------------------------------------------------------------------------
(* The smaller and the larger of two numbers.                              *)
LEMMA MinMaxOfTwo ==
    ASSUME NEW x \in Int, NEW y \in Int
    PROVE  /\ Max({x, y}) = IF x >= y THEN x ELSE y
           /\ Min({x, y}) = IF x <= y THEN x ELSE y
<1>1. Max({x, y}) = IF x >= y THEN x ELSE y
  <2> DEFINE m == IF x >= y THEN x ELSE y
  <2>1. m \in {x, y} /\ \A z \in {x, y} : m >= z
    OBVIOUS
  <2>2. ASSUME NEW n \in {x, y}, \A z \in {x, y} : n >= z PROVE n = m
    BY <2>2
  <2> HIDE DEF m
  <2>3. Max({x, y}) \in {x, y} /\ \A z \in {x, y} : Max({x, y}) >= z
    BY <2>1 DEF Max
  <2> QED BY <2>2, <2>3 DEF m
<1>2. Min({x, y}) = IF x <= y THEN x ELSE y
  <2> DEFINE m == IF x <= y THEN x ELSE y
  <2>1. m \in {x, y} /\ \A z \in {x, y} : m <= z
    OBVIOUS
  <2>2. ASSUME NEW n \in {x, y}, \A z \in {x, y} : n <= z PROVE n = m
    BY <2>2
  <2> HIDE DEF m
  <2>3. Min({x, y}) \in {x, y} /\ \A z \in {x, y} : Min({x, y}) <= z
    BY <2>1 DEF Min
  <2> QED BY <2>2, <2>3 DEF m
<1> QED BY <1>1, <1>2

(* nextInterval draws between the two, and so does the minimum delay.      *)
LEMMA IntervalBounds ==
    /\ Longest \in Nat /\ Shortest \in Int /\ minInterval \in Int
    /\ MinDelay <= Longest
    /\ \A i \in nextInterval : i \in Int /\ 0 <= i /\ Shortest <= i /\ i <= Longest
    /\ \A d \in raDelay : d \in Nat /\ d <= MaxRADelay
<1>1. Interval \div 3 \in Nat /\ Interval \in Nat /\ MinDelay \in Nat /\ MaxRADelay \in Nat
  BY RadnrAssumption
<1>2. minInterval = IF Interval \div 3 >= MinDelay THEN Interval \div 3 ELSE MinDelay
  BY <1>1, MinMaxOfTwo DEF minInterval
<1>3. minInterval \in Nat
  BY <1>1, <1>2
<1>4. Longest = IF Interval >= MinDelay THEN Interval ELSE MinDelay
  BY <1>1, MinMaxOfTwo DEF Longest
<1>5. Shortest = IF minInterval <= Interval THEN minInterval ELSE Interval
  BY <1>1, <1>3, MinMaxOfTwo DEF Shortest
<1>6. ASSUME NEW i \in nextInterval
      PROVE  i \in Int /\ 0 <= i /\ Shortest <= i /\ i <= Longest
  BY <1>1, <1>3, <1>4, <1>5 DEF nextInterval
<1>7. ASSUME NEW d \in raDelay PROVE d \in Nat /\ d <= MaxRADelay
  BY <1>1 DEF raDelay
<1> QED BY <1>1, <1>3, <1>4, <1>5, <1>6, <1>7

-----------------------------------------------------------------------------
(* No advertiser has been started.                                         *)
LEMMA AdvInitially == AdvInit => RadnrInv
<1> SUFFICES ASSUME AdvInit PROVE RadnrInv
  OBVIOUS
<1>1. AdvTypeOK
  BY RadnrAssumption DEF AdvInit, AdvTypeOK, Never
<1> QED BY <1>1 DEF AdvInit, RadnrInv

(* An RA goes out now.   It opens a new interval.                          *)
LEMMA SendOpensInterval ==
    ASSUME AdvTypeOK, NEW a \in Advertisers, NEW i \in nextInterval, send(a, i), now' = now
    PROVE  ScheduleInv(a)'
<1>1. now \in Nat /\ Lag \in Nat
  BY RadnrAssumption DEF AdvTypeOK
<1>2. lastSent'[a] = now /\ next'[a] = now + i /\ asked'[a] = Never
  BY DEF send, AdvTypeOK
<1>3. i \in Int /\ 0 <= i /\ Shortest <= i /\ i <= Longest /\ Longest \in Nat /\ Shortest \in Int
  BY Zenon, IntervalBounds
<1>4. /\ lastSent'[a] \in 0..now /\ now <= next'[a] + Lag
      /\ next'[a] <= lastSent'[a] + Longest /\ next'[a] >= lastSent'[a] + Shortest
  BY <1>1, <1>2, <1>3
<1> QED BY <1>2, <1>4 DEF ScheduleInv

(* The timer of advertiser a fires.                                        *)
LEMMA TimerKeeps ==
    ASSUME AdvTypeOK, NEW a \in Advertisers, ScheduleInv(a), NEW i \in nextInterval,
           now >= next[a], onTimer(a, i), now' = now
    PROVE  /\ ScheduleInv(a)'
           /\ Sends(a) => /\ now - lastSent[a] >= MinDelay
                          /\ asked[a] = Never => lastSent'[a] - lastSent[a] >= Shortest
<1>0. /\ now \in Nat /\ Lag \in Nat /\ MinDelay \in Nat /\ MaxRADelay \in Nat
      /\ next[a] \in Int /\ lastSent[a] \in Int /\ asked[a] \in Int
  BY RadnrAssumption DEF AdvTypeOK
<1>1. CASE held(a)
  <2>1. next'[a] = lastSent[a] + MinDelay /\ lastSent' = lastSent /\ asked' = asked
    BY <1>1 DEF onTimer, earliest, AdvTypeOK
  <2>2. now < lastSent[a] + MinDelay
    BY <1>1 DEF held, earliest
  <2>3. ScheduleInv(a)'
    BY <1>0, <2>1, <2>2, IntervalBounds DEF ScheduleInv
  <2> QED BY <2>1, <2>3 DEF Sends
<1>2. CASE ~held(a)
  <2>1. send(a, i) /\ lastSent'[a] = now
    BY <1>2 DEF onTimer, send, AdvTypeOK
  <2>2. now - lastSent[a] >= MinDelay
    BY <1>0, <1>2 DEF held, earliest
  <2>3. asked[a] = Never => now - lastSent[a] >= Shortest
    BY <1>0, IntervalBounds DEF ScheduleInv
  <2> QED BY <2>1, <2>2, <2>3, SendOpensInterval
<1> QED BY <1>1, <1>2

(* A solicitation brings the next RA forward, never puts it off.           *)
LEMMA SolicitationKeeps ==
    ASSUME AdvTypeOK, NEW a \in Advertisers, ScheduleInv(a), NEW d \in raDelay,
           onSolicitation(a, d), asked' = [asked EXCEPT ![a] = IF @ = Never THEN now ELSE @],
           lastSent' = lastSent, now' = now
    PROVE  ScheduleInv(a)'
<1>0. /\ now \in Nat /\ Lag \in Nat /\ MinDelay \in Nat /\ MaxRADelay \in Nat
      /\ next[a] \in Int /\ lastSent[a] \in Int /\ asked[a] \in Int
      /\ d \in Nat /\ d <= MaxRADelay
  BY RadnrAssumption, IntervalBounds DEF AdvTypeOK
<1> DEFINE at == IF now < lastSent[a] + MinDelay THEN lastSent[a] + MinDelay + d ELSE now + d
<1>1. next'[a] = IF at < next[a] THEN at ELSE next[a]
  BY DEF onSolicitation, held, earliest, AdvTypeOK
<1>2. asked'[a] = IF asked[a] = Never THEN now ELSE asked[a]
  BY DEF AdvTypeOK
<1>3. /\ at \in Int /\ now <= at
      /\ lastSent[a] <= now => at <= now + MinDelay + MaxRADelay
  BY <1>0
<1> HIDE DEF at
<1>4. now # Never
  BY <1>0 DEF Never
<1>5. Longest \in Nat /\ Shortest \in Int
  BY IntervalBounds
<1> QED BY <1>0, <1>1, <1>2, <1>3, <1>4, <1>5 DEF ScheduleInv

(* A step that leaves an advertiser's loop and schedule alone.             *)
LEMMA ScheduleFrame ==
    ASSUME NEW a \in Advertisers, ScheduleInv(a), now' = now,
           lastSent'[a] = lastSent[a], next'[a] = next[a], asked'[a] = asked[a]
    PROVE  ScheduleInv(a)'
BY DEF ScheduleInv

(* What RateLimited and UnsolicitedSpacing say of one step.                *)
Spaced ==
    \A a \in Advertisers :
        /\ Sends(a) /\ lastSent[a] # Never => now - lastSent[a] >= MinDelay
        /\ pc[a] = "loop" /\ Sends(a) /\ asked[a] = Never
              => lastSent'[a] - lastSent[a] >= Shortest

(* A step that only moves one goroutine, opens or closes a connection or   *)
(* cancels: no schedule changes, and no loop starts.                       *)
LEMMA ControlKeeps ==
    ASSUME RadnrInv, AdvTypeOK', UNCHANGED <<now, next, lastSent, asked>>,
           \A a \in Advertisers : /\ pc'[a] = "loop" => pc[a] = "loop"
                                  /\ pc'[a] \in {"off", "start"} => pc[a] \in {"off", "start"}
    PROVE  RadnrInv' /\ Spaced
<1>1. ASSUME NEW a \in Advertisers, pc'[a] = "loop" PROVE ScheduleInv(a)'
  BY <1>1, ScheduleFrame DEF RadnrInv
<1> QED BY <1>1 DEF RadnrInv, Spaced, Sends

(* The steps of OnStartup, OnShutdown, Run's ends and readSolicitations.   *)
LEMMA ControlSteps ==
    ASSUME RadnrInv, NEW a \in Advertisers,
           \/ OnStartup(a) \/ OnShutdown(a) \/ BuildFails(a) \/ CancelledAtStart(a)
           \/ Stop(a) \/ Finish(a) \/ readSolicitations(a)
    PROVE  RadnrInv' /\ Spaced
<1> USE DEF RadnrInv
<1>1. CASE OnStartup(a)
  <2>1. AdvTypeOK'
    BY <1>1 DEF OnStartup, AdvTypeOK, schedule
  <2> QED BY <1>1, <2>1, ControlKeeps DEF OnStartup, AdvTypeOK, schedule
<1>2. CASE OnShutdown(a)
  <2>1. AdvTypeOK'
    BY <1>2 DEF OnShutdown, AdvTypeOK, schedule
  <2> QED BY <1>2, <2>1, ControlKeeps DEF OnShutdown, schedule
<1>3. CASE BuildFails(a)
  <2>1. AdvTypeOK'
    BY <1>3 DEF BuildFails, AdvTypeOK, schedule
  <2> QED BY <1>3, <2>1, ControlKeeps DEF BuildFails, AdvTypeOK, schedule
<1>4. CASE CancelledAtStart(a)
  <2>1. AdvTypeOK'
    BY <1>4 DEF CancelledAtStart, closeConn, AdvTypeOK, schedule
  <2> QED BY <1>4, <2>1, ControlKeeps DEF CancelledAtStart, closeConn, AdvTypeOK, schedule
<1>5. CASE Stop(a)
  <2>1. AdvTypeOK'
    BY <1>5 DEF Stop, closeConn, AdvTypeOK, schedule
  <2> QED BY <1>5, <2>1, ControlKeeps DEF Stop, closeConn, AdvTypeOK, schedule
<1>6. CASE Finish(a)
  <2>1. AdvTypeOK'
    BY <1>6 DEF Finish, AdvTypeOK, schedule
  <2> QED BY <1>6, <2>1, ControlKeeps DEF Finish, AdvTypeOK, schedule
<1>7. CASE readSolicitations(a)
  <2>1. UNCHANGED <<now, buildable, pc, open, cancelled, next, lastSent, asked>>
    BY <1>7 DEF readSolicitations, ReadFails, GiveUpOffer, ReadFrom, readTo, schedule
  <2>2. inbox' \in [Advertisers -> 0..MaxInbox]
    BY <1>7, RadnrAssumption DEF readSolicitations, ReadFails, GiveUpOffer, ReadFrom, AdvTypeOK
  <2>3. reader' \in [Advertisers -> {"off", "read", "offer", "done"}]
    BY <1>7 DEF readSolicitations, ReadFails, GiveUpOffer, ReadFrom, readTo, AdvTypeOK
  <2>4. AdvTypeOK'
    BY <2>1, <2>2, <2>3 DEF AdvTypeOK
  <2> QED BY <2>1, <2>4, ControlKeeps
<1> QED BY <1>1, <1>2, <1>3, <1>4, <1>5, <1>6, <1>7

(* The steps of Run's loop that touch the schedule.                        *)
LEMMA ScheduleSteps ==
    ASSUME RadnrInv, NEW a \in Advertisers,
           \/ \E i \in nextInterval : InitialRA(a, i) \/ TimerFires(a, i)
           \/ \E d \in raDelay : TakeSolicitation(a, d)
    PROVE  RadnrInv' /\ Spaced
<1> USE DEF RadnrInv
<1>0. /\ now' = now /\ pc'[a] = "loop"
      /\ \A b \in Advertisers \ {a} : /\ pc'[b] = pc[b] /\ lastSent'[b] = lastSent[b]
                                      /\ next'[b] = next[b] /\ asked'[b] = asked[b]
  <2>1. ASSUME NEW i \in nextInterval, InitialRA(a, i) PROVE <1>0!:
    BY <2>1 DEF InitialRA, send, AdvTypeOK
  <2>2. ASSUME NEW i \in nextInterval, TimerFires(a, i) PROVE <1>0!:
    BY <2>2 DEF TimerFires, onTimer, send, AdvTypeOK
  <2>3. ASSUME NEW d \in raDelay, TakeSolicitation(a, d) PROVE <1>0!:
    BY <2>3 DEF TakeSolicitation, onSolicitation, AdvTypeOK
  <2> QED BY <2>1, <2>2, <2>3
<1> DEFINE Done ==
             /\ AdvTypeOK' /\ ScheduleInv(a)'
             /\ Sends(a) /\ lastSent[a] # Never => now - lastSent[a] >= MinDelay
             /\ pc[a] = "loop" /\ Sends(a) /\ asked[a] = Never
                   => lastSent'[a] - lastSent[a] >= Shortest
<1>1. SUFFICES Done
  <2>1. ASSUME NEW b \in Advertisers \ {a}, pc'[b] = "loop" PROVE ScheduleInv(b)'
    BY <1>0, <2>1, ScheduleFrame
  <2> QED BY <1>0, <2>1 DEF Spaced, Sends
<1>2. ASSUME NEW i \in nextInterval, InitialRA(a, i) PROVE Done
  <2>1. pc[a] = "start" /\ send(a, i) /\ lastSent[a] = Never
    BY <1>2 DEF InitialRA
  <2>2. AdvTypeOK'
    BY <1>2, <2>1, IntervalBounds DEF InitialRA, send, AdvTypeOK, Never
  <2> QED BY <1>0, <2>1, <2>2, SendOpensInterval
<1>3. ASSUME NEW i \in nextInterval, TimerFires(a, i) PROVE Done
  <2>1. /\ ScheduleInv(a) /\ now >= next[a] /\ onTimer(a, i)
        /\ UNCHANGED <<now, buildable, pc, reader, open, cancelled, inbox>>
    BY <1>3 DEF TimerFires
  <2>2. next' \in [Advertisers -> Int] /\ lastSent' \in [Advertisers -> Int]
        /\ asked' \in [Advertisers -> Int]
    BY <2>1, IntervalBounds, RadnrAssumption DEF onTimer, send, earliest, AdvTypeOK, Never
  <2>3. AdvTypeOK'
    BY <2>1, <2>2 DEF AdvTypeOK
  <2> QED BY <2>1, <2>3, TimerKeeps
<1>4. ASSUME NEW d \in raDelay, TakeSolicitation(a, d) PROVE Done
  <2>1. /\ ScheduleInv(a) /\ onSolicitation(a, d) /\ lastSent' = lastSent
        /\ asked' = [asked EXCEPT ![a] = IF @ = Never THEN now ELSE @]
        /\ reader' = [reader EXCEPT ![a] = "read"]
        /\ UNCHANGED <<now, buildable, pc, open, cancelled, inbox>>
    BY <1>4 DEF TakeSolicitation
  <2>2. next' \in [Advertisers -> Int] /\ asked' \in [Advertisers -> Int]
    BY <2>1, IntervalBounds, RadnrAssumption DEF onSolicitation, earliest, AdvTypeOK
  <2>3. AdvTypeOK'
    BY <2>1, <2>2 DEF AdvTypeOK
  <2> QED BY Zenon, <2>1, <2>3, SolicitationKeeps DEF Sends
<1> QED BY <1>2, <1>3, <1>4

(* Every step keeps the invariant, and sends no RA too soon.               *)
LEMMA AdvStepKeeps == RadnrInv /\ [AdvNext]_advVars => RadnrInv' /\ Spaced
<1> SUFFICES ASSUME RadnrInv, [AdvNext]_advVars PROVE RadnrInv' /\ Spaced
  OBVIOUS
<1>1. ASSUME NEW a \in Advertisers, OnStartup(a) \/ OnShutdown(a) \/ Run(a)
                                       \/ readSolicitations(a)
      PROVE  RadnrInv' /\ Spaced
  BY <1>1, ControlSteps, ScheduleSteps DEF Run
<1>2. CASE Solicit
  <2>1. inbox' \in [Advertisers -> 0..MaxInbox]
    BY <1>2, RadnrAssumption DEF Solicit, RadnrInv, AdvTypeOK
  <2>2. UNCHANGED <<now, buildable, pc, reader, open, cancelled, next, lastSent, asked>>
    BY <1>2 DEF Solicit, schedule
  <2>3. AdvTypeOK'
    BY <2>1, <2>2 DEF RadnrInv, AdvTypeOK
  <2> QED BY <2>2, <2>3, ControlKeeps
<1>3. CASE TimePasses
  <2>1. /\ now' = now + 1 /\ now < MaxTime
        /\ UNCHANGED <<buildable, pc, reader, open, cancelled, inbox, next, lastSent, asked>>
        /\ \A a \in Advertisers : pc[a] = "loop" => now < next[a] + Lag
    BY <1>3 DEF TimePasses, schedule
  <2>2. AdvTypeOK'
    BY <2>1, RadnrAssumption DEF RadnrInv, AdvTypeOK
  <2>3. ASSUME NEW a \in Advertisers, pc[a] = "loop" PROVE ScheduleInv(a)'
    <3>1. /\ now \in Nat /\ Lag \in Nat /\ next[a] \in Int
          /\ lastSent[a] \in Int /\ asked[a] \in Int
      BY RadnrAssumption DEF RadnrInv, AdvTypeOK
    <3> QED BY <2>1, <2>3, <3>1 DEF RadnrInv, ScheduleInv
  <2> QED BY <2>1, <2>2, <2>3 DEF RadnrInv, Spaced, Sends
<1>4. CASE UNCHANGED advVars
  <2>1. AdvTypeOK' /\ UNCHANGED <<now, pc, next, lastSent, asked>>
    BY <1>4 DEF advVars, schedule, RadnrInv, AdvTypeOK
  <2> QED BY <2>1, ControlKeeps
<1> QED BY <1>1, <1>2, <1>3, <1>4 DEF AdvNext

-----------------------------------------------------------------------------
(* RadnrInv holds in every reachable state.                                *)
THEOREM RadnrInvariant == AdvSpec => []RadnrInv
<1>1. RadnrInv /\ [AdvNext]_advVars => RadnrInv'
  BY AdvStepKeeps
<1> QED BY <1>1, AdvInitially, PTL DEF AdvSpec

(* MIN_DELAY_BETWEEN_RAS separates any two RAs of an advertiser, whatever  *)
(* its interval, however solicitations and late timers interleave.         *)
THEOREM RateLimitHolds == AdvSpec => RateLimited
<1>1. RadnrInv /\ [AdvNext]_advVars
      => [\A a \in Advertisers :
            Sends(a) /\ lastSent[a] # Never => now - lastSent[a] >= MinDelay]_advVars
  BY AdvStepKeeps DEF Spaced
<1> QED BY <1>1, RadnrInvariant, PTL DEF AdvSpec, RateLimited

(* MinRtrAdvInterval separates an unsolicited RA from the one before.      *)
THEOREM UnsolicitedSpacingHolds == AdvSpec => UnsolicitedSpacing
<1>1. RadnrInv /\ [AdvNext]_advVars
      => [\A a \in Advertisers :
            pc[a] = "loop" /\ Sends(a) /\ asked[a] = Never
               => lastSent'[a] - lastSent[a] >= Min({minInterval, Interval})]_advVars
  BY AdvStepKeeps DEF Spaced, Shortest
<1> QED BY <1>1, RadnrInvariant, PTL DEF AdvSpec, UnsolicitedSpacing

(* A solicitation is answered, and the periodic RA sent, within the bounds *)
(* of RFC 4861 and the loop's own lag.                                     *)
THEOREM AnsweredInTimeAlways == AdvSpec => []AnsweredInTime
<1>1. RadnrInv => AnsweredInTime
  <2> SUFFICES ASSUME RadnrInv, NEW a \in Advertisers, pc[a] = "loop"
               PROVE  /\ asked[a] # Never => now <= asked[a] + MinDelay + MaxRADelay + Lag
                      /\ now <= lastSent[a] + Longest + Lag
    BY DEF AnsweredInTime, Longest
  <2>1. /\ now \in Nat /\ Lag \in Nat /\ MinDelay \in Nat /\ MaxRADelay \in Nat
        /\ next[a] \in Int /\ lastSent[a] \in Int /\ asked[a] \in Int /\ Longest \in Nat
    BY RadnrAssumption, IntervalBounds DEF RadnrInv, AdvTypeOK
  <2> QED BY <2>1 DEF RadnrInv, ScheduleInv
<1> QED BY <1>1, RadnrInvariant, PTL

-----------------------------------------------------------------------------
(* Two sequences with the same elements in the same places are equal.      *)
LEMMA SameSequence ==
    ASSUME NEW S, NEW p \in Seq(S), NEW q \in Seq(S),
           Len(p) = Len(q), \A k \in 1..Len(p) : p[k] = q[k]
    PROVE  p = q
OBVIOUS

(* What is left of a name without its first label.                         *)
LEMMA TailElements ==
    ASSUME NEW S, NEW p \in Seq(S), p # <<>>
    PROVE  /\ Tail(p) \in Seq(S) /\ Len(Tail(p)) = Len(p) - 1
           /\ \A k \in 1..Len(Tail(p)) : Tail(p)[k] = p[k + 1]
OBVIOUS

(* The elements of a concatenation.                                        *)
LEMMA ConcatElements ==
    ASSUME NEW S, NEW p \in Seq(S), NEW q \in Seq(S)
    PROVE  /\ p \o q \in Seq(S) /\ Len(p \o q) = Len(p) + Len(q)
           /\ \A k \in 1..(Len(p) + Len(q)) :
                 (p \o q)[k] = IF k <= Len(p) THEN p[k] ELSE q[k - Len(p)]
OBVIOUS

-----------------------------------------------------------------------------
(***************************************************************************)
(* SniHandshake, for every set of certificates, configuration and server   *)
(* name.                                                                   *)
(***************************************************************************)

Labels == {Lower[l] : l \in DOMAIN Lower}

(* asciiLower goes label by label.                                         *)
LEMMA LowerName ==
    ASSUME NEW n \in Seq(DOMAIN Lower)
    PROVE  /\ asciiLower(n) \in Seq(Labels) /\ Len(asciiLower(n)) = Len(n)
           /\ DOMAIN asciiLower(n) = 1..Len(n)
           /\ \A k \in 1..Len(n) : asciiLower(n)[k] = Lower[n[k]] /\ n[k] \in DOMAIN Lower
BY DEF asciiLower, Labels

(* The name L of a certificate answers name, as the store looks it up.     *)
Looks(L, name) ==
    \/ name = L
    \/ /\ Len(L) > 1 /\ Len(name) = Len(L) /\ L[1] = "*" /\ name[1] # emptyLabel
       /\ Tail(name) = Tail(L)

(* A name the store keeps matches, as presented, what is looked up by it.  *)
LEMMA LookupMatches ==
    ASSUME NEW s \in Seq(DOMAIN Lower), s # <<>>, validPresentedName(s),
           NEW name \in Seq(Labels), Looks(asciiLower(s), name)
    PROVE  Matches(asciiLower(s), name)
<1> DEFINE L == asciiLower(s)
<1>1. /\ L \in Seq(Labels) /\ Len(L) = Len(s) /\ DOMAIN L = 1..Len(s)
      /\ \A k \in 1..Len(s) : L[k] = Lower[s[k]] /\ s[k] \in DOMAIN Lower
  BY Zenon, LowerName
<1>2. \A k \in 1..Len(s) : (L[k] \in Starred <=> s[k] \in Starred) /\ (L[k] = "*" <=> s[k] = "*")
  BY <1>1, NamesAssumption
<1>3. CASE \A k \in 1..Len(s) : s[k] \notin Starred
  <2>1. L[1] # "*"
    BY <1>1, <1>2, <1>3 DEF Starred
  <2> HIDE DEF L
  <2> QED BY <1>1, <1>2, <1>3, <2>1 DEF Looks, Matches, L
<1>4. CASE ~(\A k \in 1..Len(s) : s[k] \notin Starred)
  <2>1. /\ s[1] = "*" /\ Len(s) > 1
        /\ \A k \in 2..Len(s) : s[k] \notin Starred
    BY <1>4 DEF validPresentedName
  <2>2. L[1] = "*" /\ \A k \in 2..Len(s) : L[k] \notin Starred
    BY <1>2, <2>1
  <2> HIDE DEF L
  <2>3. CASE name = L
    <3>1. "*" # emptyLabel
      BY Zenon DEF emptyLabel
    <3> QED BY <1>1, <2>1, <2>2, <2>3, <3>1 DEF Matches, L
  <2>4. CASE name # L
    <3>1. /\ Len(L) > 1 /\ Len(name) = Len(L) /\ name[1] # emptyLabel /\ Tail(name) = Tail(L)
      BY <2>4 DEF Looks, L
    <3>2. ASSUME NEW k \in 2..Len(L) PROVE L[k] = name[k]
      <4>1. k - 1 \in 1..(Len(L) - 1) /\ (k - 1) + 1 = k
        BY <1>1
      <4>2. Tail(L)[k - 1] = L[k] /\ Tail(name)[k - 1] = name[k]
        <5>1. L # <<>> /\ name # <<>>
          BY <1>1, <3>1
        <5> QED BY <1>1, <3>1, <4>1, <5>1, TailElements
      <4> QED BY ZenonT(60), <3>1, <4>2
    <3> QED BY <1>1, <2>2, <3>1, <3>2 DEF Matches, L
  <2> QED BY <2>3, <2>4
<1> QED BY <1>3, <1>4

(* A name that matches what the client asked for is one the store keeps    *)
(* and finds.                                                              *)
LEMMA MatchesLookup ==
    ASSUME NEW s \in Seq(DOMAIN Lower), s # <<>>, NEW name \in Seq(Labels),
           Matches(asciiLower(s), name)
    PROVE  validPresentedName(s) /\ Looks(asciiLower(s), name)
<1> DEFINE L == asciiLower(s)
<1>1. /\ L \in Seq(Labels) /\ Len(L) = Len(s) /\ DOMAIN L = 1..Len(s) /\ DOMAIN s = 1..Len(s)
      /\ \A k \in 1..Len(s) : L[k] = Lower[s[k]] /\ s[k] \in DOMAIN Lower
  <2>1. DOMAIN s = 1..Len(s)
    OBVIOUS
  <2> QED BY Zenon, <2>1, LowerName
<1>2. \A k \in 1..Len(s) : (L[k] \in Starred <=> s[k] \in Starred) /\ (L[k] = "*" <=> s[k] = "*")
  BY <1>1, NamesAssumption
<1> HIDE DEF L
<1>3. CASE name = L /\ \A k \in DOMAIN L : L[k] \notin Starred
  BY <1>1, <1>2, <1>3 DEF validPresentedName, Looks, L
<1>4. CASE /\ Len(L) > 1 /\ Len(name) = Len(L) /\ L[1] = "*" /\ name[1] # emptyLabel
           /\ \A k \in 2..Len(L) : L[k] = name[k] /\ L[k] \notin Starred
  <2>1. {k \in DOMAIN s : s[k] \in Starred} = {1} /\ s[1] = "*" /\ Len(s) > 1
    <3>1. Len(s) \in Nat /\ Len(s) > 1 /\ 1 \in 1..Len(s)
      BY <1>1, <1>4
    <3>2. s[1] = "*" /\ s[1] \in Starred
      BY <1>2, <1>4, <3>1 DEF Starred
    <3>3. \A k \in 1..Len(s) : k # 1 => s[k] \notin Starred
      BY <1>1, <1>2, <1>4, <3>1
    <3> QED BY <1>1, <3>1, <3>2, <3>3
  <2>2. Tail(name) = Tail(L)
    <3>1. L # <<>> /\ name # <<>>
      BY <1>1, <1>4
    <3>2. /\ Tail(L) \in Seq(Labels) /\ Tail(name) \in Seq(Labels)
          /\ Len(Tail(L)) = Len(L) - 1 /\ Len(Tail(name)) = Len(name) - 1
          /\ \A i \in 1..Len(Tail(L)) : Tail(L)[i] = L[i + 1]
          /\ \A i \in 1..Len(Tail(name)) : Tail(name)[i] = name[i + 1]
      BY <1>1, <3>1, TailElements
    <3>3. ASSUME NEW i \in 1..Len(Tail(L)) PROVE Tail(L)[i] = Tail(name)[i]
      <4>1. i + 1 \in 2..Len(L) /\ i \in 1..Len(Tail(name))
        BY <1>1, <1>4, <3>2
      <4> QED BY <1>4, <3>2, <4>1
    <3> QED BY <1>4, <3>2, <3>3, SameSequence
  <2> QED BY <1>4, <2>1, <2>2 DEF validPresentedName, Looks, L
<1> QED BY <1>3, <1>4 DEF Matches, L

(* The least and the greatest of some of the pairs.                        *)
LEMMA PairExtremes ==
    ASSUME NEW S \in SUBSET (1..NPairs), S # {}
    PROVE  Min(S) \in S /\ Max(S) \in S
<1>1. \A T \in SUBSET Nat : T # {} => \E x \in T : \A y \in T : x <= y
  <2> SUFFICES ASSUME NEW T \in SUBSET Nat, T # {}
               PROVE  \E x \in T : \A y \in T : x <= y
    OBVIOUS
  <2> DEFINE less == OpToRel(<, Nat)
  <2>1. IsWellFoundedOn(less, Nat)
    BY Zenon, NatLessThanWellFounded
  <2>2. \A x, y \in Nat : <<y, x>> \in less <=> y < x
    BY DEF OpToRel
  <2> HIDE DEF less
  <2>3. PICK x \in T : \A y \in T : ~(<<y, x>> \in less)
    BY Zenon, <2>1, WFMin
  <2>4. ASSUME NEW y \in T PROVE x <= y
    <3>1. x \in Nat /\ y \in Nat
      BY <2>3
    <3>2. ~(y < x)
      BY Zenon, <2>2, <2>3, <3>1
    <3> QED BY <3>1, <3>2
  <2> QED BY <2>3, <2>4
<1>2. Min(S) \in S
  <2>1. \E x \in S : \A y \in S : x =< y
    BY <1>1
  <2> QED BY Zenon, <2>1 DEF Min
<1>3. Max(S) \in S
  <2> DEFINE T == {NPairs - x : x \in S}
  <2>1. T \in SUBSET Nat /\ T # {}
    <3>1. \A x \in 1..NPairs : NPairs - x \in Nat
      BY StoreAssumption
    <3>2. \A x \in S : NPairs - x \in Nat
      BY <3>1
    <3> QED BY Zenon, <3>2
  <2>2. PICK t \in T : \A y \in T : t <= y
    BY Zenon, <1>1, <2>1
  <2>3. PICK x \in S : t = NPairs - x
    BY <2>2
  <2>4. ASSUME NEW y \in S PROVE x >= y
    <3>1. NPairs - y \in T
      OBVIOUS
    <3>2. NPairs - x <= NPairs - y
      BY <2>2, <2>3, <3>1
    <3> HIDE DEF T
    <3> QED BY <3>2, StoreAssumption
  <2> QED BY Zenon, <2>4 DEF Max
<1> QED BY <1>2, <1>3

(* A set of files a store is built from: a missing half excludes the pair, *)
(* so the certificates read are ones that were issued.                     *)
Readable(c, d) == c \in storeConfig /\ d \in Disk(c) /\ loadable(c, d)

(* What buildCertStore reads of a pair is a certificate that was issued.   *)
LEMMA PresentCert ==
    ASSUME NEW c, NEW d, Readable(c, d), NEW i \in Present(d)
    PROVE  i \in 1..NPairs /\ d[i].cert \in 1..MaxVersion
<1>1. i \in 1..NPairs /\ ~isMissing(d[i])
  BY DEF Present
<1>2. i \in files(c)
  BY <1>1, StoreAssumption DEF files, fileCount, noSNIPair
<1>3. d[i].cert \in Content
  BY <1>2 DEF Readable, Disk
<1> QED BY <1>1, <1>3, StoreAssumption DEF isMissing, Content

(* What the store keeps of a certificate: a name, lower-cased, that had at *)
(* least one label, and more than an asterisk.                             *)
LEMMA KeptName ==
    ASSUME NEW i \in 1..NPairs, NEW n \in 1..MaxVersion, NEW L \in names(i, n)
    PROVE  /\ \E s \in SANs[i][n] : validPresentedName(s) /\ L = asciiLower(s)
           /\ L \in Seq(Labels) /\ L # <<>>
           /\ L[1] = "*" => Len(L) > 1
<1>1. PICK s \in SANs[i][n] : validPresentedName(s) /\ L = asciiLower(s)
  BY DEF names
<1>2. s \in Seq(DOMAIN Lower) /\ s # <<>>
  BY NamesAssumption
<1>3. /\ L \in Seq(Labels) /\ Len(L) = Len(s) /\ Len(s) \in Nat /\ Len(s) # 0
      /\ \A k \in 1..Len(s) : L[k] = Lower[s[k]]
  BY <1>1, <1>2, LowerName
<1>4. L # <<>>
  BY <1>3
<1>5. L[1] = "*" => Len(L) > 1
  <2> SUFFICES ASSUME L[1] = "*" PROVE Len(L) > 1
    OBVIOUS
  <2>1. 1 \in 1..Len(s) /\ s[1] \in DOMAIN Lower /\ 1 \in DOMAIN s
    BY <1>2, <1>3
  <2>2. s[1] = "*"
    BY <1>3, <2>1, NamesAssumption
  <2>3. 1 \in {k \in DOMAIN s : s[k] \in Starred}
    BY <2>1, <2>2 DEF Starred
  <2> QED BY <1>1, <1>3, <2>3 DEF validPresentedName
<1> QED BY <1>1, <1>3, <1>4, <1>5

(* What byName answers with is a certificate that has the name.            *)
LEMMA ByNameHolds ==
    ASSUME NEW d, NEW s \in DOMAIN byName(d)
    PROVE  \E i \in Present(d) : /\ byName(d)[s] = <<i, d[i].cert>>
                                 /\ s \in names(i, d[i].cert)
<1> DEFINE S == {j \in Present(d) : s \in names(j, d[j].cert)}
<1>1. s \in UNION {names(i, d[i].cert) : i \in Present(d)}
  BY DEF byName
<1>2. S # {} /\ S \in SUBSET (1..NPairs)
  BY <1>1 DEF Present
<1>3. byName(d)[s] = <<Max(S), d[Max(S)].cert>>
  BY <1>1 DEF byName
<1>4. Max(S) \in S
  BY <1>2, PairExtremes
<1> QED BY Zenon, <1>3, <1>4

(* What bySuffix answers with is a certificate that has the wildcard.      *)
LEMMA BySuffixHolds ==
    ASSUME NEW c, NEW d, Readable(c, d), NEW t \in DOMAIN bySuffix(d)
    PROVE  \E i \in Present(d) :
              /\ bySuffix(d)[t] = <<i, d[i].cert>>
              /\ \E L \in names(i, d[i].cert) : L[1] = "*" /\ t = Tail(L)
<1>1. PICK s \in DOMAIN byName(d) : s[1] = "*" /\ t = Tail(s)
  BY DEF bySuffix
<1>2. PICK i \in Present(d) : byName(d)[s] = <<i, d[i].cert>> /\ s \in names(i, d[i].cert)
  BY ByNameHolds
<1>3. i \in 1..NPairs /\ d[i].cert \in 1..MaxVersion
  BY PresentCert
<1>4. s \in Seq(Labels) /\ s # <<>>
  BY <1>2, <1>3, KeptName
<1>5. <<"*">> \o t = s
  <2>1. /\ t \in Seq(Labels) /\ Len(t) = Len(s) - 1
        /\ \A k \in 1..Len(t) : t[k] = s[k + 1]
    BY <1>1, <1>4, TailElements
  <2>2. Len(s) \in Nat /\ Len(s) # 0
    BY <1>4
  <2>3. "*" \in Labels
    BY <1>1, <1>4, <2>2
  <2>4. <<"*">> \in Seq(Labels) /\ Len(<<"*">>) = 1 /\ <<"*">>[1] = "*"
    BY <2>3
  <2> DEFINE w == <<"*">> \o t
  <2>5. /\ w \in Seq(Labels) /\ Len(w) = 1 + Len(t)
        /\ \A k \in 1..(1 + Len(t)) : w[k] = IF k <= 1 THEN <<"*">>[k] ELSE t[k - 1]
    BY <2>1, <2>4, ConcatElements
  <2> HIDE DEF w
  <2>6. ASSUME NEW k \in 1..Len(w) PROVE w[k] = s[k]
    <3>1. CASE k = 1
      BY <1>1, <2>1, <2>2, <2>4, <2>5, <3>1
    <3>2. CASE k # 1
      <4>1. k - 1 \in 1..Len(t) /\ (k - 1) + 1 = k /\ ~(k <= 1) /\ k \in 1..(1 + Len(t))
        BY <2>1, <2>2, <2>5, <3>2
      <4> QED BY <2>1, <2>5, <4>1
    <3> QED BY <3>1, <3>2
  <2>7. Len(w) = Len(s)
    BY <2>1, <2>2, <2>5
  <2>8. w = s
    BY <1>4, <2>5, <2>6, <2>7, SameSequence
  <2> QED BY <2>8 DEF w
<1>6. bySuffix(d)[t] = byName(d)[s]
  BY Zenon, <1>5 DEF bySuffix
<1> QED BY <1>1, <1>2, <1>6

LoadedFrom(d) == {<<i, d[i].cert>> : i \in Present(d)}

(* The server finds name among the names or the wildcards of its store.    *)
Found(d, name) ==
    name \in DOMAIN byName(d)
        \/ (Len(name) > 1 /\ name[1] # emptyLabel /\ Tail(name) \in DOMAIN bySuffix(d))
Lookup(d, name) ==
    IF name \in DOMAIN byName(d) THEN byName(d)[name] ELSE bySuffix(d)[Tail(name)]

(* A certificate that has a name answering the client's covers that name.  *)
LEMMA NameCovers ==
    ASSUME NEW c, NEW d, Readable(c, d), NEW i \in Present(d), NEW sni \in SNIs,
           NEW L \in names(i, d[i].cert), Looks(L, asciiLower(sni))
    PROVE  Covers(<<i, d[i].cert>>, sni)
<1>1. i \in 1..NPairs /\ d[i].cert \in 1..MaxVersion
  BY PresentCert
<1>2. PICK s \in SANs[i][d[i].cert] : validPresentedName(s) /\ L = asciiLower(s)
  BY <1>1, KeptName
<1>3. s \in Seq(DOMAIN Lower) /\ s # <<>> /\ asciiLower(sni) \in Seq(Labels)
  BY <1>1, NamesAssumption, LowerName
<1>4. Matches(asciiLower(s), asciiLower(sni))
  BY <1>2, <1>3, LookupMatches
<1> QED BY <1>4 DEF Covers

(* What is found covers the client's name.                                 *)
LEMMA FoundCovers ==
    ASSUME NEW c, NEW d, Readable(c, d), NEW sni \in SNIs, Found(d, asciiLower(sni))
    PROVE  Lookup(d, asciiLower(sni)) \in LoadedFrom(d) /\ Covers(Lookup(d, asciiLower(sni)), sni)
<1> DEFINE name == asciiLower(sni)
<1>0. name \in Seq(Labels)
  BY NamesAssumption, LowerName
<1> HIDE DEF name
<1>1. CASE name \in DOMAIN byName(d)
  <2>1. PICK i \in Present(d) : byName(d)[name] = <<i, d[i].cert>> /\ name \in names(i, d[i].cert)
    BY <1>1, ByNameHolds
  <2>2. Covers(<<i, d[i].cert>>, sni)
    BY <2>1, NameCovers DEF Looks, name
  <2> QED BY <1>1, <2>1, <2>2 DEF Lookup, LoadedFrom, name
<1>2. CASE name \notin DOMAIN byName(d)
  <2>0. Len(name) > 1 /\ name[1] # emptyLabel /\ Tail(name) \in DOMAIN bySuffix(d)
    BY <1>2 DEF Found, name
  <2>1. PICK i \in Present(d) : /\ bySuffix(d)[Tail(name)] = <<i, d[i].cert>>
                               /\ \E L \in names(i, d[i].cert) : L[1] = "*" /\ Tail(name) = Tail(L)
    <3> DEFINE t == Tail(name)
    <3>1. t \in DOMAIN bySuffix(d)
      BY <2>0
    <3> HIDE DEF t
    <3>2. \E i \in Present(d) : /\ bySuffix(d)[t] = <<i, d[i].cert>>
                               /\ \E L \in names(i, d[i].cert) : L[1] = "*" /\ t = Tail(L)
      BY <3>1, BySuffixHolds
    <3> QED BY <3>2 DEF t
  <2>2. PICK L \in names(i, d[i].cert) : L[1] = "*" /\ Tail(name) = Tail(L)
    BY <2>1
  <2>3. i \in 1..NPairs /\ d[i].cert \in 1..MaxVersion
    BY PresentCert
  <2>4. L \in Seq(Labels) /\ L # <<>> /\ Len(L) > 1
    BY <2>2, <2>3, KeptName
  <2>5. Len(name) = Len(L)
    <3>1. name # <<>>
      BY <1>0, <2>0
    <3>2. Len(Tail(name)) = Len(name) - 1 /\ Len(Tail(L)) = Len(L) - 1
      BY <1>0, <2>4, <3>1, TailElements
    <3>3. Len(name) - 1 = Len(L) - 1
      BY <2>2, <3>2
    <3> QED BY <1>0, <2>4, <3>3
  <2>6. Looks(L, name)
    BY <2>0, <2>2, <2>4, <2>5 DEF Looks
  <2>7. Covers(<<i, d[i].cert>>, sni)
    BY <2>6, NameCovers DEF name
  <2> QED BY ZenonT(60), <1>2, <2>1, <2>7 DEF Lookup, LoadedFrom, name
<1> QED BY <1>1, <1>2

(* A name that a loaded certificate covers is found.                       *)
LEMMA CoveredFound ==
    ASSUME NEW c, NEW d, Readable(c, d), NEW sni \in SNIs,
           NEW crt \in LoadedFrom(d), Covers(crt, sni)
    PROVE  Found(d, asciiLower(sni))
<1> DEFINE name == asciiLower(sni)
<1>0. name \in Seq(Labels)
  BY NamesAssumption, LowerName
<1> HIDE DEF name
<1>1. PICK i \in Present(d) : crt = <<i, d[i].cert>>
  BY DEF LoadedFrom
<1>2. i \in 1..NPairs /\ d[i].cert \in 1..MaxVersion
  BY PresentCert
<1>3. PICK s \in SANs[i][d[i].cert] : Matches(asciiLower(s), name)
  BY <1>1 DEF Covers, name
<1>4. s \in Seq(DOMAIN Lower) /\ s # <<>>
  BY <1>2, NamesAssumption
<1>5. validPresentedName(s) /\ Looks(asciiLower(s), name)
  BY <1>0, <1>3, <1>4, MatchesLookup
<1> DEFINE L == asciiLower(s)
<1>6. L \in names(i, d[i].cert)
  BY <1>5 DEF names
<1> HIDE DEF L
<1>7. L \in DOMAIN byName(d)
  BY <1>6 DEF byName
<1>8. CASE name = L
  BY <1>7, <1>8 DEF Found, name
<1>9. CASE name # L
  <2>1. Len(L) > 1 /\ Len(name) = Len(L) /\ L[1] = "*" /\ name[1] # emptyLabel /\ Tail(name) = Tail(L)
    BY <1>5, <1>9 DEF Looks, L
  <2>2. Tail(L) \in DOMAIN bySuffix(d)
    BY <1>7, <2>1 DEF bySuffix
  <2> QED BY Zenon, <2>1, <2>2 DEF Found, name
<1> QED BY <1>8, <1>9

(* The files a handshake is answered from built a store, and the answer is *)
(* the one GetCertificate gave to the ClientHello.                         *)
SniInv ==
    /\ Readable(cfg, onDisk)
    /\ Answered => /\ hello.sni \in SNIs /\ hello.quic \in BOOLEAN
                   /\ answer = GetCertificate(buildCertStore(cfg, onDisk), hello.sni, hello.quic)

(* A handshake reads the store and changes nothing of it.                  *)
THEOREM HandshakeInvariant == SniSpec => []SniInv
<1>1. SniInit => SniInv
  BY DEF SniInit, SniInv, Readable, Answered
<1>2. SniInv /\ [SniNext]_sniVars => SniInv'
  <2> SUFFICES ASSUME SniInv, [SniNext]_sniVars PROVE SniInv'
    OBVIOUS
  <2>1. CASE SniNext
    <3>1. PICK sni \in SNIs, quic \in BOOLEAN : Handshake(sni, quic)
      BY <2>1 DEF SniNext
    <3>2. hello'.sni = sni /\ hello'.quic = quic /\ cfg' = cfg /\ onDisk' = onDisk
      BY <3>1 DEF Handshake
    <3>3. answer' = GetCertificate(buildCertStore(cfg, onDisk), sni, quic)
      BY <3>1 DEF Handshake
    <3> QED BY <3>2, <3>3 DEF SniInv, Answered
  <2>2. CASE UNCHANGED sniVars
    BY <2>2 DEF sniVars, SniInv, Answered
  <2> QED BY <2>1, <2>2
<1> QED BY <1>1, <1>2, PTL DEF SniSpec

(* What GetCertificate answers, over the lookup.                           *)
LEMMA AnswerByName ==
    ASSUME NEW c, NEW d, NEW sni, NEW quic, sni # <<>>
    PROVE  GetCertificate(buildCertStore(c, d), sni, quic) =
             IF Found(d, asciiLower(sni)) THEN Lookup(d, asciiLower(sni))
             ELSE IF c.strict THEN unrecognizedName
             ELSE <<Min(Present(d)), d[Min(Present(d))].cert>>
BY Zenon DEF GetCertificate, buildCertStore, wildcardFor, unmatched, Found, Lookup

(* Pairs count from one, so an alert is no certificate.                    *)
LEMMA AlertIsNoCert ==
    ASSUME NEW c, NEW d, Readable(c, d)
    PROVE  unrecognizedName \notin LoadedFrom(d) /\ alertMissingExtension \notin LoadedFrom(d)
<1>1. \A i \in Present(d) : i # 0
  BY PresentCert
<1> QED BY <1>1 DEF LoadedFrom, unrecognizedName, alertMissingExtension

(* The fallback is the first pair that was there.                          *)
LEMMA FallbackIsLoaded ==
    ASSUME NEW c, NEW d, Readable(c, d)
    PROVE  <<Min(Present(d)), d[Min(Present(d))].cert>> \in LoadedFrom(d)
<1>1. Present(d) # {} /\ Present(d) \in SUBSET (1..NPairs)
  BY DEF Readable, loadable, Present
<1>2. Min(Present(d)) \in Present(d)
  BY <1>1, PairExtremes
<1> QED BY <1>2 DEF LoadedFrom

(* A client without SNI gets what the no_sni policy says.                  *)
LEMMA AnswerWithoutSNI ==
    ASSUME NEW c, NEW d, Readable(c, d), NEW quic \in BOOLEAN,
           NEW a, a = GetCertificate(buildCertStore(c, d), <<>>, quic)
    PROVE  /\ c.strict /\ a \in LoadedFrom(d) => c.noSNI = "fallback"
           /\ c.noSNI = "cert" /\ isCert(a) => a[1] = noSNIPair
           /\ a = alertMissingExtension => quic
<1> DEFINE first == <<Min(Present(d)), d[Min(Present(d))].cert>>
           refusal == refuseNoSNI(quic)
<1>1. /\ refusal \notin LoadedFrom(d) /\ ~isCert(refusal)
      /\ refusal = alertMissingExtension => quic
  <2>1. refusal = alertMissingExtension \/ refusal = unrecognizedName
    BY DEF refuseNoSNI
  <2>2. ~isCert(alertMissingExtension) /\ ~isCert(unrecognizedName)
    BY DEF isCert, alertMissingExtension, unrecognizedName
  <2>3. alertMissingExtension # unrecognizedName
    BY DEF alertMissingExtension, unrecognizedName
  <2>4. refusal = alertMissingExtension => quic
    BY <2>3 DEF refuseNoSNI
  <2> HIDE DEF refusal
  <2> QED BY <2>1, <2>2, <2>4, AlertIsNoCert
<1>2. first # alertMissingExtension
  BY FallbackIsLoaded, AlertIsNoCert
<1>3. c.noSNI \in {"asUnmatched", "refuse", "fallback", "cert"} /\ c.strict \in BOOLEAN
  BY DEF Readable, storeConfig
<1>4. a = withoutSNI(buildCertStore(c, d), quic)
  BY DEF GetCertificate
<1>5. CASE c.noSNI = "refuse"
  <2>1. a = refusal
    BY <1>4, <1>5 DEF withoutSNI, buildCertStore
  <2> HIDE DEF refusal
  <2> QED BY <1>1, <1>5, <2>1
<1>6. CASE c.noSNI = "fallback"
  <2>1. a = first
    BY <1>4, <1>6 DEF withoutSNI, buildCertStore
  <2> HIDE DEF first
  <2> QED BY <1>2, <1>6, <2>1
<1>7. CASE c.noSNI = "cert"
  <2> DEFINE own == <<noSNIPair, d[noSNIPair].cert>>
  <2>1. a = refusal \/ a = own
    BY <1>4, <1>7 DEF withoutSNI, buildCertStore, loadNoSNI
  <2>2. own \notin LoadedFrom(d) /\ own[1] = noSNIPair /\ own # alertMissingExtension
    <3>1. noSNIPair \notin Present(d) /\ noSNIPair # 0
      BY StoreAssumption DEF noSNIPair, Present
    <3> QED BY <3>1 DEF LoadedFrom, alertMissingExtension
  <2> HIDE DEF refusal, own
  <2> QED BY <1>1, <2>1, <2>2
<1>8. CASE c.noSNI = "asUnmatched"
  <2>1. c.strict => a = refusal
    BY <1>4, <1>8 DEF withoutSNI, buildCertStore
  <2>2. ~c.strict => a = first
    BY <1>4, <1>8 DEF withoutSNI, buildCertStore, unmatched
  <2> HIDE DEF refusal, first
  <2> QED BY <1>1, <1>2, <1>3, <1>8, <2>1, <2>2
<1> QED BY <1>3, <1>5, <1>6, <1>7, <1>8

(* For every set of certificates, order of pairs and set of missing files, *)
(* a client that names a host a loaded certificate covers is answered with *)
(* a certificate that covers it.                                           *)
THEOREM CoveredAlwaysServed == SniSpec => []CoveredNameIsServed
<1>1. SniInv => CoveredNameIsServed
  <2> SUFFICES ASSUME SniInv, Answered, hello.sni # <<>>,
                      NEW crt \in Loaded, Covers(crt, hello.sni)
               PROVE  answer \in Loaded /\ Covers(answer, hello.sni)
    BY DEF CoveredNameIsServed
  <2>1. Readable(cfg, onDisk) /\ hello.sni \in SNIs /\ Loaded = LoadedFrom(onDisk)
    BY DEF SniInv, Loaded, LoadedFrom
  <2>2. Found(onDisk, asciiLower(hello.sni))
    BY <2>1, CoveredFound
  <2>3. answer = Lookup(onDisk, asciiLower(hello.sni))
    BY <2>2, AnswerByName DEF SniInv
  <2> QED BY <2>1, <2>2, <2>3, FoundCovers
<1> QED BY <1>1, HandshakeInvariant, PTL

(* Strict mode never answers with a certificate that does not cover the    *)
(* client's name, and the no_sni policy alone answers clients without one. *)
THEOREM StrictNeverEverGuesses == SniSpec => []StrictNeverGuesses
<1>1. SniInv => StrictNeverGuesses
  <2> SUFFICES ASSUME SniInv, Answered
               PROVE  /\ cfg.strict /\ answer \in Loaded =>
                           IF hello.sni = <<>> THEN cfg.noSNI = "fallback" ELSE Covers(answer, hello.sni)
                      /\ hello.sni = <<>> /\ cfg.noSNI = "cert" /\ isCert(answer) => answer[1] = noSNIPair
                      /\ answer = alertMissingExtension => hello.quic
    BY DEF StrictNeverGuesses
  <2>1. Readable(cfg, onDisk) /\ hello.sni \in SNIs /\ Loaded = LoadedFrom(onDisk)
        /\ cfg.strict \in BOOLEAN /\ hello.quic \in BOOLEAN
    BY DEF SniInv, Loaded, LoadedFrom, Readable, storeConfig
  <2>2. CASE hello.sni = <<>>
    <3>1. answer = GetCertificate(buildCertStore(cfg, onDisk), <<>>, hello.quic)
      BY <2>2 DEF SniInv
    <3> QED BY <2>1, <2>2, <3>1, AnswerWithoutSNI
  <2>3. CASE hello.sni # <<>>
    <3>1. CASE Found(onDisk, asciiLower(hello.sni))
      <4>1. answer = Lookup(onDisk, asciiLower(hello.sni))
        BY Zenon, <2>3, <3>1, AnswerByName DEF SniInv
      <4>2. answer \in Loaded /\ Covers(answer, hello.sni)
        BY <2>1, <3>1, <4>1, FoundCovers
      <4>3. answer # alertMissingExtension
        BY <2>1, <4>2, AlertIsNoCert
      <4> QED BY <2>3, <4>2, <4>3
    <3>2. CASE ~Found(onDisk, asciiLower(hello.sni))
      <4> DEFINE first == <<Min(Present(onDisk)), onDisk[Min(Present(onDisk))].cert>>
      <4>1. answer = IF cfg.strict THEN unrecognizedName ELSE first
        BY Zenon, <2>3, <3>2, AnswerByName DEF SniInv
      <4>2. first # alertMissingExtension
        BY <2>1, FallbackIsLoaded, AlertIsNoCert
      <4>3. unrecognizedName # alertMissingExtension
        BY DEF unrecognizedName, alertMissingExtension
      <4>4. unrecognizedName \notin Loaded
        BY <2>1, AlertIsNoCert
      <4> HIDE DEF first
      <4> QED BY <2>1, <2>3, <4>1, <4>2, <4>3, <4>4
    <3> QED BY <3>1, <3>2
  <2> QED BY <2>2, <2>3
<1> QED BY <1>1, HandshakeInvariant, PTL

=============================================================================
