---------------------------- MODULE ProbeValkey ----------------------------
(***************************************************************************)
(* probe's shared store (valkey.go): handlers of several replicas writing  *)
(* one token's keys in Valkey.  Valkey (external) executes one command at  *)
(* a time; a handler's commands are separate steps, so other replicas'     *)
(* commands and the keys' expiry fall in between.                          *)
(*                                                                         *)
(* INCR is sent by itself and its reply awaited; the other commands of a   *)
(* call are one pipeline.  A call that runs into its timeout, or whose     *)
(* connection breaks, returns an error; what it sent may be executed all   *)
(* the same, and an INCR that was executed may go unanswered.              *)
(*                                                                         *)
(* The three keys are the counter, the list of observations (each          *)
(* represented by its Seen) and the list of reports (by their number).     *)
(***************************************************************************)
EXTENDS Naturals, Sequences, FiniteSets

CONSTANTS
    Handlers,     \* goroutines of the replicas, each serving one query
    Reporters,    \* goroutines serving one error report
    token,        \* whose keys these are ("": the unattributed reports')
    ttl,          \* s.ttl, in ticks of the clock
    Second,       \* ticks of the clock in a second
    maxPerToken,  \* s.maxPerToken, the cap on both lists
    maxUnattributedReports,
    Failures,     \* whether a command can fail or time out
    MaxTime       \* bound on the clock

ASSUME ValkeyAssumption ==
    /\ Handlers \cap Reporters = {}
    /\ ttl \in Nat \ {0} /\ Second \in Nat \ {0}
    /\ maxPerToken \in Nat \ {0} /\ maxUnattributedReports \in Nat \ {0}
    /\ Failures \in BOOLEAN /\ MaxTime \in Nat

(* int64(s.ttl.Seconds()): the whole seconds of the ttl, possibly none.    *)
lifetime == (ttl \div Second) * Second

limit == IF token = "" THEN maxUnattributedReports ELSE maxPerToken

NoExpiry == MaxTime + lifetime + 1  \* a key that has no expiry set
Absent == 0

VARIABLES
    now,
    counter, counterTill,  \* probe:seen:<token> (0: no such key), its expiry
    obs, obsTill,          \* probe:obs:<token> (<<>>: no such key), its expiry
    reports, reportsTill,  \* probe:reports:<token>, its expiry
    pc,                    \* per call: the command that Valkey executes next
    answer, Seen,          \* per handler: INCR's reply, and obs.Seen
    erred,                 \* the calls that returned an error
    life, countedIn,       \* history: how often the counter has expired, and
                           \* that number when each handler was counted
    pushed                 \* history: the reports pushed since the list was made

history == <<life, countedIn, pushed>>
keys == <<counter, counterTill, obs, obsTill, reports, reportsTill>>
calls == <<answer, Seen, erred>>
vars == <<now, keys, pc, calls, history>>

Init ==
    /\ now = 0
    /\ counter = Absent /\ counterTill = NoExpiry
    /\ obs = <<>> /\ obsTill = NoExpiry
    /\ reports = <<>> /\ reportsTill = NoExpiry
    /\ pc = [h \in Handlers \cup Reporters |->
                IF h \in Handlers THEN "incr" ELSE "rpush"]
    /\ answer = [h \in Handlers |-> 0]
    /\ Seen = [h \in Handlers |-> 0]
    /\ erred = {}
    /\ life = 0
    /\ countedIn = [h \in Handlers |-> 0]
    /\ pushed = <<>>

goto(h, label) == pc' = [pc EXCEPT ![h] = label]

-----------------------------------------------------------------------------
(* Keys that end, by their expiry or by EXPIRE key 0.                      *)

counterEnds == counter' = Absent /\ counterTill' = NoExpiry /\ life' = life + 1
obsEnds == obs' = <<>> /\ obsTill' = NoExpiry
reportsEnd == reports' = <<>> /\ reportsTill' = NoExpiry /\ pushed' = <<>>

(* What EXPIRE makes of a key: nothing if it is gone.                      *)
expiry(till, present) == IF present THEN now + lifetime ELSE till

-----------------------------------------------------------------------------
(* Record *)

(* The command after h's next one in its pipeline.                         *)
following(h) ==
    CASE pc[h] = "expireSeen" -> IF Seen[h] <= maxPerToken THEN "rpushObs" ELSE "done"
      [] pc[h] = "rpushObs"   -> "expireObs"
      [] pc[h] = "rpush"      -> "ltrim"
      [] pc[h] = "ltrim"      -> "expireReports"
      [] OTHER                -> "done"

(* INCR is executed; its reply is for nobody if the call has given up.     *)
Incr(h) ==
    /\ pc[h] = "incr"
    /\ counter' = counter + 1
    /\ countedIn' = [countedIn EXCEPT ![h] = life]
    /\ answer' = [answer EXCEPT ![h] = counter + 1]
    /\ goto(h, IF h \in erred THEN "cut" ELSE "answered")
    /\ UNCHANGED <<now, counterTill, obs, obsTill, reports, reportsTill, Seen, erred,
                   life, pushed>>

(* Mutant of Reply: Seen is what the counter is by now.                    *)
ReplyReadsCounter(h) ==
    /\ pc[h] = "answered"
    /\ Seen' = [Seen EXCEPT ![h] = counter]
    /\ goto(h, "expireSeen")
    /\ UNCHANGED <<now, keys, answer, erred, history>>

(* The reply to INCR arrives.                                              *)
Reply(h) ==
    /\ pc[h] = "answered"
    /\ Seen' = [Seen EXCEPT ![h] = answer[h]]
    /\ goto(h, "expireSeen")
    /\ UNCHANGED <<now, keys, answer, erred, history>>

ExpireSeen(h) ==
    /\ pc[h] = "expireSeen"
    /\ IF lifetime = 0 THEN counterEnds
       ELSE /\ counterTill' = expiry(counterTill, counter # Absent)
            /\ UNCHANGED <<counter, life>>
    /\ goto(h, following(h))
    /\ UNCHANGED <<now, obs, obsTill, reports, reportsTill, calls, countedIn, pushed>>

(* Mutant of RpushObs: the list is given no expiry.                        *)
RpushObsOnly(h) ==
    /\ pc[h] = "rpushObs"
    /\ obs' = Append(obs, Seen[h])
    /\ goto(h, "done")
    /\ UNCHANGED <<now, counter, counterTill, obsTill, reports, reportsTill, calls,
                   history>>

RpushObs(h) ==
    /\ pc[h] = "rpushObs"
    /\ obs' = Append(obs, Seen[h])
    /\ goto(h, following(h))
    /\ UNCHANGED <<now, counter, counterTill, obsTill, reports, reportsTill, calls,
                   history>>

ExpireObs(h) ==
    /\ pc[h] = "expireObs"
    /\ IF lifetime = 0 THEN obsEnds
       ELSE obsTill' = expiry(obsTill, obs # <<>>) /\ UNCHANGED obs
    /\ goto(h, following(h))
    /\ UNCHANGED <<now, counter, counterTill, reports, reportsTill, calls, history>>

Record(h) == Incr(h) \/ Reply(h) \/ ExpireSeen(h) \/ RpushObs(h) \/ ExpireObs(h)

-----------------------------------------------------------------------------
(* RecordReport *)

Rpush(h) ==
    /\ pc[h] = "rpush"
    /\ reports' = Append(reports, Len(pushed) + 1)
    /\ pushed' = Append(pushed, Len(pushed) + 1)
    /\ goto(h, following(h))
    /\ UNCHANGED <<now, counter, counterTill, obs, obsTill, reportsTill, calls, life,
                   countedIn>>

lastN(s, n) == IF Len(s) <= n THEN s ELSE SubSeq(s, Len(s) - n + 1, Len(s))

(* Mutant of Ltrim: it keeps the wrong end of the list.                    *)
LtrimOldest(h) ==
    /\ pc[h] = "ltrim"
    /\ reports' = SubSeq(reports, 1, IF Len(reports) < limit THEN Len(reports) ELSE limit)
    /\ goto(h, following(h))
    /\ UNCHANGED <<now, counter, counterTill, obs, obsTill, reportsTill, calls, history>>

Ltrim(h) ==
    /\ pc[h] = "ltrim"
    /\ reports' = lastN(reports, limit)
    /\ goto(h, following(h))
    /\ UNCHANGED <<now, counter, counterTill, obs, obsTill, reportsTill, calls, history>>

ExpireReports(h) ==
    /\ pc[h] = "expireReports"
    /\ IF lifetime = 0 THEN reportsEnd
       ELSE /\ reportsTill' = expiry(reportsTill, reports # <<>>)
            /\ UNCHANGED <<reports, pushed>>
    /\ goto(h, following(h))
    /\ UNCHANGED <<now, counter, counterTill, obs, obsTill, calls, life, countedIn>>

RecordReport(h) == Rpush(h) \/ Ltrim(h) \/ ExpireReports(h)

-----------------------------------------------------------------------------
(* Failures *)

(* A call times out or loses its connection: it returns an error.  What it *)
(* has sent is executed later, or never.                                   *)
Fail(h) ==
    /\ Failures
    /\ h \notin erred /\ pc[h] \notin {"done", "cut"}
    /\ erred' = erred \cup {h}
    /\ \/ pc[h] # "answered" /\ UNCHANGED pc
       \/ goto(h, "cut")
    /\ UNCHANGED <<now, keys, answer, Seen, history>>

(* Valkey answers a command of a pipeline with an error: the call returns  *)
(* it, and Valkey goes on with the next command.                           *)
Refuse(h) ==
    /\ Failures
    /\ pc[h] \notin {"incr", "answered", "done", "cut"}
    /\ erred' = erred \cup {h}
    /\ goto(h, following(h))
    /\ UNCHANGED <<now, keys, answer, Seen, history>>

(* Time passes, and the keys whose time has come are gone.                 *)
TimePasses ==
    /\ now < MaxTime
    /\ now' = now + 1
    /\ LET gone(till) == till # NoExpiry /\ till <= now + 1
       IN  /\ IF gone(counterTill) THEN counterEnds
              ELSE UNCHANGED <<counter, counterTill, life>>
           /\ IF gone(obsTill) THEN obsEnds ELSE UNCHANGED <<obs, obsTill>>
           /\ IF gone(reportsTill) THEN reportsEnd
              ELSE UNCHANGED <<reports, reportsTill, pushed>>
    /\ UNCHANGED <<pc, calls, countedIn>>

Next ==
    \/ \E h \in Handlers : Record(h)
    \/ \E h \in Reporters : RecordReport(h)
    \/ \E h \in Handlers \cup Reporters : Fail(h) \/ Refuse(h)
    \/ TimePasses

Spec == Init /\ [][Next]_vars

-----------------------------------------------------------------------------
(* Properties *)

(* Type invariant: no list is longer than the number of calls.             *)
TypeOK ==
    /\ now \in 0..MaxTime
    /\ counter \in 0..Cardinality(Handlers)
    /\ {counterTill, obsTill, reportsTill} \subseteq 0..NoExpiry
    /\ Len(obs) <= Cardinality(Handlers)
    /\ Len(reports) <= Cardinality(Reporters)

quiet(S) == \A h \in S : pc[h] \in {"incr", "rpush", "done", "cut"}
succeeded(S) == S \cap erred = {}

(* The count is right over all replicas.  Of the queries that one life of  *)
(* the counter counted, no two are told the same number, none a number     *)
(* that is not theirs to have, and a query that is told none has failed or *)
(* has its reply on the way; when all are told, they are told 1, 2, 3 and  *)
(* so on.  The counter is the number of them, those with a lost reply      *)
(* included.                                                               *)
SeenIsExact ==
    \A l \in 0..life :
        LET counted == {h \in Handlers : answer[h] # 0 /\ countedIn[h] = l}
            told == {h \in counted : Seen[h] # 0}
            n == Cardinality(counted)
        IN  /\ \A g, h \in told : Seen[g] = Seen[h] => g = h
            /\ {Seen[h] : h \in told} \subseteq 1..n
            /\ \A h \in counted \ told : h \in erred \/ pc[h] = "answered"
            /\ told = counted => {Seen[h] : h \in told} = 1..n
            /\ l = life => counter = n

(* RecordReport's comment: the cap holds when several replicas take reports*)
(* at once, as soon as none of them is half-way and none has failed,       *)
(* and it is the newest reports that are kept.  Whatever fails half-way, a *)
(* report is only ever dropped for newer ones.                             *)
NewestReportsKept ==
    /\ reports = lastN(pushed, Len(reports))
    /\ quiet(Reporters) /\ succeeded(Reporters)
        => reports = lastN(pushed, limit)

(* Nothing that was stored stays for ever: once no call is half-way, every *)
(* key has an expiry, unless one of the calls that write it has failed.    *)
KeysExpire ==
    /\ quiet(Handlers) /\ succeeded(Handlers) =>
          /\ counter # Absent => counterTill # NoExpiry
          /\ obs # <<>> => obsTill # NoExpiry
    /\ quiet(Reporters) /\ succeeded(Reporters) /\ reports # <<>>
          => reportsTill # NoExpiry

(* ttl's comment: the expiry is applied to both keys on every write.       *)
KeysAlwaysExpire ==
    quiet(Handlers) =>
        /\ counter # Absent => counterTill # NoExpiry
        /\ obs # <<>> => obsTill # NoExpiry

(* RecordReport's comment: the list can momentarily hold one entry past    *)
(* the cap.                                                                *)
AtMostOnePastCap == Len(reports) <= limit + 1

(* Record's comment: both keys get their expiry refreshed on every write,  *)
(* so as long as the counter is there, so is the detail it counts.         *)
CountedMeansKept == quiet(Handlers) /\ counter # Absent => obs # <<>>

=============================================================================
