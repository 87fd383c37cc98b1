--------------------------- MODULE ProbeMemStore ---------------------------
(***************************************************************************)
(* probe's in-process store (observe.go, MemStore): observations and error *)
(* reports kept per token until a time to live after they were first seen. *)
(*                                                                         *)
(* A handler stamps its observation (Observe, NewReportRecord) before it   *)
(* asks for the store's lock, so the store can be handed times out of      *)
(* order; the lock makes each operation of the store one step.  The two    *)
(* halves, entries and reports, are one function of the kind; an item is   *)
(* represented by its time.                                                *)
(***************************************************************************)
EXTENDS Naturals, Sequences, FiniteSets

CONSTANTS
    Handlers,      \* goroutines serving a query or a report
    Tokens,        \* visitors' tokens
    Unattributed,  \* the empty token, for reports only
    TTL, MaxTokens, MaxPerToken, maxUnattributedReports,
    MaxTime,       \* bound on the clock
    MaxRecords     \* bound: how many items handlers bring in

ASSUME MemStoreAssumption ==
    /\ Unattributed \notin Tokens
    /\ TTL \in Nat \ {0} /\ MaxTokens \in Nat \ {0} /\ MaxPerToken \in Nat \ {0}
    /\ maxUnattributedReports \in Nat \ {0}
    /\ MaxTime \in Nat /\ MaxRecords \in Nat

Kinds == {"obs", "report"}
Keys(k) == IF k = "obs" THEN Tokens ELSE Tokens \cup {Unattributed}

Idle == [kind |-> "none"]

VARIABLES
    now,      \* the clock
    pending,  \* the stamped item each handler is about to record, or Idle
    entries,  \* entries[k]: token -> [first, items]
    order,    \* order[k]: the queue of [first, token]
    seen,     \* the Seen number the last Record returned, by token; 0 if none
    times,    \* history: Record calls for the token since its entry was made
    records   \* how many items have been brought in

vars == <<now, pending, entries, order, seen, times, records>>

EmptyMap == [t \in {} |-> 0]

Init ==
    /\ now = 0
    /\ pending = [h \in Handlers |-> Idle]
    /\ entries = [k \in Kinds |-> EmptyMap]
    /\ order = [k \in Kinds |-> <<>>]
    /\ seen = [t \in Tokens |-> 0]
    /\ times = [t \in Tokens |-> 0]
    /\ records = 0

-----------------------------------------------------------------------------
(* The queue *)

(* Mutant of push: always at the end.                                      *)
pushLast(q, e) == Append(q, e)

(* Append, or insert before the first element seen later.                  *)
push(q, e) ==
    IF q # <<>> /\ e.first < q[Len(q)].first
    THEN LET i == CHOOSE i \in DOMAIN q :
                     /\ q[i].first > e.first
                     /\ \A j \in 1..(i - 1) : q[j].first <= e.first
         IN  SubSeq(q, 1, i - 1) \o <<e>> \o SubSeq(q, i, Len(q))
    ELSE Append(q, e)

(* Mutant of due: an entry expires one tick early.                         *)
dueEarly(q, t) ==
    {i \in DOMAIN q : \A j \in 1..i : t >= q[j].first + TTL}

(* The expired prefix, given the time the caller goes by.                  *)
due(q, t) ==
    {i \in DOMAIN q : \A j \in 1..i : t > q[j].first + TTL}

(* expireLocked, for one kind: the queue and the map afterwards.           *)
expireOrder(k, t) == SubSeq(order[k], Cardinality(due(order[k], t)) + 1, Len(order[k]))

expireMap(k, t) ==
    LET dropped == {order[k][i] : i \in due(order[k], t)}
    IN  [x \in {x \in DOMAIN entries[k] :
                   [first |-> entries[k][x].first, token |-> x] \notin dropped}
            |-> entries[k][x]]

-----------------------------------------------------------------------------
(* Handlers *)

Stamp(h, k, t) ==
    /\ pending[h] = Idle
    /\ records < MaxRecords
    /\ records' = records + 1
    /\ pending' = [pending EXCEPT ![h] = [kind |-> k, token |-> t, at |-> now]]
    /\ UNCHANGED <<now, entries, order, seen, times>>

(* Mutant of limit: off by one.                                            *)
limitPlusOne(p) ==
    1 + (IF p.token = Unattributed THEN maxUnattributedReports ELSE MaxPerToken)

limit(p) == IF p.token = Unattributed THEN maxUnattributedReports ELSE MaxPerToken

(* What Record and RecordReport do with an item under the lock.  ErrStoreFull*)
(* leaves the maps as the expiry made them.                                *)
storeIn(k, p) ==
    LET m == expireMap(k, p.at)
        q == expireOrder(k, p.at)
        other == CHOOSE o \in Kinds : o # k
        isNew == p.token \notin DOMAIN m
        full == isNew /\ Cardinality(DOMAIN m) >= MaxTokens
        e == IF isNew THEN [first |-> p.at, items |-> <<>>] ELSE m[p.token]
        kept == IF Len(e.items) >= limit(p) THEN e
                ELSE [e EXCEPT !.items = Append(@, p.at)]
        put == [x \in DOMAIN m \cup {p.token} |-> IF x = p.token THEN kept ELSE m[x]]
    IN  /\ entries' = [entries EXCEPT ![k] = IF full THEN m ELSE put,
                                      ![other] = expireMap(other, p.at)]
        /\ order' = [order EXCEPT
                ![k] = IF isNew /\ ~full
                       THEN push(q, [first |-> p.at, token |-> p.token]) ELSE q,
                ![other] = expireOrder(other, p.at)]
        /\ IF k = "report" THEN UNCHANGED <<seen, times>>
           ELSE /\ seen' = [seen EXCEPT ![p.token] =
                               IF full THEN 1 ELSE Len(e.items) + 1]
                /\ times' = [times EXCEPT ![p.token] =
                               IF full THEN 1 ELSE IF isNew THEN 1 ELSE @ + 1]

store(p) == storeIn(p.kind, p)

Record(h) ==
    /\ pending[h] # Idle
    /\ store(pending[h])
    /\ pending' = [pending EXCEPT ![h] = Idle]
    /\ UNCHANGED <<now, records>>

(* Lookup, LookupReports and Len read the clock and expire first.  What    *)
(* they return is the map afterwards.                                      *)
Lookup ==
    /\ entries' = [k \in Kinds |-> expireMap(k, now)]
    /\ order' = [k \in Kinds |-> expireOrder(k, now)]
    /\ UNCHANGED <<now, pending, seen, times, records>>

TimePasses ==
    /\ now < MaxTime
    /\ now' = now + 1
    /\ UNCHANGED <<pending, entries, order, seen, times, records>>

Next ==
    \/ \E h \in Handlers, k \in Kinds : \E t \in Keys(k) : Stamp(h, k, t)
    \/ \E h \in Handlers : Record(h)
    \/ Lookup
    \/ TimePasses

Spec == Init /\ [][Next]_vars

-----------------------------------------------------------------------------
(* Properties *)

(* Type invariant: only reports are kept without a token.                  *)
TypeOK ==
    /\ now \in 0..MaxTime
    /\ records \in 0..MaxRecords
    /\ \A k \in Kinds : DOMAIN entries[k] \subseteq Keys(k)
    /\ \A k \in Kinds : \A i \in DOMAIN order[k] :
          order[k][i].first \in 0..MaxTime /\ order[k][i].token \in Keys(k)

(* The queue is the map's entries in the order they were first seen, each  *)
(* once, although handlers bring their stamps out of order: expiry, which  *)
(* stops at the first live element, depends on it.  What is kept, and so   *)
(* memory, is bounded in tokens and in items per token, whatever is sent.  *)
QueueMirrorsMap ==
    \A k \in Kinds :
        LET q == order[k]
        IN  /\ \A i, j \in DOMAIN q : i < j => q[i].first <= q[j].first
            /\ \A i, j \in DOMAIN q : q[i].token = q[j].token => i = j
            /\ {q[i] : i \in DOMAIN q} =
                  {[first |-> entries[k][t].first, token |-> t] : t \in DOMAIN entries[k]}
            /\ Cardinality(DOMAIN entries[k]) <= MaxTokens
            /\ \A t \in DOMAIN entries[k] :
                  Len(entries[k][t].items) <=
                      IF t = Unattributed THEN maxUnattributedReports ELSE MaxPerToken

(* The items s are still there, in order, in front of newer ones.          *)
AddedTo(s, t) == Len(s) <= Len(t) /\ SubSeq(t, 1, Len(s)) = s

(* A flood evicts nobody: a token's items stay until its time to live is   *)
(* over, and are only added to until then.                                 *)
KeptUntilExpiry ==
    [][\A k \in Kinds : \A t \in DOMAIN entries[k] :
         \/ now > entries[k][t].first + TTL
         \/ /\ t \in DOMAIN entries'[k]
            /\ entries'[k][t].first = entries[k][t].first
            /\ AddedTo(entries[k][t].items, entries'[k][t].items)]_vars

(* A reader is never shown a token past its time to live, which continued  *)
(* querying does not extend.                                               *)
NothingStaleIsRead ==
    [][Lookup => \A k \in Kinds : \A t \in DOMAIN entries'[k] :
         now <= entries'[k][t].first + TTL]_vars

(* Record's comment: the count stays truthful past the cap on detail.      *)
SeenIsTruthful == seen = times

=============================================================================
