--------------------------- MODULE UsageRecording ---------------------------
(***************************************************************************)
(* Usage records on their way from the gateway to the ledger: the bounded  *)
(* buffer of each gateway process (UsageRecorder), its flush loop, the     *)
(* calls to Convex that may be lost, late or answered to nobody, and the   *)
(* recordUsage mutation with its raw rows, daily totals and lastUsedAt.    *)
(*                                                                         *)
(* A record is named by the index of its request in `log`, the history of  *)
(* all the requests the middleware has metered.                            *)
(***************************************************************************)
EXTENDS Integers, Sequences, Bags, FiniteSetsExt

CONSTANTS
    Workers,       \* gateway processes
    Stoppable,     \* those that are stopped and started again, by a deployment
    Keys,
    KnownKeys,     \* keys that exist and belong to the user the record names
    BatchSize,     \* batch_size
    MaxPending,    \* max_pending, the maxlen of the deque
    MaxRecordAge,  \* MAX_RECORD_AGE_MS
    MaxClockSkew,  \* MAX_CLOCK_SKEW_MS
    ClockAhead,    \* how far a process's clock may be ahead of Convex's
    DayLength,
    MaxRecords, MaxFailures, MaxTime  \* bounds of the model

ASSUME UsageAssumption ==
    /\ Stoppable \subseteq Workers /\ KnownKeys \subseteq Keys
    /\ BatchSize \in Nat \ {0} /\ MaxPending \in Nat \ {0} /\ DayLength \in Nat \ {0}
    /\ MaxRecordAge \in Nat /\ MaxClockSkew \in Nat /\ ClockAhead \in Nat
    /\ MaxRecords \in Nat /\ MaxFailures \in Nat /\ MaxTime \in Nat

VARIABLES
    now,        \* Convex's clock
    log,        \* history: [key, time, failed, worker] of every request metered
    phase,      \* [Workers -> Phases]
    pending,    \* [Workers -> Seq(Records)], the deque
    batch,      \* [Workers -> Seq(Records)], popped and being sent
    committed,  \* [Workers -> BOOLEAN], the batch is stored, its answer is on the way
    late,       \* a bag of batches whose sender has given up while they were on the way
    failures,   \* failed calls so far, for MaxFailures
    rows,       \* apiRequests, a bag of [record, timestamp]
    daily,      \* usageDaily: the rows [key, day] that exist -> [total, failed]
    lastUsed,   \* lastUsedAt of each key; 0 when it was never used
    overflowed, \* history: records dropped by a full buffer
    refused     \* history: records dropped by recordUsage

gateway == <<log, phase, pending, batch, committed, overflowed>>
convex == <<rows, daily, lastUsed, refused>>
vars == <<now, gateway, late, failures, convex>>

Sleeping == "sleeping"     \* the flush loop waits for the next interval
Flushing == "flushing"     \* the loop awaits Convex
Stopping == "stopping"     \* stop's own flush awaits Convex
Stopped == "stopped"
Phases == {Sleeping, Flushing, Stopping, Stopped}

Records == 1..Len(log)
Elements(s) == {s[i] : i \in DOMAIN s}

\* The first n elements of a sequence, and what follows them.
First(s, n) == SubSeq(s, 1, IF n <= Len(s) THEN n ELSE Len(s))
Rest(s, n) == SubSeq(s, n + 1, Len(s))

Init ==
    /\ now = 1
    /\ log = <<>>
    /\ phase = [w \in Workers |-> Sleeping]
    /\ pending = [w \in Workers |-> <<>>]
    /\ batch = [w \in Workers |-> <<>>]
    /\ committed = [w \in Workers |-> FALSE]
    /\ late = EmptyBag
    /\ failures = 0
    /\ rows = EmptyBag
    /\ daily = [d \in {} |-> 0]
    /\ lastUsed = [k \in Keys |-> 0]
    /\ overflowed = {} /\ refused = {}

---------------------------------------------------------------------------
(* recordUsage: one serializable mutation. *)

Plausible(r) ==
    /\ log[r].key \in KnownKeys
    /\ now - MaxRecordAge <= log[r].time
    /\ log[r].time <= now + MaxClockSkew

Timestamp(r) == IF log[r].time <= now THEN log[r].time ELSE now
\* Mutant: the day of a record by the clock of its process.
DayOfProcess(r) == <<log[r].key, log[r].time \div DayLength>>

Day(r) == <<log[r].key, Timestamp(r) \div DayLength>>

\* Mutant: the latest of the batch, without a look at what is stored.
LastUsedInBatch(k, written) ==
    LET times == {Timestamp(r) : r \in {s \in written : log[s].key = k}}
    IN IF times = {} THEN lastUsed[k] ELSE Max(times)

LastUsed(k, written) ==
    Max({lastUsed[k]} \cup {Timestamp(r) : r \in {s \in written : log[s].key = k}})

recordUsage(sent) ==
    LET written == {r \in Elements(sent) : Plausible(r)}
        total(d) == IF d \in DOMAIN daily THEN daily[d] ELSE [total |-> 0, failed |-> 0]
        of(d) == {r \in written : Day(r) = d}
    IN
    /\ rows' = rows (+) SetToBag({<<r, Timestamp(r)>> : r \in written})
    /\ daily' = [d \in DOMAIN daily \cup {Day(r) : r \in written} |->
                    [total |-> total(d).total + Cardinality(of(d)),
                     failed |-> total(d).failed + Cardinality({r \in of(d) : log[r].failed})]]
    /\ lastUsed' = [k \in Keys |-> LastUsed(k, written)]
    /\ refused' = refused \cup (Elements(sent) \ written)

---------------------------------------------------------------------------
(* The gateway process. *)

\* Mutant: a buffer without a bound.
recordUnbounded(w, k, time, failed) ==
    /\ phase[w] \in {Sleeping, Flushing}
    /\ Len(log) < MaxRecords
    /\ log' = Append(log, [key |-> k, time |-> time, failed |-> failed, worker |-> w])
    /\ pending' = [pending EXCEPT ![w] = Append(@, Len(log) + 1)]
    /\ UNCHANGED <<now, phase, batch, committed, overflowed, late, failures, convex>>

\* The middleware meters a request: a full deque drops its oldest record.
record(w, k, time, failed) ==
    LET r == Len(log) + 1 IN
    /\ phase[w] \in {Sleeping, Flushing}
    /\ Len(log) < MaxRecords
    /\ log' = Append(log, [key |-> k, time |-> time, failed |-> failed, worker |-> w])
    /\ IF Len(pending[w]) = MaxPending
       THEN /\ pending' = [pending EXCEPT ![w] = Append(Tail(@), r)]
            /\ overflowed' = overflowed \cup {Head(pending[w])}
       ELSE /\ pending' = [pending EXCEPT ![w] = Append(@, r)]
            /\ UNCHANGED overflowed
    /\ UNCHANGED <<now, phase, batch, committed, late, failures, convex>>

\* flush goes on with the next batch, or ends when nothing is pending.
NextBatch(w, sending, done) ==
    /\ batch' = [batch EXCEPT ![w] = First(pending[w], BatchSize)]
    /\ pending' = [pending EXCEPT ![w] = Rest(pending[w], BatchSize)]
    /\ phase' = [phase EXCEPT ![w] = IF pending[w] = <<>> THEN done ELSE sending]
    /\ committed' = [committed EXCEPT ![w] = FALSE]
    /\ UNCHANGED <<log, overflowed>>

\* Mutant: the loop waits for a full batch.
WakeWhenFull(w) ==
    /\ phase[w] = Sleeping
    /\ Len(pending[w]) >= BatchSize
    /\ NextBatch(w, Flushing, Sleeping)
    /\ UNCHANGED <<now, late, failures, convex>>

Wake(w) ==
    /\ phase[w] = Sleeping
    /\ pending[w] # <<>>
    /\ NextBatch(w, Flushing, Sleeping)
    /\ UNCHANGED <<now, late, failures, convex>>

Sending(w) == phase[w] \in {Flushing, Stopping}

Commit(w) ==
    /\ Sending(w) /\ ~committed[w]
    /\ recordUsage(batch[w])
    /\ committed' = [committed EXCEPT ![w] = TRUE]
    /\ UNCHANGED <<now, log, phase, pending, batch, overflowed, late, failures>>

Answered(w) ==
    /\ Sending(w) /\ committed[w]
    /\ IF phase[w] = Flushing THEN NextBatch(w, Flushing, Sleeping)
                              ELSE NextBatch(w, Stopping, Stopped)
    /\ UNCHANGED <<now, late, failures, convex>>

\* What becomes of a call whose sender gives up: it has been stored, it is stored
\* later, or it never arrives.
Abandon(w, arrives) ==
    /\ arrives => ~committed[w]
    /\ late' = IF arrives THEN late (+) SetToBag({batch[w]}) ELSE late

\* Mutant: the batch is put back behind what has been recorded since.
CallFailsAtTheBack(w, arrives) ==
    LET queue == pending[w] \o batch[w] IN
    /\ Sending(w) /\ failures < MaxFailures
    /\ failures' = failures + 1
    /\ Abandon(w, arrives)
    /\ pending' = [pending EXCEPT ![w] = First(queue, MaxPending)]
    /\ overflowed' = overflowed \cup Elements(Rest(queue, MaxPending))
    /\ batch' = [batch EXCEPT ![w] = <<>>]
    /\ committed' = [committed EXCEPT ![w] = FALSE]
    /\ phase' = [phase EXCEPT ![w] = IF @ = Flushing THEN Sleeping ELSE Stopped]
    /\ UNCHANGED <<now, log, convex>>

\* ConvexGatewayError: the batch goes back to the front, in order; a full deque drops
\* records at its other end.  flush raises; the loop sleeps, stop gives up.
CallFails(w, arrives) ==
    LET queue == batch[w] \o pending[w] IN
    /\ Sending(w)
    /\ failures < MaxFailures
    /\ failures' = failures + 1
    /\ Abandon(w, arrives)
    /\ pending' = [pending EXCEPT ![w] = First(queue, MaxPending)]
    /\ overflowed' = overflowed \cup Elements(Rest(queue, MaxPending))
    /\ batch' = [batch EXCEPT ![w] = <<>>]
    /\ committed' = [committed EXCEPT ![w] = FALSE]
    /\ phase' = [phase EXCEPT ![w] = IF @ = Flushing THEN Sleeping ELSE Stopped]
    /\ UNCHANGED <<now, log, convex>>

\* A call that nobody awaits reaches Convex.
LateCommit ==
    /\ \E sent \in BagToSet(late) :
          /\ recordUsage(sent)
          /\ late' = late (-) SetToBag({sent})
    /\ UNCHANGED <<now, gateway, failures>>

\* stop cancels the loop and flushes what is pending.  A loop cancelled while it awaits
\* Convex does not put its batch back: CancelledError is no ConvexGatewayError.
stop(w, arrives) ==
    /\ w \in Stoppable
    /\ phase[w] \in {Sleeping, Flushing}
    /\ IF phase[w] = Flushing THEN Abandon(w, arrives) ELSE ~arrives /\ UNCHANGED late
    /\ NextBatch(w, Stopping, Stopped)
    /\ UNCHANGED <<now, failures, convex>>

\* The process exits with what it still holds; the next one starts with nothing.
Restart(w) ==
    /\ phase[w] = Stopped
    /\ phase' = [phase EXCEPT ![w] = Sleeping]
    /\ pending' = [pending EXCEPT ![w] = <<>>]
    /\ UNCHANGED <<now, log, batch, committed, overflowed, late, failures, convex>>

Tick ==
    /\ now < MaxTime
    /\ now' = now + 1
    /\ UNCHANGED <<gateway, late, failures, convex>>

Flush(w) == Wake(w) \/ Commit(w) \/ Answered(w)

Next ==
    \/ \E w \in Workers :
          \/ \E k \in Keys, time \in now..(now + ClockAhead), failed \in BOOLEAN :
                record(w, k, time, failed)
          \/ Flush(w) \/ Restart(w)
          \/ \E arrives \in BOOLEAN : CallFails(w, arrives) \/ stop(w, arrives)
    \/ LateCommit
    \/ Tick

Spec == Init /\ [][Next]_vars

\* The loop wakes every interval and a call to Convex ends.  That calls fail only
\* MaxFailures times is the code's "briefly unreachable".
FairSpec == Spec /\ \A w \in Workers : WF_vars(Flush(w))

---------------------------------------------------------------------------
(* Properties. *)

\* Type invariant of the module's state.
TypeOK ==
    /\ now \in Nat /\ failures \in Nat
    /\ log \in Seq([key : Keys, time : Nat, failed : BOOLEAN, worker : Workers])
    /\ phase \in [Workers -> Phases]
    /\ \A w \in Workers :
          /\ Elements(pending[w]) \cup Elements(batch[w]) \subseteq Records
          /\ Len(pending[w]) <= MaxPending
          /\ Sending(w) <=> batch[w] # <<>>
          /\ committed[w] => Sending(w)
    /\ \A r \in BagToSet(rows) : r[1] \in Records /\ r[2] \in Nat
    /\ daily \in [DOMAIN daily -> [total : Nat, failed : Nat]]
    /\ lastUsed \in [Keys -> Nat]
    /\ overflowed \cup refused \subseteq Records

Stored(r) == \E row \in BagToSet(rows) : row[1] = r

Held(r) == \E w \in Workers : r \in Elements(pending[w]) \cup Elements(batch[w])

AccountedFor(r) == Stored(r) \/ Held(r) \/ r \in overflowed \cup refused

\* "Records are kept (up to a bound) and retried on the next flush": whatever calls fail
\* and whenever their answers are lost, a metered request has its row, or is held for
\* the next flush, unless the bound or the checks of recordUsage dropped it.  (Of the
\* processes that are not stopped; EveryRequestIsRecorded is about the others.)
NoneForgotten == \A r \in Records : log[r].worker \notin Stoppable => AccountedFor(r)

\* "Put the batch back at the front, in order": a process sends its records in the order
\* of its requests, after any number of failures.
SentInOrder ==
    \A w \in Workers :
        LET queue == batch[w] \o pending[w] IN
        \A i, j \in DOMAIN queue : i < j => queue[i] < queue[j]

\* Both: a failed batch comes back complete, and to its place.
KeptInOrder == NoneForgotten /\ SentInOrder

\* The rows of a key and day, and how many there are of a set of them.
DayRows(d) == {row \in BagToSet(rows) : log[row[1]].key = d[1] /\ row[2] \div DayLength = d[2]}
NumberOf(set) == Cardinality(UNION {{row} \X (1..rows[row]) : row \in set})

\* The daily totals are the raw rows counted, by key and day, also for records that
\* arrive twice, late, out of order or with a clock that runs ahead.
RollupsAgree ==
    \A d \in Keys \X (0..(MaxTime \div DayLength)) :
        IF d \in DOMAIN daily
        THEN /\ daily[d].total = NumberOf(DayRows(d))
             /\ daily[d].failed = NumberOf({row \in DayRows(d) : log[row[1]].failed})
        ELSE DayRows(d) = {}

\* lastUsedAt is the latest request stored for the key, in whatever order the batches
\* of the processes arrive.
LastUsedIsLatest ==
    \A k \in Keys :
        LET times == {row[2] : row \in {s \in BagToSet(rows) : log[s[1]].key = k}}
        IN lastUsed[k] = Max({0} \cup times)

\* Every metered request gets its row, or is dropped by the bound or the checks.
EventuallyStored ==
    \A r \in 1..MaxRecords : (r \in Records) ~> (Stored(r) \/ r \in overflowed \cup refused)

\* "One row per authenticated /v1 request", says the schema: no request is forgotten, while Convex
\* is reachable, by a process that is stopped in an orderly way.
EveryRequestIsRecorded == \A r \in Records : AccountedFor(r)
=============================================================================
