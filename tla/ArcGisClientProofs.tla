------------------------- MODULE ArcGisClientProofs -------------------------
(***************************************************************************)
(* Safety of the ArcGIS client for any number of requests, any threshold,  *)
(* recovery time, retry count, number of slots, backoff and lifetimes of   *)
(* tokens.  First the breaker alone, with any answers of a token provider; *)
(* then the client with its token provider, which implements the breaker,  *)
(* the line for the provider's lock, and the token.                        *)
(***************************************************************************)
EXTENDS ArcGisClient, SequencesExt, FiniteSetTheorems, TLAPS

\* Opening a circuit starts a cooldown as long as the recovery time, so the time since
\* the last probe and what is left of the cooldown never add up to less.
OpenHasCooldown == circuit = "open" => cooldown + sinceProbe >= RecoveryTime

\* The half-open state exists only with a request that has the right to probe.
HalfOpenHasProbe == circuit = "half_open" => probeInFlight

\* What the calls of a request are: its failed attempts, the one answered by a token
\* error, and the one that is running.
CallsAreAccounted ==
    \A t \in Tasks :
        /\ attempt[t] <= MaxRetries
        /\ sends[t] = attempt[t] + (IF renewed[t] THEN 1 ELSE 0)
                                 + (IF pc[t] = Sending THEN 1 ELSE 0)

IInv == TypeOK /\ OpenOnlyAfterFailures /\ OpenHasCooldown /\ HalfOpenHasProbe
               /\ CallsAreAccounted

\* The part of the invariant the breaker's own state is in.
BreakerOK ==
    /\ circuit \in {"closed", "open", "half_open"}
    /\ failures \in 0..FailureThreshold
    /\ cooldown \in 0..RecoveryTime
    /\ probeInFlight \in BOOLEAN
    /\ sinceProbe \in 0..RecoveryTime
    /\ OpenOnlyAfterFailures /\ OpenHasCooldown /\ HalfOpenHasProbe

\* The part that is the requests'.
RequestsOK ==
    /\ pc \in [Tasks -> Places]
    /\ attempt \in [Tasks -> Nat]
    /\ renewed \in [Tasks -> BOOLEAN]
    /\ sends \in [Tasks -> Nat]
    /\ CallsAreAccounted

LEMMA Bounds ==
    /\ 0 \in 0..RecoveryTime /\ RecoveryTime \in 0..RecoveryTime
    /\ 0 \in 0..FailureThreshold /\ FailureThreshold \in 0..FailureThreshold
    /\ {TRUE, FALSE} \subseteq BOOLEAN
  BY BreakerAssumption

LEMMA Parts == (IInv <=> BreakerOK /\ RequestsOK) /\ (IInv' <=> BreakerOK' /\ RequestsOK')
  BY DEF IInv, TypeOK, BreakerOK, RequestsOK

---------------------------------------------------------------------------
(* The four things a request does to the breaker keep its part. *)

LEMMA BreakerUnchanged ==
    BreakerOK /\ UNCHANGED <<breaker, sinceProbe>> => BreakerOK'
  BY DEF BreakerOK, breaker, OpenOnlyAfterFailures, OpenHasCooldown, HalfOpenHasProbe

LEMMA EnterKeepsBreaker == BreakerOK /\ circuitEnter => BreakerOK'
<1> SUFFICES ASSUME BreakerOK, circuitEnter PROVE BreakerOK'
  OBVIOUS
<1>1. CASE circuit = "closed"
  BY <1>1, BreakerUnchanged DEF circuitEnter
<1>2. CASE circuit # "closed"
  <2>1. circuit' = "half_open" /\ probeInFlight' = TRUE /\ sinceProbe' = 0
        /\ failures' = failures /\ cooldown' = cooldown
    BY <1>2 DEF circuitEnter
  <2>2. failures = FailureThreshold
    BY <1>2 DEF BreakerOK, OpenOnlyAfterFailures
  <2> QED BY <2>1, <2>2, BreakerAssumption
          DEF BreakerOK, OpenOnlyAfterFailures, OpenHasCooldown, HalfOpenHasProbe
<1> QED BY <1>1, <1>2

LEMMA SuccessKeepsBreaker == BreakerOK /\ circuitSucceeded => BreakerOK'
<1> SUFFICES ASSUME BreakerOK, circuitSucceeded PROVE BreakerOK'
  OBVIOUS
<1>1. circuit' = "closed" /\ failures' = 0 /\ probeInFlight' = FALSE
      /\ sinceProbe' = RecoveryTime /\ cooldown' = cooldown
  BY DEF circuitSucceeded
<1>2. HalfOpenHasProbe' /\ OpenHasCooldown' /\ OpenOnlyAfterFailures'
  BY <1>1 DEF HalfOpenHasProbe, OpenHasCooldown, OpenOnlyAfterFailures
<1> QED BY <1>1, <1>2, Bounds DEF BreakerOK

LEMMA FailureKeepsBreaker == BreakerOK /\ circuitFailed => BreakerOK'
<1> SUFFICES ASSUME BreakerOK, circuitFailed PROVE BreakerOK'
  OBVIOUS
<1>0. failures \in 0..FailureThreshold /\ failures' = Saturating(failures + 1)
      /\ probeInFlight' = FALSE /\ sinceProbe' = sinceProbe
  BY DEF BreakerOK, circuitFailed
<1>1. CASE circuit = "half_open" \/ failures + 1 >= FailureThreshold
  <2>1. circuit' = "open" /\ cooldown' = RecoveryTime
    BY <1>1 DEF circuitFailed
  <2>2. failures' = FailureThreshold
    BY <1>0, <1>1, BreakerAssumption DEF BreakerOK, OpenOnlyAfterFailures, Saturating
  <2>3. HalfOpenHasProbe' /\ OpenOnlyAfterFailures'
    BY <2>1, <2>2 DEF HalfOpenHasProbe, OpenOnlyAfterFailures
  <2>4. OpenHasCooldown'
    BY <1>0, <2>1, BreakerAssumption DEF OpenHasCooldown, BreakerOK
  <2> QED BY <1>0, <2>1, <2>2, <2>3, <2>4, Bounds DEF BreakerOK
<1>2. CASE ~(circuit = "half_open" \/ failures + 1 >= FailureThreshold)
  <2>1. circuit' = circuit /\ cooldown' = cooldown
    BY <1>2 DEF circuitFailed
  <2>2. circuit = "closed" /\ failures' \in 0..FailureThreshold
    BY <1>0, <1>2, BreakerAssumption DEF BreakerOK, OpenOnlyAfterFailures, Saturating
  <2> QED BY <1>0, <2>1, <2>2, BreakerAssumption
          DEF BreakerOK, OpenOnlyAfterFailures, OpenHasCooldown, HalfOpenHasProbe
<1> QED BY <1>1, <1>2

LEMMA TickKeepsBreaker == BreakerOK /\ Tick => BreakerOK'
  BY BreakerAssumption
  DEF BreakerOK, Tick, OpenOnlyAfterFailures, OpenHasCooldown, HalfOpenHasProbe

---------------------------------------------------------------------------
(* The requests' part. *)

LEMMA RequestsUnchanged == RequestsOK /\ UNCHANGED <<pc, request>> => RequestsOK'
  BY DEF RequestsOK, request, CallsAreAccounted

LEMMA FinishKeepsRequests ==
    ASSUME NEW t \in Tasks, RequestsOK, Finish(t)
    PROVE  RequestsOK'
  BY BreakerAssumption
  DEF RequestsOK, Finish, Goto, CallsAreAccounted, Places, Idle, Sending

\* A step that only moves a request, from and to a place that is not an attempt.
LEMMA GotoKeepsRequests ==
    ASSUME NEW t \in Tasks, NEW place \in Places \ {Sending},
           RequestsOK, pc[t] # Sending, Goto(t, place), UNCHANGED request
    PROVE  RequestsOK'
  BY DEF RequestsOK, request, Goto, CallsAreAccounted, Places, Sending

LEMMA GetSlotKeepsRequests ==
    ASSUME NEW t \in Tasks, RequestsOK, GetSlot(t)
    PROVE  RequestsOK'
  BY DEF RequestsOK, GetSlot, Goto, CallsAreAccounted, Places, Sending, Queued

LEMMA RenewalKeepsRequests ==
    ASSUME NEW t \in Tasks, RequestsOK, pc[t] = Sending, ~renewed[t],
           renewed' = [renewed EXCEPT ![t] = TRUE], Goto(t, Headers),
           UNCHANGED <<attempt, sends>>
    PROVE  RequestsOK'
  BY DEF RequestsOK, Goto, CallsAreAccounted, Places, Sending, Headers

LEMMA BackoffKeepsRequests ==
    ASSUME NEW t \in Tasks, RequestsOK, pc[t] = Sending, attempt[t] + 1 <= MaxRetries,
           attempt' = [attempt EXCEPT ![t] = @ + 1], Goto(t, Backoff),
           UNCHANGED <<renewed, sends>>
    PROVE  RequestsOK'
  BY BreakerAssumption
  DEF RequestsOK, Goto, CallsAreAccounted, Places, Sending, Backoff

---------------------------------------------------------------------------
LEMMA Initially == Init => IInv
<1> SUFFICES ASSUME Init PROVE BreakerOK /\ RequestsOK
  BY Parts
<1>1. circuit = "closed" /\ failures = 0 /\ cooldown = 0 /\ probeInFlight = FALSE
      /\ sinceProbe = RecoveryTime
  BY DEF Init
<1>2. BreakerOK
  <2>1. HalfOpenHasProbe /\ OpenHasCooldown /\ OpenOnlyAfterFailures
    BY <1>1 DEF HalfOpenHasProbe, OpenHasCooldown, OpenOnlyAfterFailures
  <2> QED BY <1>1, <2>1, Bounds DEF BreakerOK
<1>3. RequestsOK
  BY BreakerAssumption DEF Init, RequestsOK, CallsAreAccounted, Places, Idle, Sending
<1> QED BY <1>2, <1>3

LEMMA ProgressKeeps ==
    ASSUME NEW t \in Tasks, IInv, Progress(t)
    PROVE  IInv'
<1>0. BreakerOK /\ RequestsOK
  BY Parts
<1>1. CASE TokenReady(t)
  <2>1. RequestsOK'
    BY <1>0, <1>1, GotoKeepsRequests DEF TokenReady, Places, Queued, Headers, Sending
  <2> QED BY <1>0, <1>1, <2>1, BreakerUnchanged, Parts DEF TokenReady
<1>2. CASE TokenUnavailable(t) \/ SlotTimeout(t) \/ ReadTimeout(t)
  BY <1>0, <1>2, FinishKeepsRequests, FailureKeepsBreaker, Parts
  DEF TokenUnavailable, SlotTimeout, ReadTimeout
<1>3. CASE TokenRefused(t) \/ AnswerOk(t) \/ AnswerError(t)
  <2>1. circuitSucceeded
    BY <1>3 DEF TokenRefused, AnswerOk, AnswerError
  <2> QED BY <1>0, <1>3, <2>1, FinishKeepsRequests, SuccessKeepsBreaker, Parts
          DEF TokenRefused, AnswerOk, AnswerError
<1>4. CASE GetSlot(t)
  BY <1>0, <1>4, GetSlotKeepsRequests, BreakerUnchanged, Parts DEF GetSlot
<1>5. CASE TokenRejected(t)
  <2>1. CASE renewed[t]
    BY <1>0, <1>5, <2>1, FinishKeepsRequests, SuccessKeepsBreaker, Parts
    DEF TokenRejected
  <2>2. CASE ~renewed[t]
    BY <1>0, <1>5, <2>2, RenewalKeepsRequests, BreakerUnchanged, Parts DEF TokenRejected
  <2> QED BY <2>1, <2>2
<1>6. ASSUME NEW beforeDeadline \in BOOLEAN, RetryableFailure(t, beforeDeadline)
      PROVE  IInv'
  <2>1. CASE attempt[t] + 1 <= MaxRetries /\ beforeDeadline
    BY <1>0, <1>6, <2>1, BackoffKeepsRequests, BreakerUnchanged, Parts DEF RetryableFailure
  <2>2. CASE ~(attempt[t] + 1 <= MaxRetries /\ beforeDeadline)
    BY <1>0, <1>6, <2>2, FinishKeepsRequests, FailureKeepsBreaker, Parts
    DEF RetryableFailure
  <2> QED BY <2>1, <2>2
<1>7. CASE Retry(t)
  <2>1. RequestsOK'
    BY <1>0, <1>7, GotoKeepsRequests DEF Retry, Places, Headers, Backoff, Sending
  <2> QED BY <1>0, <1>7, <2>1, BreakerUnchanged, Parts DEF Retry
<1> QED BY <1>1, <1>2, <1>3, <1>4, <1>5, <1>6, <1>7 DEF Progress

LEMMA Step == IInv /\ [Next]_vars => IInv'
<1> SUFFICES ASSUME IInv, [Next]_vars PROVE IInv'
  OBVIOUS
<1>0. BreakerOK /\ RequestsOK
  BY Parts
<1>1. CASE Tick
  BY <1>0, <1>1, TickKeepsBreaker, RequestsUnchanged, Parts DEF Tick
<1>2. ASSUME NEW t \in Tasks, Enter(t) PROVE IInv'
  <2>1. RequestsOK'
    BY <1>0, <1>2, GotoKeepsRequests DEF Enter, Places, Idle, Headers, Sending
  <2> QED BY <1>0, <1>2, <2>1, EnterKeepsBreaker, Parts DEF Enter
<1>3. ASSUME NEW t \in Tasks, Cancel(t) PROVE IInv'
  BY <1>0, <1>3, FinishKeepsRequests, BreakerUnchanged, Parts DEF Cancel
<1>4. CASE UNCHANGED vars
  BY <1>0, <1>4, BreakerUnchanged, RequestsUnchanged, Parts DEF vars
<1>5. ASSUME NEW t \in Tasks, EnterRefused(t) PROVE IInv'
  BY <1>4, <1>5 DEF EnterRefused
<1> QED BY <1>1, <1>2, <1>3, <1>4, <1>5, ProgressKeeps DEF Next

LEMMA Invariance == Spec => []IInv
  BY Initially, Step, PTL DEF Spec

\* Type correctness of the breaker and of every request.
THEOREM TypeCorrect == Spec => []TypeOK
<1>1. IInv => TypeOK
  BY DEF IInv
<1> QED BY <1>1, Invariance, PTL

\* A circuit is open or half-open only with FailureThreshold failures behind it: the
\* failures of a healthy upstream do not open it, at whatever moment they are counted.
THEOREM OpenOnlyAfterFailuresHolds == Spec => []OpenOnlyAfterFailures
<1>1. IInv => OpenOnlyAfterFailures
  BY DEF IInv
<1> QED BY <1>1, Invariance, PTL

\* A request costs the upstream at most MaxRetries + 2 calls, whatever mixture of
\* retries, renewals and cancellations it goes through.
THEOREM CallsAreBoundedHolds == Spec => []CallsAreBounded
<1>1. IInv => CallsAreBounded
  BY BreakerAssumption DEF IInv, TypeOK, CallsAreAccounted, CallsAreBounded
<1> QED BY <1>1, Invariance, PTL

\* Until a request succeeds, a circuit that is not closed lets through at most one
\* request per recovery time, however many requests race for the probe.
THEOREM ProbesAreSpacedHolds == Spec => ProbesAreSpaced
<1>1. IInv => [\A t \in Tasks : Enter(t) /\ circuit # "closed"
                                    => sinceProbe >= RecoveryTime]_vars
  BY BreakerAssumption
  DEF IInv, TypeOK, OpenHasCooldown, HalfOpenHasProbe, Enter, circuitEnter, Refuses
<1> QED BY <1>1, Invariance, PTL DEF ProbesAreSpaced

---------------------------------------------------------------------------
(* The client takes the steps of the breaker, or leaves it alone.  What    *)
(* was proved of the breaker with any answers of the token provider then   *)
(* holds with the answers that the provider really gives.                  *)

LEMMA ClientStepsAreSteps == [ClientNext]_clientVars => [Next]_vars
<1> SUFFICES ASSUME [ClientNext]_clientVars PROVE [Next]_vars
  OBVIOUS
<1>1. CASE Clock
  BY <1>1 DEF Clock, Next
<1>2. ASSUME NEW service \in {"data", "token"}, Outage(service) PROVE [Next]_vars
  BY <1>2 DEF Outage
<1>3. ASSUME NEW t \in Tasks, Call(t) PROVE [Next]_vars
  BY <1>3 DEF Call, Next
<1>4. ASSUME NEW t \in Tasks, Continue(t) PROVE [Next]_vars
  <2>1. UNCHANGED vars \/ Progress(t)
    BY <1>4
    DEF Continue, UseToken, UseNewToken, RaiseRemembered, RaiseNew, RaiseFailure, Await, Rejected,
        Answer, Proceed, Progress
  <2> QED BY <2>1 DEF Next
<1>5. ASSUME NEW t \in Tasks, Cancelled(t) PROVE [Next]_vars
  BY <1>5 DEF Cancelled, Next
<1>6. CASE UNCHANGED clientVars
  BY <1>6 DEF clientVars
<1> QED BY <1>1, <1>2, <1>3, <1>4, <1>5, <1>6 DEF ClientNext

\* The client with its token provider implements the breaker.
THEOREM ClientImplementsBreaker == ClientSpec => Spec
<1>1. ClientInit => Init
  BY DEF ClientInit
<1> QED BY <1>1, ClientStepsAreSteps, PTL DEF ClientSpec, Spec

---------------------------------------------------------------------------
(* The line for the token provider's lock. *)

\* Everybody in line is a request that waits for its headers, and stands there once.
LineKept ==
    /\ line \in Seq(Tasks) /\ IsInjective(line)
    /\ generating \in BOOLEAN /\ (generating => line # <<>>)
    /\ dropping \subseteq {t \in Tasks : TP!InLine(t)}
    /\ \A t \in Tasks : TP!InLine(t) => pc[t] = Headers

LEMMA RemovedAt ==
    ASSUME NEW S, NEW s \in Seq(S), NEW i \in DOMAIN s
    PROVE  /\ RemoveAt(s, i) \in Seq(S)
           /\ DOMAIN RemoveAt(s, i) = 1..Len(s) - 1
           /\ \A j \in 1..Len(s) - 1 : RemoveAt(s, i)[j] = s[IF j < i THEN j ELSE j + 1]
<1> DEFINE before == SubSeq(s, 1, i - 1)
           after == SubSeq(s, i + 1, Len(s))
<1>1. i \in 1..Len(s) /\ Len(s) \in Nat
  OBVIOUS
<1>2. before \in Seq(S) /\ Len(before) = i - 1 /\ \A j \in 1..i - 1 : before[j] = s[j]
  BY <1>1
<1>3. after \in Seq(S) /\ Len(after) = Len(s) - i /\ \A j \in 1..Len(s) - i : after[j] = s[i + j]
  BY <1>1
<1>4. RemoveAt(s, i) = before \o after
  BY DEF RemoveAt
<1> HIDE DEF before, after
<1>5. /\ before \o after \in Seq(S) /\ Len(before \o after) = Len(before) + Len(after)
      /\ \A j \in 1..Len(before) + Len(after) :
            (before \o after)[j] = IF j <= Len(before) THEN before[j] ELSE after[j - Len(before)]
  BY <1>2, <1>3
<1>6. DOMAIN (before \o after) = 1..Len(s) - 1
  <2>1. Len(before) + Len(after) = Len(s) - 1
    BY <1>1, <1>2, <1>3
  <2>2. DOMAIN (before \o after) = 1..Len(before \o after)
    BY <1>5
  <2> QED BY <1>5, <2>1, <2>2
<1>7. ASSUME NEW j \in 1..Len(s) - 1
      PROVE  (before \o after)[j] = s[IF j < i THEN j ELSE j + 1]
  <2>1. CASE j < i
    <3>1. j \in 1..i - 1 /\ j <= Len(before) /\ j \in 1..Len(before) + Len(after)
      BY <1>1, <1>2, <1>3, <2>1
    <3>2. (before \o after)[j] = before[j]
      BY <1>5, <3>1
    <3> QED BY <1>2, <2>1, <3>1, <3>2
  <2>2. CASE ~(j < i)
    <3>1. PICK m \in 1..Len(s) - i : m = j - (i - 1) /\ i + m = j + 1
      BY <1>1, <2>2
    <3>2. Len(before) = i - 1 /\ Len(after) = Len(s) - i /\ ~(j <= Len(before))
          /\ j \in 1..Len(before) + Len(after)
      BY <1>1, <1>2, <1>3, <2>2
    <3>3. (before \o after)[j] = after[j - Len(before)]
      BY <1>5, <3>2
    <3>4. after[m] = s[i + m]
      BY <1>3
    <3> QED BY <2>2, <3>1, <3>2, <3>3, <3>4
  <2> QED BY <2>1, <2>2
<1> QED BY <1>4, <1>5, <1>6, <1>7

LEMMA LineStays ==
    ASSUME LineKept, UNCHANGED <<line, generating, dropping>>,
           \A t \in Tasks : TP!InLine(t) => pc'[t] = pc[t]
    PROVE  LineKept'
  BY DEF LineKept, TP!InLine

\* Who leaves the line was in it once, and nobody else leaves.
LEMMA LeaveKeepsLine ==
    ASSUME NEW t \in Tasks, LineKept, TP!Leave(t), \A u \in Tasks \ {t} : pc'[u] = pc[u]
    PROVE  LineKept' /\ ~TP!InLine(t)' /\ t \notin dropping'
<1>1. PICK i \in DOMAIN line : line[i] = t /\ line' = RemoveAt(line, i)
  BY DEF TP!Leave, TP!RemoveAt, RemoveAt
<1>2. line \in Seq(Tasks) /\ IsInjective(line) /\ i \in 1..Len(line) /\ Len(line) \in Nat
  BY DEF LineKept
<1>3. /\ line' \in Seq(Tasks) /\ DOMAIN line' = 1..Len(line) - 1
      /\ \A j \in 1..Len(line) - 1 : line'[j] = line[IF j < i THEN j ELSE j + 1]
  BY <1>1, <1>2, RemovedAt
<1>4. \A j, k \in 1..Len(line) : line[j] = line[k] => j = k
  BY <1>2 DEF IsInjective
<1>5. IsInjective(line')
  <2> SUFFICES ASSUME NEW j \in 1..Len(line) - 1, NEW k \in 1..Len(line) - 1, line'[j] = line'[k]
               PROVE  j = k
    BY <1>3 DEF IsInjective
  <2>1. (IF j < i THEN j ELSE j + 1) = (IF k < i THEN k ELSE k + 1)
    BY <1>2, <1>3, <1>4
  <2> QED BY <1>2, <2>1
<1>6. ~TP!InLine(t)'
  BY <1>1, <1>2, <1>3, <1>4 DEF TP!InLine
<1>7. ASSUME NEW u \in Tasks \ {t} PROVE TP!InLine(u)' <=> TP!InLine(u)
  <2>1. ASSUME NEW j \in 1..Len(line), line[j] = u PROVE TP!InLine(u)'
    <3> DEFINE k == IF j < i THEN j ELSE j - 1
    <3>1. k \in 1..Len(line) - 1 /\ line'[k] = u
      BY <1>1, <1>2, <1>3, <2>1
    <3> QED BY <1>3, <3>1 DEF TP!InLine
  <2>2. ASSUME NEW j \in 1..Len(line) - 1, line'[j] = u PROVE TP!InLine(u)
    BY <1>2, <1>3, <2>2 DEF TP!InLine
  <2> QED BY <1>2, <1>3, <2>1, <2>2 DEF TP!InLine
<1>8. generating' \in BOOLEAN /\ dropping' = dropping \ {t}
  BY DEF TP!Leave, LineKept
<1>9. generating' => line' # <<>>
  <2> SUFFICES ASSUME generating' PROVE line' # <<>>
    OBVIOUS
  <2>1. generating /\ Head(line) # t
    BY DEF TP!Leave
  <2>2. line[1] # t
    BY <1>2, <2>1
  <2>3. i # 1 /\ 1 \in DOMAIN line'
    BY <1>1, <1>2, <1>3, <2>2
  <2> QED BY <2>3
<1> QED BY <1>3, <1>5, <1>6, <1>7, <1>8, <1>9 DEF LineKept

LEMMA JoinKeepsLine ==
    ASSUME NEW t \in Tasks, LineKept, ~TP!InLine(t), line' = Append(line, t), UNCHANGED generating,
           dropping' \in {dropping, dropping \cup {t}},
           pc'[t] = Headers, \A u \in Tasks \ {t} : pc'[u] = pc[u]
    PROVE  LineKept'
<1>1. line \in Seq(Tasks) /\ IsInjective(line) /\ Len(line) \in Nat /\ DOMAIN line = 1..Len(line)
  BY DEF LineKept
<1>2. /\ line' \in Seq(Tasks) /\ Len(line') = Len(line) + 1 /\ DOMAIN line' = 1..Len(line) + 1
      /\ line'[Len(line) + 1] = t /\ \A j \in 1..Len(line) : line'[j] = line[j]
  BY <1>1
<1>3. \A j \in 1..Len(line) : line[j] # t
  BY <1>1 DEF TP!InLine
<1>4. IsInjective(line')
  BY <1>1, <1>2, <1>3 DEF IsInjective
<1>5. \A u \in Tasks : TP!InLine(u)' <=> TP!InLine(u) \/ u = t
  BY <1>1, <1>2 DEF TP!InLine
<1>6. line' # <<>>
  BY <1>1, <1>2
<1> QED BY <1>1, <1>2, <1>4, <1>5, <1>6 DEF LineKept

---------------------------------------------------------------------------
(* The token, and what the requests hold of it. *)

\* A failure that is remembered was counted from the call that failed.
FailureIsDated == failure # "none" => failedFor + sinceCall >= FailureBackoff

FreshIsUsable == fresh => TP!Usable

\* Nobody is about to invalidate a fresh token: the token that such a request holds is
\* an older one.
RejectedIsOld == \A t \in dropping : held[t] = token => ~fresh

\* Someone holds the current token or none, so some token is neither current nor held.
TokenIsHeld == token # TP!NoToken => \E t \in Tasks : held[t] \in {TP!NoToken, token}

TokenValues ==
    /\ token \in TP!Tokens \cup {TP!NoToken} /\ renewIn \in Nat
    /\ failure \in {"none", "refused", "unreachable"} /\ failedFor \in 0..FailureBackoff
    /\ held \in [Tasks -> TP!Tokens \cup {TP!NoToken}]
    /\ dropping \subseteq Tasks
    /\ down \subseteq {"data", "token"} /\ fresh \in BOOLEAN /\ sinceCall \in 0..FailureBackoff

TokensKept == TokenValues /\ FailureIsDated /\ FreshIsUsable /\ RejectedIsOld /\ TokenIsHeld

LEMMA SameCardinality == TP!Cardinality(Tasks) = Cardinality(Tasks)
  BY DEF TP!Cardinality, Cardinality

\* A token service can always issue one that nobody holds: there is one more than tasks.
LEMMA UnusedIsNew ==
    ASSUME TokensKept
    PROVE  /\ TP!Unused \in TP!Tokens
           /\ TP!Unused # token
           /\ \A t \in Tasks : held[t] # TP!Unused
<1> SUFFICES \E k \in TP!Tokens : k # token /\ \A t \in Tasks : held[t] # k
  BY DEF TP!Unused
<1>1. IsFiniteSet(Tasks) /\ Cardinality(Tasks) \in Nat
  BY ClientAssumption, FS_CardinalityType
<1>2. PICK u : token # TP!NoToken => u \in Tasks /\ held[u] \in {TP!NoToken, token}
  BY DEF TokensKept, TokenIsHeld
<1> DEFINE spent == [t \in Tasks |-> IF token # TP!NoToken /\ t = u THEN token ELSE held[t]]
           Spent == {spent[t] : t \in Tasks}
<1>3. IsFiniteSet(Spent) /\ Cardinality(Spent) <= Cardinality(Tasks)
  <2>1. spent \in Surjection(Tasks, Spent)
    BY DEF Surjection
  <2> HIDE DEF spent, Spent
  <2> QED BY <1>1, <2>1, FS_Surjection
<1>4. IsFiniteSet(TP!Tokens) /\ Cardinality(TP!Tokens) = Cardinality(Tasks) + 1
  <2> DEFINE n == Cardinality(Tasks) + 1
  <2>1. n \in Nat /\ n >= 1 /\ TP!Tokens = 1..n
    BY <1>1, SameCardinality DEF TP!Tokens
  <2> HIDE DEF n
  <2>2. IsFiniteSet(1..n) /\ Cardinality(1..n) = n
    BY <2>1, FS_Interval
  <2> QED BY <2>1, <2>2 DEF n
<1>5. PICK k \in TP!Tokens : k \notin Spent
  <2>1. ~(TP!Tokens \subseteq Spent)
    <3> HIDE DEF Spent
    <3> SUFFICES ASSUME TP!Tokens \subseteq Spent PROVE FALSE
      OBVIOUS
    <3>1. Cardinality(TP!Tokens) <= Cardinality(Spent)
      BY <1>3, FS_Subset
    <3>2. Cardinality(Spent) \in Nat
      BY <1>3, FS_CardinalityType
    <3> QED BY <1>1, <1>3, <1>4, <3>1, <3>2
  <2> QED BY <2>1
<1>6. k # TP!NoToken
  BY <1>1 DEF TP!Tokens, TP!NoToken
<1>7. k # token
  <2>1. CASE token = TP!NoToken
    BY <1>6, <2>1
  <2>2. CASE token # TP!NoToken
    BY <1>2, <1>5, <2>2
  <2> QED BY <2>1, <2>2
<1>8. ASSUME NEW t \in Tasks PROVE held[t] # k
  <2>1. CASE token # TP!NoToken /\ t = u
    BY <1>2, <1>6, <1>7, <2>1
  <2>2. CASE ~(token # TP!NoToken /\ t = u)
    BY <1>5, <2>2
  <2> QED BY <2>1, <2>2
<1> QED BY <1>7, <1>8

\* The steps of the token provider, by what they do to the token and to what is held of it.

\* Usable or not, a request takes the current token when it is in no line to drop it.
LEMMA TakingKeeps ==
    ASSUME NEW t \in Tasks, TokensKept, TP!Hold(t, token), dropping' \subseteq dropping \ {t},
           UNCHANGED <<token, renewIn, failure, failedFor, down, fresh, sinceCall>>
    PROVE  TokensKept'
  BY DEF TokensKept, TokenValues, FailureIsDated, FreshIsUsable, RejectedIsOld, TokenIsHeld,
         TP!Hold, TP!Usable

LEMMA ReleasingKeeps ==
    ASSUME NEW t \in Tasks, TokensKept, TP!Hold(t, TP!NoToken), dropping' \subseteq dropping,
           UNCHANGED <<token, renewIn, failure, failedFor, down, sinceCall>>,
           fresh' \in BOOLEAN, fresh' => fresh
    PROVE  TokensKept'
<1>1. /\ held' \in [Tasks -> TP!Tokens \cup {TP!NoToken}]
      /\ \A u \in Tasks : held'[u] = IF u = t THEN TP!NoToken ELSE held[u]
  BY DEF TokensKept, TokenValues, TP!Hold
<1>2. fresh' => fresh
  OBVIOUS
<1>3. FreshIsUsable' /\ FailureIsDated'
  BY <1>2 DEF TokensKept, FreshIsUsable, FailureIsDated, TP!Usable
<1>4. ASSUME NEW u \in dropping', held'[u] = token' PROVE ~fresh'
  <2>0. u \in Tasks /\ u \in dropping
    BY DEF TokensKept, TokenValues
  <2>1. CASE u = t
    BY <1>1, <1>3, <1>4, <2>0, <2>1 DEF FreshIsUsable, TP!Usable
  <2>2. CASE u # t
    BY <1>1, <1>2, <1>4, <2>0, <2>2 DEF TokensKept, RejectedIsOld
  <2> QED BY <2>1, <2>2
<1>5. RejectedIsOld'
  BY <1>4 DEF RejectedIsOld, TokensKept, TokenValues
<1>6. TokenIsHeld'
  BY <1>1 DEF TokensKept, TokenIsHeld
<1> QED BY <1>1, <1>2, <1>3, <1>5, <1>6 DEF TokensKept, TokenValues

LEMMA IssuingKeeps ==
    ASSUME NEW t \in Tasks, NEW lifetime \in Lifetimes, TokensKept, TP!Issued(t, lifetime),
           dropping' \subseteq dropping \ {t}, fresh' = (lifetime > 0),
           UNCHANGED <<down, sinceCall>>
    PROVE  TokensKept'
<1>1. /\ TP!Unused \in TP!Tokens
      /\ \A u \in Tasks : held[u] # TP!Unused
  BY UnusedIsNew
<1>2. /\ token' = TP!Unused /\ renewIn' = lifetime /\ failure' = "none" /\ failedFor' = failedFor
      /\ held' = [held EXCEPT ![t] = TP!Unused]
  BY DEF TP!Issued, TP!Hold
<1>3. lifetime \in Nat /\ TP!Unused # TP!NoToken
  BY <1>1, ClientAssumption, FS_CardinalityType DEF TP!Tokens, TP!NoToken
<1>4. /\ held' \in [Tasks -> TP!Tokens \cup {TP!NoToken}]
      /\ held'[t] = token' /\ \A u \in Tasks \ {t} : held'[u] # token'
  BY <1>1, <1>2 DEF TokensKept, TokenValues
<1>5. FreshIsUsable' /\ FailureIsDated'
  BY <1>2, <1>3 DEF FreshIsUsable, FailureIsDated, TP!Usable, TP!NoToken
<1>6. dropping' \subseteq Tasks /\ t \notin dropping'
  BY DEF TokensKept, TokenValues
<1>7. RejectedIsOld'
  BY <1>4, <1>6 DEF RejectedIsOld
<1>8. TokenIsHeld'
  BY <1>4 DEF TokenIsHeld
<1>9. fresh' \in BOOLEAN
  OBVIOUS
<1> QED BY <1>1, <1>2, <1>3, <1>4, <1>5, <1>6, <1>7, <1>8, <1>9 DEF TokensKept, TokenValues

LEMMA FailingKeeps ==
    ASSUME NEW t \in Tasks, NEW kind \in {"refused", "unreachable"}, TokensKept,
           TP!Failed(t, kind), dropping' \subseteq dropping, sinceCall' = 0,
           UNCHANGED <<down, fresh>>
    PROVE  TokensKept'
<1>1. /\ held' \in [Tasks -> TP!Tokens \cup {TP!NoToken}]
      /\ \A u \in Tasks : held'[u] = IF u = t THEN TP!NoToken ELSE held[u]
  BY DEF TokensKept, TokenValues, TP!Failed, TP!Hold
<1>2. /\ token' = token /\ renewIn' = renewIn
      /\ failure' = kind /\ failedFor' = FailureBackoff
  BY DEF TP!Failed
<1>3. FreshIsUsable' /\ FailureIsDated'
  BY <1>2, ClientAssumption DEF TokensKept, FreshIsUsable, FailureIsDated, TP!Usable
<1>4. ASSUME NEW u \in dropping', held'[u] = token' PROVE ~fresh'
  <2>1. u \in Tasks /\ u \in dropping
    BY DEF TokensKept, TokenValues
  <2>2. CASE u = t
    BY <1>1, <1>3, <1>4, <2>1, <2>2 DEF FreshIsUsable, TP!Usable
  <2>3. CASE u # t
    BY <1>1, <1>2, <1>4, <2>1, <2>3 DEF TokensKept, RejectedIsOld
  <2> QED BY <2>2, <2>3
<1>5. RejectedIsOld'
  BY <1>4 DEF RejectedIsOld
<1>6. TokenIsHeld'
  BY <1>1, <1>2 DEF TokensKept, TokenIsHeld
<1>7. FailureBackoff \in 0..FailureBackoff /\ 0 \in 0..FailureBackoff
  BY ClientAssumption
<1> QED BY <1>1, <1>2, <1>3, <1>5, <1>6, <1>7 DEF TokensKept, TokenValues

\* A token that was rejected is dropped only while it is the current one, which is not
\* fresh then.
LEMMA DroppingKeeps ==
    ASSUME NEW t \in Tasks, TokensKept, TP!Drop(t), dropping' \subseteq dropping,
           UNCHANGED <<down, fresh, sinceCall>>
    PROVE  TokensKept'
<1>1. CASE held[t] # token
  <2>1. fresh' \in BOOLEAN /\ (fresh' => fresh)
    BY DEF TokensKept, TokenValues
  <2> QED BY <1>1, <2>1, ReleasingKeeps DEF TP!Drop
<1>2. CASE held[t] = token
  <2>1. /\ token' = TP!NoToken /\ renewIn' = 0 /\ failure' = failure /\ failedFor' = failedFor
        /\ held' = [held EXCEPT ![t] = TP!NoToken] /\ t \in dropping
    BY <1>2 DEF TP!Drop, TP!Hold
  <2>2. ~fresh'
    BY <1>2, <2>1 DEF TokensKept, RejectedIsOld
  <2> QED BY <2>1, <2>2 DEF TokensKept, TokenValues, FailureIsDated, FreshIsUsable, RejectedIsOld,
                            TokenIsHeld
<1> QED BY <1>1, <1>2

LEMMA RejectingKeeps ==
    ASSUME NEW t \in Tasks, TokensKept, TP!Reject(t), fresh' = (fresh /\ held[t] # token),
           UNCHANGED <<down, sinceCall>>
    PROVE  TokensKept'
<1>1. UNCHANGED <<token, renewIn, failure, failedFor, held>> /\ dropping' = dropping \cup {t}
  BY DEF TP!Reject
<1>2. RejectedIsOld'
  BY <1>1 DEF TokensKept, RejectedIsOld
<1>3. fresh' \in BOOLEAN /\ FreshIsUsable' /\ FailureIsDated' /\ TokenIsHeld'
  BY <1>1 DEF TokensKept, FreshIsUsable, FailureIsDated, TokenIsHeld, TP!Usable
<1> QED BY <1>1, <1>2, <1>3 DEF TokensKept, TokenValues

LEMMA StandingKeeps ==
    ASSUME TokensKept, dropping' \subseteq dropping,
           UNCHANGED <<token, renewIn, failure, failedFor, held, fresh, sinceCall>>,
           down' \subseteq {"data", "token"}
    PROVE  TokensKept'
  BY DEF TokensKept, TokenValues, FailureIsDated, FreshIsUsable, RejectedIsOld, TokenIsHeld, TP!Usable

\* The clock takes from the remembered failure no more than it adds to its age.
LEMMA ClockKeeps == ASSUME TokensKept, Clock PROVE TokensKept'
<1>1. /\ renewIn' = TP!Less(renewIn) /\ failedFor' = TP!Less(failedFor)
      /\ UNCHANGED <<token, failure, dropping, held, down>>
      /\ fresh' = (fresh /\ renewIn > 1)
      /\ sinceCall' = IF sinceCall < FailureBackoff THEN sinceCall + 1 ELSE sinceCall
  BY DEF Clock, TP!Age
<1>2. renewIn \in Nat /\ failedFor \in 0..FailureBackoff /\ sinceCall \in 0..FailureBackoff
  BY DEF TokensKept, TokenValues
<1>3. renewIn' \in Nat /\ failedFor' \in 0..FailureBackoff /\ sinceCall' \in 0..FailureBackoff
  BY <1>1, <1>2, ClientAssumption DEF TP!Less
<1>4. FailureIsDated'
  BY <1>1, <1>2, ClientAssumption DEF TokensKept, FailureIsDated, TP!Less
<1>5. fresh' \in BOOLEAN /\ FreshIsUsable'
  <2>1. (fresh' => fresh) /\ (fresh' => renewIn > 1) /\ fresh' \in BOOLEAN
    BY <1>1
  <2>2. renewIn > 1 => renewIn' > 0
    BY <1>1, <1>2 DEF TP!Less
  <2>3. fresh' => token' # TP!NoToken
    BY <1>1, <2>1 DEF TokensKept, FreshIsUsable, TP!Usable
  <2> QED BY <2>1, <2>2, <2>3 DEF FreshIsUsable, TP!Usable
<1>6. RejectedIsOld' /\ TokenIsHeld'
  BY <1>1 DEF TokensKept, RejectedIsOld, TokenIsHeld
<1> QED BY <1>1, <1>3, <1>4, <1>5, <1>6 DEF TokensKept, TokenValues

---------------------------------------------------------------------------
(* The steps of the client. *)

ClientInv == IInv /\ LineKept /\ TokensKept

LEMMA ClientParts == LineKept /\ TokensKept /\ IInv => ClientTypeOK
  BY DEF LineKept, TokensKept, TokenValues, IInv, ClientTypeOK, TP!TokenTypeOK, TP!IsInjective,
         IsInjective

LEMMA ClientInitially == ClientInit => ClientInv
<1> SUFFICES ASSUME ClientInit PROVE ClientInv
  OBVIOUS
<1>1. IInv
  BY Initially DEF ClientInit
<1>2. LineKept
  <2>1. line = <<>> /\ generating = FALSE /\ dropping = {}
    BY DEF ClientInit, TP!Init
  <2>2. line \in Seq(Tasks) /\ DOMAIN line = {}
    BY <2>1
  <2>3. IsInjective(line) /\ \A t \in Tasks : ~TP!InLine(t)
    BY <2>2 DEF TP!InLine, IsInjective
  <2> QED BY <2>1, <2>2, <2>3 DEF LineKept
<1>3. TokensKept
  <2>1. /\ token = TP!NoToken /\ renewIn = 0 /\ failure = "none" /\ failedFor = 0
        /\ held = [t \in Tasks |-> TP!NoToken] /\ dropping = {}
        /\ down = {} /\ fresh = FALSE /\ sinceCall = FailureBackoff
    BY DEF ClientInit, TP!Init
  <2>2. FailureBackoff \in 0..FailureBackoff /\ 0 \in 0..FailureBackoff
    BY ClientAssumption
  <2>3. TokenValues
    BY <2>1, <2>2 DEF TokenValues
  <2>4. FailureIsDated /\ FreshIsUsable /\ RejectedIsOld /\ TokenIsHeld
    BY <2>1 DEF FailureIsDated, FreshIsUsable, RejectedIsOld, TokenIsHeld
  <2> QED BY <2>3, <2>4 DEF TokensKept
<1> QED BY <1>1, <1>2, <1>3 DEF ClientInv


LEMMA ForgetKeeps ==
    ASSUME NEW t \in Tasks, LineKept, TokensKept, TP!Forget(t),
           \A u \in Tasks \ {t} : pc'[u] = pc[u],
           fresh' \in BOOLEAN, fresh' => fresh, UNCHANGED <<down, sinceCall>>
    PROVE  LineKept' /\ TokensKept'
<1>1. dropping' \subseteq dropping
  BY DEF TP!Forget, TP!Leave
<1>2. TokensKept'
  BY <1>1, ReleasingKeeps DEF TP!Forget
<1>3. LineKept'
  <2>1. CASE TP!InLine(t)
    BY <2>1, LeaveKeepsLine DEF TP!Forget
  <2>2. CASE ~TP!InLine(t)
    <3>1. UNCHANGED <<line, generating, dropping>>
      BY <2>2 DEF TP!Forget
    <3> QED BY <2>2, <3>1, LineStays
  <2> QED BY <2>1, <2>2
<1> QED BY <1>2, <1>3

LEMMA HolderIsInLine ==
    ASSUME NEW t \in Tasks, LineKept, line # <<>>, Head(line) = t
    PROVE  TP!InLine(t)
<1>1. line \in Seq(Tasks) /\ 1 \in DOMAIN line /\ line[1] = t
  BY DEF LineKept
<1> QED BY <1>1 DEF TP!InLine

\* The places that a request's step leads to.
LEMMA Moved ==
    ASSUME NEW t \in Tasks, IInv, NEW place \in Places, Goto(t, place)
    PROVE  pc'[t] = place /\ \A u \in Tasks \ {t} : pc'[u] = pc[u]
  BY DEF IInv, TypeOK, Goto

LEMMA Finished ==
    ASSUME NEW t \in Tasks, IInv, Finish(t)
    PROVE  pc'[t] = Idle /\ \A u \in Tasks \ {t} : pc'[u] = pc[u]
  BY Moved DEF Finish, Places

LEMMA ContinueKeeps ==
    ASSUME NEW t \in Tasks, ClientInv, Continue(t)
    PROVE  LineKept' /\ TokensKept'
<1>0. IInv /\ LineKept /\ TokensKept
  BY DEF ClientInv
<1>1. CASE UseToken(t)
  <2>1. /\ Goto(t, Queued) /\ UNCHANGED <<down, fresh, sinceCall>>
        /\ TP!Have(t) \/ TP!Recheck(t)
    BY <1>1 DEF UseToken, TokenReady, Same
  <2>2. \A u \in Tasks \ {t} : pc'[u] = pc[u]
    BY <1>0, <2>1, Moved DEF Places
  <2>3. CASE TP!Have(t)
    <3>1. UNCHANGED <<line, generating, dropping>> /\ ~TP!InLine(t)
      BY <2>3 DEF TP!Have
    <3>2. t \notin dropping
      BY <1>0, <3>1 DEF LineKept
    <3>3. TokensKept'
      BY <1>0, <2>1, <2>3, <3>1, <3>2, TakingKeeps DEF TP!Have
    <3> QED BY <1>0, <2>2, <3>1, <3>3, LineStays
  <2>4. CASE TP!Recheck(t)
    <3>1. LineKept' /\ dropping' \subseteq dropping \ {t}
      BY <1>0, <2>2, <2>4, LeaveKeepsLine DEF TP!Recheck, TP!Leave
    <3> QED BY <1>0, <2>1, <2>4, <3>1, TakingKeeps DEF TP!Recheck
  <2> QED BY <2>1, <2>3, <2>4
<1>2. CASE UseNewToken(t)
  <2>1. PICK lifetime \in Lifetimes : TP!Issued(t, lifetime) /\ fresh' = (lifetime > 0)
    BY <1>2 DEF UseNewToken
  <2>2. Goto(t, Queued) /\ UNCHANGED <<down, sinceCall>>
    BY <1>2 DEF UseNewToken, TokenReady
  <2>3. LineKept' /\ dropping' \subseteq dropping \ {t}
    BY <1>0, <2>1, <2>2, Moved, LeaveKeepsLine DEF TP!Issued, TP!Leave, Places
  <2> QED BY <1>0, <2>1, <2>2, <2>3, IssuingKeeps
<1>3. CASE RaiseRemembered(t)
  <2>1. Finish(t) /\ TP!Remembered(t) /\ UNCHANGED <<down, fresh, sinceCall>>
    BY <1>3 DEF RaiseRemembered, RaiseFailure, TokenRefused, TokenUnavailable, Same
  <2>2. LineKept' /\ dropping' \subseteq dropping
    BY <1>0, <2>1, Finished, LeaveKeepsLine DEF TP!Remembered, TP!Leave
  <2>3. fresh' \in BOOLEAN /\ (fresh' => fresh)
    BY <1>0, <2>1 DEF TokensKept, TokenValues
  <2> QED BY <1>0, <2>1, <2>2, <2>3, ReleasingKeeps DEF TP!Remembered
<1>4. CASE RaiseNew(t)
  <2>1. PICK kind \in {"refused", "unreachable"} : TP!Failed(t, kind) /\ RaiseFailure(t, kind)
    BY <1>4 DEF RaiseNew
  <2>2. Finish(t) /\ sinceCall' = 0 /\ UNCHANGED <<down, fresh>>
    BY <1>4, <2>1 DEF RaiseNew, RaiseFailure, TokenRefused, TokenUnavailable
  <2>3. LineKept' /\ dropping' \subseteq dropping
    BY <1>0, <2>1, <2>2, Finished, LeaveKeepsLine DEF TP!Failed, TP!Leave
  <2> QED BY <1>0, <2>1, <2>2, <2>3, FailingKeeps
<1>5. CASE Await(t)
  <2>1. /\ pc[t] = Headers /\ pc' = pc /\ UNCHANGED <<down, fresh, sinceCall>>
        /\ TP!Wait(t) \/ TP!Generate(t) \/ TP!Drop(t)
    BY <1>5 DEF Await, Same, vars
  <2>2. CASE TP!Wait(t)
    <3>1. LineKept'
      BY <1>0, <2>1, <2>2, JoinKeepsLine DEF TP!Wait
    <3> QED BY <1>0, <2>1, <2>2, <3>1, StandingKeeps DEF TP!Wait, TokensKept, TokenValues
  <2>3. CASE TP!Generate(t)
    <3>1. LineKept'
      BY <1>0, <2>1, <2>3 DEF TP!Generate, TP!HasLock, LineKept, TP!InLine
    <3> QED BY <1>0, <2>1, <2>3, <3>1, StandingKeeps DEF TP!Generate, TokensKept, TokenValues
  <2>4. CASE TP!Drop(t)
    <3>1. LineKept' /\ dropping' \subseteq dropping
      BY <1>0, <2>1, <2>4, LeaveKeepsLine DEF TP!Drop, TP!Leave
    <3> QED BY <1>0, <2>1, <2>4, <3>1, DroppingKeeps
  <2> QED BY <2>1, <2>2, <2>3, <2>4
<1>6. CASE Rejected(t)
  <2>1. /\ pc[t] = Sending /\ fresh' = (fresh /\ held[t] # token) /\ UNCHANGED <<down, sinceCall>>
        /\ (Finish(t) /\ TP!Forget(t)) \/ (Goto(t, Headers) /\ TP!Reject(t))
    <3>1. CASE renewed[t]
      BY <1>6, <3>1 DEF Rejected, TokenRejected
    <3>2. CASE ~renewed[t]
      BY <1>6, <3>2 DEF Rejected, TokenRejected
    <3> QED BY <3>1, <3>2
  <2>2. fresh' \in BOOLEAN /\ (fresh' => fresh)
    BY <2>1
  <2>3. CASE Finish(t) /\ TP!Forget(t)
    BY <1>0, <2>1, <2>2, <2>3, Finished, ForgetKeeps
  <2>4. CASE Goto(t, Headers) /\ TP!Reject(t)
    <3>1. ~TP!InLine(t)
      BY <1>0, <2>1 DEF LineKept, Sending, Headers
    <3>2. LineKept'
      BY <1>0, <2>4, <3>1, Moved, JoinKeepsLine DEF TP!Reject, Places
    <3> QED BY <1>0, <2>1, <2>4, <3>2, RejectingKeeps
  <2> QED BY <2>1, <2>3, <2>4
<1>7. CASE Answer(t)
  <2>1. TP!Forget(t) /\ UNCHANGED <<down, fresh, sinceCall>>
    BY <1>7 DEF Answer, Same
  <2>2. \A u \in Tasks \ {t} : pc'[u] = pc[u]
    BY <1>0, <1>7, Finished, Moved
    DEF Answer, AnswerOk, AnswerError, SlotTimeout, ReadTimeout, RetryableFailure, Places
  <2>3. fresh' \in BOOLEAN /\ (fresh' => fresh)
    BY <1>0, <2>1 DEF TokensKept, TokenValues
  <2> QED BY <1>0, <2>1, <2>2, <2>3, ForgetKeeps
<1>8. CASE Proceed(t)
  <2>1. /\ pc[t] # Headers /\ UNCHANGED tokens /\ UNCHANGED <<down, fresh, sinceCall>>
        /\ Goto(t, Sending) \/ Goto(t, Headers)
    BY <1>8 DEF Proceed, GetSlot, Retry, Same, Queued, Backoff, Headers
  <2>2. \A u \in Tasks : TP!InLine(u) => pc'[u] = pc[u]
    BY <1>0, <2>1, Moved DEF LineKept, Places
  <2>3. LineKept'
    BY <1>0, <2>1, <2>2, LineStays DEF tokens
  <2> QED BY <1>0, <2>1, <2>3, StandingKeeps DEF tokens, TokensKept, TokenValues
<1> QED BY <1>1, <1>2, <1>3, <1>4, <1>5, <1>6, <1>7, <1>8 DEF Continue

LEMMA ClientStep == ClientInv /\ [ClientNext]_clientVars => ClientInv'
<1> SUFFICES ASSUME ClientInv, [ClientNext]_clientVars PROVE ClientInv'
  OBVIOUS
<1>0. IInv /\ LineKept /\ TokensKept
  BY DEF ClientInv
<1>1. IInv'
  BY <1>0, ClientStepsAreSteps, Step
<1>2. CASE Clock
  <2>1. UNCHANGED <<pc, line, generating, dropping>>
    BY <1>2 DEF Clock, Tick, vars, TP!Age
  <2>2. LineKept'
    BY <1>0, <2>1, LineStays
  <2> QED BY <1>0, <1>1, <1>2, <2>2, ClockKeeps DEF ClientInv
<1>3. ASSUME NEW service \in {"data", "token"}, Outage(service) PROVE ClientInv'
  <2>1. UNCHANGED <<vars, tokens, fresh, sinceCall>> /\ down' \subseteq {"data", "token"}
    BY <1>0, <1>3 DEF Outage, TokensKept, TokenValues
  <2>2. LineKept'
    BY <1>0, <2>1, LineStays DEF vars, tokens
  <2> QED BY <1>0, <1>1, <2>1, <2>2, StandingKeeps DEF ClientInv, tokens
<1>4. ASSUME NEW t \in Tasks, Call(t) PROVE ClientInv'
  <2>1. /\ UNCHANGED tokens /\ UNCHANGED <<down, fresh, sinceCall>>
        /\ pc' = pc \/ (pc[t] = Idle /\ Goto(t, Headers))
    <3>1. CASE Enter(t)
      BY <1>4, <3>1 DEF Call, Enter, Same
    <3>2. CASE EnterRefused(t)
      BY <1>4, <3>2 DEF Call, EnterRefused, vars, Same
    <3> QED BY <1>4, <3>1, <3>2 DEF Call
  <2>2. \A u \in Tasks : TP!InLine(u) => pc'[u] = pc[u]
    BY <1>0, <2>1, Moved DEF LineKept, Places, Idle, Headers
  <2>3. LineKept'
    BY <1>0, <2>1, <2>2, LineStays DEF tokens
  <2> QED BY <1>0, <1>1, <2>1, <2>3, StandingKeeps DEF ClientInv, tokens, TokensKept, TokenValues
<1>5. ASSUME NEW t \in Tasks, Continue(t) PROVE ClientInv'
  BY <1>1, <1>5, ContinueKeeps DEF ClientInv
<1>6. ASSUME NEW t \in Tasks, Cancelled(t) PROVE ClientInv'
  <2>1. Finish(t) /\ TP!Forget(t) /\ UNCHANGED <<down, fresh, sinceCall>>
    BY <1>6 DEF Cancelled, Cancel, Same
  <2>2. fresh' \in BOOLEAN /\ (fresh' => fresh)
    BY <1>0, <2>1 DEF TokensKept, TokenValues
  <2> QED BY <1>0, <1>1, <2>1, <2>2, Finished, ForgetKeeps DEF ClientInv
<1>7. CASE UNCHANGED clientVars
  <2>1. LineKept'
    BY <1>0, <1>7, LineStays DEF clientVars, vars, tokens
  <2> QED BY <1>0, <1>1, <1>7, <2>1, StandingKeeps
          DEF ClientInv, clientVars, tokens, TokensKept, TokenValues
<1> QED BY <1>2, <1>3, <1>4, <1>5, <1>6, <1>7 DEF ClientNext

LEMMA ClientInvariance == ClientSpec => []ClientInv
  BY ClientInitially, ClientStep, PTL DEF ClientSpec

\* Type correctness of the client: of the breaker, of the token and of the line for it.
THEOREM ClientTypeCorrect == ClientSpec => []ClientTypeOK
<1>1. ClientInv => ClientTypeOK
  BY ClientParts DEF ClientInv
<1> QED BY <1>1, ClientInvariance, PTL

LEMMA RenewalIsDue == ClientInv => [\A t \in Tasks : TP!Generate(t) => ~fresh]_clientVars
  BY DEF ClientInv, TokensKept, FreshIsUsable, TP!Generate

\* A token that nobody has rejected and that is not due is never renewed, however late
\* the rejections of the tokens before it are noticed.
THEOREM OneRenewalPerTokenHolds == ClientSpec => OneRenewalPerToken
  BY RenewalIsDue, ClientInvariance, PTL DEF OneRenewalPerToken

LEMMA FailureIsRemembered ==
    ClientInv =>
        [\A t \in Tasks : TP!Generate(t) => failure = "none" \/ sinceCall >= FailureBackoff]_clientVars
  BY ClientAssumption DEF ClientInv, TokensKept, TokenValues, FailureIsDated, TP!Generate, TP!Remembers

\* After a failed call the token service is left alone for the backoff time, by any
\* number of requests.
THEOREM FailingServiceIsSparedHolds == ClientSpec => FailingServiceIsSpared
  BY FailureIsRemembered, ClientInvariance, PTL DEF FailingServiceIsSpared
=============================================================================
