---------------------------- MODULE TokenProvider ----------------------------
(***************************************************************************)
(* The generated token of the ArcGIS client: one renewal for all waiting   *)
(* requests under an asyncio.Lock, a failed renewal remembered for a short *)
(* while, and the invalidation of a token the data service rejected.  The  *)
(* lock is first come, first served: its line of tasks, holder first.      *)
(***************************************************************************)
EXTENDS Integers, Sequences, SequencesExt

CONSTANTS
    Tasks,          \* requests that may be in flight together
    Lifetimes,      \* ticks until renewal that an issued token may have
    FailureBackoff  \* FAILURE_BACKOFF_SECONDS, in ticks of the model

VARIABLES
    token,      \* _token: an identity in Tokens, or NoToken
    renewIn,    \* time left until _renew_at
    failure,    \* _last_failure
    failedFor,  \* time left until _failed_until
    line,       \* who holds and who awaits _lock
    generating, \* the holder awaits _generate
    dropping,   \* tasks in line for invalidate, not for token
    held        \* the token a task sends with

tokenVars == <<token, renewIn, failure, failedFor, line, generating, dropping, held>>

NoToken == 0
Tokens == 1..(Cardinality(Tasks) + 1)

Init ==
    /\ token = NoToken /\ renewIn = 0
    /\ failure = "none" /\ failedFor = 0
    /\ line = <<>> /\ generating = FALSE /\ dropping = {}
    /\ held = [t \in Tasks |-> NoToken]

Usable == token # NoToken /\ renewIn > 0

\* Mutant: a failed renewal is not remembered.
NeverRemembered == FALSE

\* Mutant: a remembered failure is repeated for good.
RemembersForGood == failure # "none"

Remembers == failure # "none" /\ failedFor > 0

Unused == CHOOSE k \in Tokens : k # token /\ \A t \in Tasks : held[t] # k

InLine(t) == \E i \in DOMAIN line : line[i] = t
HasLock(t) == line # <<>> /\ Head(line) = t /\ ~generating

Hold(t, k) == held' = [held EXCEPT ![t] = k]

Leave(t) ==
    /\ \E i \in DOMAIN line : line[i] = t /\ line' = RemoveAt(line, i)
    /\ generating' = (generating /\ Head(line) # t)
    /\ dropping' = dropping \ {t}

\* token(): the path without the lock.
Have(t) ==
    /\ Usable /\ ~InLine(t) /\ Hold(t, token)
    /\ UNCHANGED <<token, renewIn, failure, failedFor, line, generating, dropping>>

Wait(t) ==
    /\ ~Usable /\ ~InLine(t)
    /\ line' = Append(line, t)
    /\ UNCHANGED <<token, renewIn, failure, failedFor, generating, dropping, held>>

\* token() with the lock: renewed meanwhile, recently failed, or to be renewed here.
Recheck(t) ==
    /\ HasLock(t) /\ t \notin dropping /\ Usable
    /\ Hold(t, token) /\ Leave(t)
    /\ UNCHANGED <<token, renewIn, failure, failedFor>>

Remembered(t) ==
    /\ HasLock(t) /\ t \notin dropping /\ ~Usable /\ Remembers
    /\ Hold(t, NoToken) /\ Leave(t)
    /\ UNCHANGED <<token, renewIn, failure, failedFor>>

Generate(t) ==
    /\ HasLock(t) /\ t \notin dropping /\ ~Usable /\ ~Remembers
    /\ generating' = TRUE
    /\ UNCHANGED <<token, renewIn, failure, failedFor, line, dropping, held>>

Issued(t, lifetime) ==
    /\ generating /\ Head(line) = t
    /\ token' = Unused /\ renewIn' = lifetime /\ failure' = "none"
    /\ Hold(t, Unused) /\ Leave(t)
    /\ UNCHANGED failedFor

\* The token service is unreachable, or refuses the credentials or answers nonsense.
Failed(t, kind) ==
    /\ generating /\ Head(line) = t
    /\ failure' = kind /\ failedFor' = FailureBackoff
    /\ Hold(t, NoToken) /\ Leave(t)
    /\ UNCHANGED <<token, renewIn>>

\* invalidate(): awaits the lock, then drops the token if it is still the rejected one.
Reject(t) ==
    /\ line' = Append(line, t) /\ dropping' = dropping \cup {t}
    /\ UNCHANGED <<token, renewIn, failure, failedFor, generating, held>>

\* Mutant: drops whatever token there is.
DropAny(t) ==
    /\ HasLock(t) /\ t \in dropping
    /\ token' = NoToken /\ renewIn' = 0
    /\ Hold(t, NoToken) /\ Leave(t)
    /\ UNCHANGED <<failure, failedFor>>

Drop(t) ==
    /\ HasLock(t) /\ t \in dropping
    /\ IF held[t] = token THEN token' = NoToken /\ renewIn' = 0 ELSE UNCHANGED <<token, renewIn>>
    /\ Hold(t, NoToken) /\ Leave(t)
    /\ UNCHANGED <<failure, failedFor>>

\* The request ended: by an answer, or cancelled anywhere, which releases the lock.
Forget(t) ==
    /\ Hold(t, NoToken)
    /\ IF InLine(t) THEN Leave(t) ELSE UNCHANGED <<line, generating, dropping>>
    /\ UNCHANGED <<token, renewIn, failure, failedFor>>

Less(n) == IF n > 0 THEN n - 1 ELSE 0

Age ==
    /\ renewIn' = Less(renewIn) /\ failedFor' = Less(failedFor)
    /\ UNCHANGED <<token, failure, line, generating, dropping, held>>

TokenTypeOK ==
    /\ token \in Tokens \cup {NoToken} /\ renewIn \in Nat
    /\ failure \in {"none", "refused", "unreachable"} /\ failedFor \in 0..FailureBackoff
    /\ line \in Seq(Tasks) /\ IsInjective(line)
    /\ generating \in BOOLEAN /\ (generating => line # <<>>)
    /\ dropping \subseteq {t \in Tasks : InLine(t)}
    /\ held \in [Tasks -> Tokens \cup {NoToken}]
=============================================================================
