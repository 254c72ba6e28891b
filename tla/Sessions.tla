------------------------------ MODULE Sessions ------------------------------
(***************************************************************************)
(* The sessions of one account: sign-in, sign-out, the change of the       *)
(* password, its reset by an emailed code, and the lock of the account.    *)
(* changePassword, disableUser and the flows of the auth library are       *)
(* actions: each of their calls is a transaction of its own, anything may  *)
(* happen in between, and the rest may never run.                          *)
(***************************************************************************)
EXTENDS Integers, FiniteSets

CONSTANTS
    SessionIds,   \* sessions, each created at most once
    MaxPasswords, \* bound: passwords the account may have one after the other
    MaxCodes      \* bound: reset codes sent

ASSUME SessionsAssumption == MaxPasswords \in Nat \ {0} /\ MaxCodes \in Nat

VARIABLES
    password,  \* the account's secret, numbered
    session,   \* what there is of each session: "none", "verified" (a sign-in that has
               \* checked the password), "stored" or "ended"
    changing,  \* where a session's change of the password is: "no", "checked", "changed"
    codes,     \* reset codes sent and not used, and those sent so far
    locked,    \* disabledAt
    locking,   \* disableUser has locked the account and not ended its sessions
    basis,     \* history: the password a session was opened with, or kept for
    late,      \* history: sign-ins that had checked the password when it changed
    unfinished \* history: a change died between the new password and the end of the sessions

sessionVars == <<password, session, changing, codes, locked, locking, basis, late, unfinished>>

SessionsInit ==
    /\ password = 1
    /\ session = [s \in SessionIds |-> "none"]
    /\ changing = [s \in SessionIds |-> "no"]
    /\ codes = [live |-> 0, sent |-> 0]
    /\ locked = FALSE /\ locking = FALSE
    /\ basis = [s \in SessionIds |-> 0] /\ late = {} /\ unfinished = FALSE

\* isSessionActive: it exists, has not expired, and the account is not locked.
isSessionActive(s) == session[s] = "stored" /\ ~locked

Set(s, state) == session' = [session EXCEPT ![s] = state]

---------------------------------------------------------------------------
(* Sign-in and sign-out, of the auth library. *)

\* The password is checked in one transaction and the session stored in another.  The
\* library does not look at the lock.
SignInVerified(s) ==
    /\ session[s] = "none"
    /\ Set(s, "verified") /\ basis' = [basis EXCEPT ![s] = password]
    /\ UNCHANGED <<password, changing, codes, locked, locking, late, unfinished>>

SignInStored(s) ==
    /\ session[s] = "verified" /\ Set(s, "stored")
    /\ UNCHANGED <<password, changing, codes, locked, locking, basis, late, unfinished>>

\* Signed out, or past its expiration time.
SignOut(s) ==
    /\ session[s] = "stored" /\ Set(s, "ended")
    /\ UNCHANGED <<password, changing, codes, locked, locking, basis, late, unfinished>>

---------------------------------------------------------------------------
(* The change of the password. *)

\* changePassword: an active session, and the current password typed once more.
ChangeChecked(s) ==
    /\ isSessionActive(s) /\ changing[s] = "no" /\ password < MaxPasswords
    /\ changing' = [changing EXCEPT ![s] = "checked"]
    /\ UNCHANGED <<password, session, codes, locked, locking, basis, late, unfinished>>

\* modifyAccountCredentials does not ask whether the password is still the checked one.
ChangeStored(s) ==
    /\ changing[s] = "checked" /\ password < MaxPasswords
    /\ password' = password + 1
    /\ changing' = [changing EXCEPT ![s] = "changed"]
    /\ late' = late \cup {o \in SessionIds : session[o] = "verified"}
    /\ UNCHANGED <<session, codes, locked, locking, basis, unfinished>>

EndOthers(kept) ==
    session' = [o \in SessionIds |-> IF session[o] = "stored" /\ o \notin kept
                                     THEN "ended" ELSE session[o]]

\* Mutant: only the sessions that are active are ended.
ChangeDoneActive(s) ==
    /\ changing[s] = "changed"
    /\ session' = [o \in SessionIds |-> IF isSessionActive(o) /\ o # s THEN "ended" ELSE session[o]]
    /\ changing' = [changing EXCEPT ![s] = "no"]
    /\ basis' = [basis EXCEPT ![s] = password]
    /\ unfinished' = FALSE
    /\ UNCHANGED <<password, codes, locked, locking, late>>

\* invalidateSessions spares the session that asked for the change.
ChangeDone(s) ==
    /\ changing[s] = "changed"
    /\ EndOthers({s})
    /\ changing' = [changing EXCEPT ![s] = "no"]
    /\ basis' = [basis EXCEPT ![s] = password]
    /\ unfinished' = FALSE
    /\ UNCHANGED <<password, codes, locked, locking, late>>

\* The action dies, or one of its calls fails.
ChangeDies(s) ==
    /\ changing[s] # "no"
    /\ changing' = [changing EXCEPT ![s] = "no"]
    /\ unfinished' = (unfinished \/ changing[s] = "changed")
    /\ UNCHANGED <<password, session, codes, locked, locking, basis, late>>

---------------------------------------------------------------------------
(* The reset: a code is sent, whether or not the email arrives; a new one replaces the
   old; a right one opens a session, and that session changes the password. *)

SendCode ==
    /\ codes.sent < MaxCodes
    /\ codes' = [live |-> 1, sent |-> codes.sent + 1]
    /\ UNCHANGED <<password, session, changing, locked, locking, basis, late, unfinished>>

CodeExpires ==
    /\ codes.live = 1 /\ codes' = [codes EXCEPT !.live = 0]
    /\ UNCHANGED <<password, session, changing, locked, locking, basis, late, unfinished>>

UseCode(s) ==
    /\ codes.live = 1 /\ session[s] = "none" /\ password < MaxPasswords
    /\ codes' = [codes EXCEPT !.live = 0]
    /\ Set(s, "stored") /\ basis' = [basis EXCEPT ![s] = password]
    /\ changing' = [changing EXCEPT ![s] = "checked"]
    /\ UNCHANGED <<password, locked, locking, late, unfinished>>

---------------------------------------------------------------------------
(* The lock. *)

LockAccount ==
    /\ ~locking /\ locked' = TRUE /\ locking' = TRUE
    /\ UNCHANGED <<password, session, changing, codes, basis, late, unfinished>>

\* disableUser goes on, or dies between its calls.
LockEnds ==
    /\ locking /\ locking' = FALSE
    /\ EndOthers({}) \/ UNCHANGED session
    /\ UNCHANGED <<password, changing, codes, locked, basis, late, unfinished>>

UnlockAccount ==
    /\ locked /\ locked' = FALSE
    /\ UNCHANGED <<password, session, changing, codes, locking, basis, late, unfinished>>

SessionsNext ==
    \/ SendCode \/ CodeExpires \/ LockAccount \/ LockEnds \/ UnlockAccount
    \/ \E s \in SessionIds :
          \/ SignInVerified(s) \/ SignInStored(s) \/ SignOut(s)
          \/ ChangeChecked(s) \/ ChangeStored(s) \/ ChangeDone(s) \/ ChangeDies(s) \/ UseCode(s)

SessionsSpec == SessionsInit /\ [][SessionsNext]_sessionVars

---------------------------------------------------------------------------
(* Properties. *)

SessionsTypeOK ==
    /\ password \in 1..MaxPasswords
    /\ session \in [SessionIds -> {"none", "verified", "stored", "ended"}]
    /\ changing \in [SessionIds -> {"no", "checked", "changed"}]
    /\ codes \in [live : 0..1, sent : 0..MaxCodes]
    /\ locked \in BOOLEAN /\ locking \in BOOLEAN /\ unfinished \in BOOLEAN
    /\ basis \in [SessionIds -> 0..MaxPasswords] /\ late \subseteq SessionIds

\* Once a change or a reset of the password is complete, no session of an older password
\* is left, also when changes overlap or the account is locked and unlocked meanwhile.
\* Excepted are sign-ins that had checked the password before it changed.
OldSessionsEnd ==
    (\A s \in SessionIds : changing[s] = "no") /\ ~unfinished =>
        \A s \in SessionIds : isSessionActive(s) => basis[s] = password \/ s \in late
=============================================================================
