------------------------------ MODULE Playground ------------------------------
(***************************************************************************)
(* The request builder of the documentation: the developer's keys, the     *)
(* short-lived token it may have to fetch first, and the request itself,   *)
(* of which only the last one counts.  The parameters, the code samples    *)
(* and the layout of the answer are left out.                              *)
(***************************************************************************)
EXTENDS Integers

CONSTANT MaxSends  \* bound: submissions of the form

ASSUME PlaygroundAssumption == MaxSends \in Nat

VARIABLES
    keys,      \* /api/playground/keys: "loading", "unusable" or "ok" with a key for this endpoint
    authMode,  \* "connected" or "paste"
    pasted,    \* a key was pasted
    authError,
    minted,    \* tokens.current has a token of the chosen key that is young enough
    stages,    \* of each submission: "free", "token", "flight" or "ended"
    cut,       \* submissions whose controller was aborted
    last,      \* abortRef: the submission whose controller it is
    pending, shown, \* the button's state and whose result is displayed
    mounted

formVars == <<keys, authMode, pasted, authError, minted>>
sendVars == <<stages, cut, last, pending, shown>>
playgroundVars == <<formVars, sendVars, mounted>>

SendIds == 1..MaxSends
NoSend == 0

PlaygroundInit ==
    /\ keys = "loading" /\ authMode = "connected" /\ pasted = FALSE /\ authError = FALSE
    /\ minted = FALSE
    /\ stages = [n \in SendIds |-> "free"] /\ cut = {} /\ last = NoSend
    /\ pending = FALSE /\ shown = NoSend /\ mounted = TRUE

Stage(n, to) == stages' = [stages EXCEPT ![n] = to]

---------------------------------------------------------------------------
(* The form. *)

\* GET of keys/route.ts, repeated when it is older than a minute.
KeysAnswer(answer) ==
    /\ keys' = answer
    /\ UNCHANGED <<authMode, pasted, authError, minted, sendVars, mounted>>

SwitchMode(m) ==
    /\ mounted /\ authMode' = m /\ authError' = FALSE
    /\ UNCHANGED <<keys, pasted, minted, sendVars, mounted>>

PasteKey ==
    /\ mounted /\ authMode = "paste" /\ pasted' = ~pasted
    /\ UNCHANGED <<keys, authMode, authError, minted, sendVars, mounted>>

\* Another key is chosen, or the token comes within a minute of its end.
TokenChanges ==
    /\ minted' = ~minted /\ UNCHANGED <<keys, authMode, pasted, authError, sendVars, mounted>>

---------------------------------------------------------------------------
(* send. *)

\* Mutant: the request before is not aborted.
DispatchKeepsLast(n) ==
    /\ Stage(n, "flight") /\ last' = n
    /\ pending' = TRUE
    /\ UNCHANGED <<shown, cut>>

\* The request before is aborted, and this one is sent.
Dispatch(n) ==
    /\ Stage(n, "flight") /\ cut' = cut \cup ({last} \ {NoSend}) /\ last' = n
    /\ pending' = TRUE
    /\ UNCHANGED shown

IsNext(n) == stages[n] = "free" /\ \A m \in SendIds : m < n => stages[m] # "free"

NotSent(n) == Stage(n, "ended") /\ UNCHANGED <<cut, last, pending, shown>>

\* The button is disabled while a request is pending, not while its token is fetched.
Submit(n) ==
    /\ mounted /\ ~pending /\ IsNext(n)
    /\ authError' = IF authMode = "paste" THEN ~pasted ELSE keys # "ok"
    /\ IF authError' THEN NotSent(n)
       ELSE IF authMode = "paste" \/ minted THEN Dispatch(n)
       ELSE Stage(n, "token") /\ UNCHANGED <<cut, last, pending, shown>>
    /\ UNCHANGED <<keys, authMode, pasted, minted, mounted>>

\* POST of token/route.ts: a token of the key that was chosen then, or a refusal.
TokenAnswer(n, ok) ==
    /\ stages[n] = "token"
    /\ IF ok THEN Dispatch(n) /\ minted' \in {minted, TRUE} /\ UNCHANGED authError
             ELSE authError' = TRUE /\ NotSent(n) /\ UNCHANGED minted
    /\ UNCHANGED <<keys, authMode, pasted, mounted>>

\* A response of any status, or no connection.
Answered(n) ==
    /\ stages[n] = "flight" /\ n \notin cut
    /\ Stage(n, "ended")
    /\ shown' = n /\ pending' = (pending /\ last # n)
    /\ UNCHANGED <<formVars, cut, last, mounted>>

Aborted(n) ==
    /\ stages[n] = "flight" /\ n \in cut
    /\ Stage(n, "ended") /\ pending' = (pending /\ last # n)
    /\ UNCHANGED <<formVars, cut, last, shown, mounted>>

Unmount ==
    /\ mounted /\ mounted' = FALSE
    /\ cut' = cut \cup ({last} \ {NoSend})
    /\ UNCHANGED <<formVars, stages, last, pending, shown>>

PlaygroundNext ==
    \/ TokenChanges \/ PasteKey \/ Unmount
    \/ \E answer \in {"unusable", "ok"} : KeysAnswer(answer)
    \/ \E m \in {"connected", "paste"} : SwitchMode(m)
    \/ \E n \in SendIds : Submit(n) \/ Answered(n) \/ Aborted(n) \/ \E ok \in BOOLEAN : TokenAnswer(n, ok)

PlaygroundSpec == PlaygroundInit /\ [][PlaygroundNext]_playgroundVars

---------------------------------------------------------------------------
(* Properties. *)

PlaygroundTypeOK ==
    /\ keys \in {"loading", "unusable", "ok"} /\ authMode \in {"connected", "paste"}
    /\ {pasted, authError, minted, pending, mounted} \subseteq BOOLEAN
    /\ stages \in [SendIds -> {"free", "token", "flight", "ended"}]
    /\ cut \subseteq SendIds /\ {last, shown} \subseteq SendIds \cup {NoSend}

\* The page shows the answer to the request that was sent last, and waits only for that
\* one, however many were submitted while a token was fetched.
LastSentIsShown ==
    mounted =>
        /\ ~pending => shown = last
        /\ pending => stages[last] = "flight" /\ last \notin cut
=============================================================================
