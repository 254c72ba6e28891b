----------------------------- MODULE SiteProofs -----------------------------
(***************************************************************************)
(* Proofs about the website: the sessions of an account (Sessions) and the *)
(* pages that wait for answers: the search box (PlaceSearch), the          *)
(* playground (Playground), the keys page (KeysPage), the map (MapPage),   *)
(* the pages of usage (Dashboard) and their chart (RequestsChart), the     *)
(* billing page (BillingPage), the pages around the sign-in (SignInPages)  *)
(* and the forms (RequestForm).  They share no state; each has an          *)
(* inductive invariant of its own, for any number of sessions,             *)
(* submissions, secrets, points, calls in flight, keys, payments and       *)
(* requests.                                                               *)
(***************************************************************************)
EXTENDS Sessions, SitePages, KeysPage, BillingPage, SignInPages, RequestForm, FiniteSetTheorems,
        TLAPS

---------------------------------------------------------------------------
(* Sessions: no session of an old password survives a change or a reset    *)
(* that is complete, however many overlap.                                 *)


\* A session that is of the current password, or a sign-in that was too late for it.
UpToDate(s) == basis[s] = password \/ s \in late

\* A sign-in that is under way keeps up with the password: the change marks it.
SignInsAreMarked == \A s \in SessionIds : session[s] = "verified" => UpToDate(s)

\* Between changes the stored sessions are up to date as well.
SettledIsUpToDate ==
    (\A s \in SessionIds : changing[s] # "changed") /\ ~unfinished =>
        \A s \in SessionIds : session[s] = "stored" => UpToDate(s)

\* Only a session changes the password, and a session has one change at most.
ChangersHaveSessions == \A s \in SessionIds : session[s] = "none" => changing[s] = "no"

KeepsUp == SignInsAreMarked /\ SettledIsUpToDate /\ ChangersHaveSessions

SessionsInv == SessionsTypeOK /\ KeepsUp

LEMMA SessionsInitially == SessionsInit => SessionsInv
<1> SUFFICES ASSUME SessionsInit PROVE SessionsInv
  OBVIOUS
<1>1. codes \in [live : 0..1, sent : 0..MaxCodes]
  BY SessionsAssumption DEF SessionsInit
<1>5. /\ session \in [SessionIds -> {"none", "verified", "stored", "ended"}]
      /\ changing \in [SessionIds -> {"no", "checked", "changed"}]
      /\ basis \in [SessionIds -> 0..MaxPasswords]
  BY SessionsAssumption DEF SessionsInit
<1>6. password \in 1..MaxPasswords
  BY SessionsAssumption DEF SessionsInit
<1>7. locked \in BOOLEAN /\ locking \in BOOLEAN /\ unfinished \in BOOLEAN /\ late \subseteq SessionIds
  BY Zenon DEF SessionsInit
<1>2. SessionsTypeOK
  BY <1>1, <1>5, <1>6, <1>7, Zenon DEF SessionsInit, SessionsTypeOK
<1>3. \A s \in SessionIds : session[s] = "none"
  BY DEF SessionsInit
<1> QED
  BY <1>2, <1>3 DEF SessionsInv, KeepsUp, SignInsAreMarked, SettledIsUpToDate, ChangersHaveSessions,
     SessionsInit

\* Every step keeps the types.
LEMMA SessionsTypesStep ==
  ASSUME SessionsTypeOK, [SessionsNext]_sessionVars
  PROVE  SessionsTypeOK'
<1> USE SessionsAssumption DEF SessionsTypeOK, Set
<1>1. CASE SendCode \/ CodeExpires
  BY <1>1 DEF SendCode, CodeExpires
<1>2. CASE LockAccount \/ LockEnds \/ UnlockAccount
  BY <1>2 DEF LockAccount, LockEnds, UnlockAccount, EndOthers
<1>3. ASSUME NEW s \in SessionIds, SignInVerified(s) \/ SignInStored(s) \/ SignOut(s)
      PROVE  SessionsTypeOK'
  BY <1>3 DEF SignInVerified, SignInStored, SignOut
<1>4. ASSUME NEW s \in SessionIds, ChangeChecked(s) \/ ChangeStored(s) \/ ChangeDies(s)
      PROVE  SessionsTypeOK'
  <2>1. changing' \in [SessionIds -> {"no", "checked", "changed"}]
    BY <1>4 DEF ChangeChecked, ChangeStored, ChangeDies
  <2>2. CASE ChangeChecked(s) \/ ChangeDies(s)
    BY <2>1, <2>2 DEF ChangeChecked, ChangeDies
  <2>3. CASE ChangeStored(s)
    <3>1. password' \in 1..MaxPasswords /\ late' \subseteq SessionIds
      BY <2>3 DEF ChangeStored
    <3> QED
      BY <2>1, <2>3, <3>1 DEF ChangeStored
  <2> QED
    BY <1>4, <2>2, <2>3
<1>5. ASSUME NEW s \in SessionIds, ChangeDone(s)
      PROVE  SessionsTypeOK'
  <2>1. session' \in [SessionIds -> {"none", "verified", "stored", "ended"}]
    BY <1>5 DEF ChangeDone, EndOthers
  <2>2. changing' \in [SessionIds -> {"no", "checked", "changed"}]
    BY <1>5 DEF ChangeDone
  <2>3. basis' \in [SessionIds -> 0..MaxPasswords]
    BY <1>5 DEF ChangeDone
  <2> QED
    BY <1>5, <2>1, <2>2, <2>3 DEF ChangeDone
<1>6. ASSUME NEW s \in SessionIds, UseCode(s)
      PROVE  SessionsTypeOK'
  <2>1. session' \in [SessionIds -> {"none", "verified", "stored", "ended"}]
    BY <1>6 DEF UseCode
  <2>2. changing' \in [SessionIds -> {"no", "checked", "changed"}]
    BY <1>6 DEF UseCode
  <2>3. basis' \in [SessionIds -> 0..MaxPasswords]
    BY <1>6 DEF UseCode
  <2>4. codes' \in [live : 0..1, sent : 0..MaxCodes]
    BY <1>6 DEF UseCode
  <2> QED
    BY <1>6, <2>1, <2>2, <2>3, <2>4 DEF UseCode
<1>7. CASE UNCHANGED sessionVars
  BY <1>7 DEF sessionVars
<1> QED
  BY <1>1, <1>2, <1>3, <1>4, <1>5, <1>6, <1>7 DEF SessionsNext

\* Every step keeps the sign-ins marked and the settled sessions up to date.
LEMMA SessionsStep ==
  ASSUME SessionsInv, [SessionsNext]_sessionVars
  PROVE  KeepsUp'
<1> USE DEF SessionsInv, KeepsUp, SessionsTypeOK, SignInsAreMarked, SettledIsUpToDate, ChangersHaveSessions,
        UpToDate, Set
<1>1. CASE SendCode \/ CodeExpires \/ LockAccount \/ UnlockAccount
  BY <1>1 DEF SendCode, CodeExpires, LockAccount, UnlockAccount
<1>2. CASE LockEnds
  BY <1>2 DEF LockEnds, EndOthers
<1>3. ASSUME NEW s \in SessionIds, SignInVerified(s) \/ SignInStored(s) \/ SignOut(s)
      PROVE  KeepsUp'
  BY <1>3 DEF SignInVerified, SignInStored, SignOut
<1>4. ASSUME NEW s \in SessionIds, ChangeChecked(s)
      PROVE  KeepsUp'
  BY <1>4 DEF ChangeChecked, isSessionActive
<1>5. ASSUME NEW s \in SessionIds, ChangeStored(s)
      PROVE  KeepsUp'
  <2>1. changing'[s] = "changed" /\ \A o \in SessionIds : session[o] = "verified" => o \in late'
    BY <1>5 DEF ChangeStored
  <2> QED
    BY <1>5, <2>1 DEF ChangeStored
<1>6. ASSUME NEW s \in SessionIds, ChangeDone(s)
      PROVE  KeepsUp'
  <2>1. \A o \in SessionIds : session'[o] = "stored" => o = s
    BY <1>6 DEF ChangeDone, EndOthers
  <2>2. \A o \in SessionIds : session'[o] = "verified" => session[o] = "verified"
    BY <1>6 DEF ChangeDone, EndOthers
  <2>3. basis'[s] = password' /\ \A o \in SessionIds \ {s} : basis'[o] = basis[o]
    BY <1>6 DEF ChangeDone
  <2>4. SignInsAreMarked'
    BY <1>6, <2>2, <2>3 DEF ChangeDone
  <2>5. SettledIsUpToDate'
    BY <1>6, <2>1, <2>3
  <2>6. ChangersHaveSessions'
    BY <1>6 DEF ChangeDone, EndOthers
  <2> QED
    BY <2>4, <2>5, <2>6
<1>7. ASSUME NEW s \in SessionIds, ChangeDies(s)
      PROVE  KeepsUp'
  BY <1>7 DEF ChangeDies
<1>8. ASSUME NEW s \in SessionIds, UseCode(s)
      PROVE  KeepsUp'
  <2>1. basis'[s] = password' /\ session'[s] = "stored"
    BY <1>8 DEF UseCode
  <2>2. \A o \in SessionIds \ {s} :
          basis'[o] = basis[o] /\ session'[o] = session[o] /\ changing'[o] = changing[o]
    BY <1>8 DEF UseCode
  <2>3. changing[s] = "no" /\ changing'[s] = "checked"
    BY <1>8 DEF UseCode
  <2>4. UNCHANGED <<password, late, unfinished>>
    BY <1>8 DEF UseCode
  <2>5. SignInsAreMarked'
    BY <2>1, <2>2, <2>4
  <2>6. SettledIsUpToDate'
    BY <2>1, <2>2, <2>3, <2>4
  <2>7. ChangersHaveSessions'
    BY <2>1, <2>2
  <2> QED
    BY <2>5, <2>6, <2>7
<1>9. CASE UNCHANGED sessionVars
  BY <1>9 DEF sessionVars
<1> QED
  BY <1>1, <1>2, <1>3, <1>4, <1>5, <1>6, <1>7, <1>8, <1>9 DEF SessionsNext

LEMMA SessionsInvariance == SessionsSpec => []SessionsInv
<1>1. SessionsInv /\ [SessionsNext]_sessionVars => SessionsInv'
  BY SessionsTypesStep, SessionsStep DEF SessionsInv
<1> QED
  BY SessionsInitially, <1>1, PTL DEF SessionsSpec

\* Whatever sign-ins, changes, resets and locks overlap: when no change is under way and
\* none has died half done, no active session was opened with an older password, except
\* by a sign-in that had checked it before (changePassword, users.ts).
THEOREM OldSessionsEndHolds == SessionsSpec => []OldSessionsEnd
<1>1. SessionsInv => OldSessionsEnd
  BY DEF SessionsInv, KeepsUp, SettledIsUpToDate, UpToDate, OldSessionsEnd, isSessionActive
<1> QED
  BY SessionsInvariance, <1>1, PTL

---------------------------------------------------------------------------
(* The search box (PlaceSearch).  What is not being fetched, paused or     *)
(* failed is known: the placeholder is never taken for the answer.         *)

FetchesAreSearches == fetch # "none" => settled # TooShort
IdleIsKnown == Searching /\ fetch = "none" => settled \in known

BoxInv == BoxTypeOK /\ FetchesAreSearches /\ IdleIsKnown

LEMMA BoxInitially == BoxInit => BoxInv
  BY DEF BoxInit, BoxInv, BoxTypeOK, FetchesAreSearches, IdleIsKnown, Searching

\* The box opens or closes: it fetches, or knows the answer, or searches on as before.
LEMMA ToggleKeepsBox ==
    ASSUME BoxInv, NEW o \in BOOLEAN, Toggle(o), UNCHANGED <<settled, known>>
    PROVE  /\ open' \in BOOLEAN /\ fetch' \in {"none", "running", "paused", "failed"}
           /\ FetchesAreSearches' /\ IdleIsKnown'
<1>1. open' = o
  BY DEF Toggle
<1>2. CASE o /\ ~Searching /\ settled # TooShort /\ fetch \notin {"running", "paused"}
  <2>1. fetch' \in {"running", "paused"} \/ (settled \in known /\ fetch' = fetch)
    BY <1>2 DEF Toggle, Begins
  <2> QED BY <1>1, <1>2, <2>1
          DEF BoxInv, BoxTypeOK, FetchesAreSearches, IdleIsKnown, Searching
<1>3. CASE ~(o /\ ~Searching /\ settled # TooShort /\ fetch \notin {"running", "paused"})
  <2>1. fetch' = fetch
    BY <1>3 DEF Toggle
  <2> QED BY <1>1, <1>3, <2>1
          DEF BoxInv, BoxTypeOK, FetchesAreSearches, IdleIsKnown, Searching
<1> QED BY <1>2, <1>3

LEMMA BoxStep == BoxInv /\ [BoxNext]_searchBoxVars => BoxInv'
<1> SUFFICES ASSUME BoxInv, [BoxNext]_searchBoxVars PROVE BoxInv'
  OBVIOUS
<1>1. CASE UNCHANGED searchBoxVars
  BY <1>1 DEF searchBoxVars, BoxInv, BoxTypeOK, FetchesAreSearches, IdleIsKnown, Searching
<1>2. ASSUME NEW o \in BOOLEAN, Toggle(o), UNCHANGED <<settled, known, placeholder, connected>>,
             text' \in SearchTexts \cup {TooShort}
      PROVE  BoxInv'
  BY <1>2, ToggleKeepsBox DEF BoxInv, BoxTypeOK
<1>3. ASSUME NEW t \in SearchTexts \cup {TooShort}, Typed(t) PROVE BoxInv'
  BY <1>2, <1>3 DEF Typed
<1>4. CASE Opened \/ Closed \/ Cleared
  BY <1>2, <1>4 DEF Opened, Closed, Cleared, BoxInv, BoxTypeOK
<1>5. CASE Settles
  <2>1. /\ settled' = text /\ UNCHANGED <<text, open, known, connected>>
        /\ placeholder' \in {settled, placeholder}
    BY <1>5 DEF Settles
  <2>2. CASE open /\ text # TooShort
    <3>1. fetch' \in {"running", "paused"} \/ (text \in known /\ fetch' = "none")
      BY <1>5, <2>2 DEF Settles, Begins
    <3> QED BY <2>1, <2>2, <3>1
            DEF BoxInv, BoxTypeOK, FetchesAreSearches, IdleIsKnown, Searching
  <2>3. CASE ~(open /\ text # TooShort)
    <3>1. fetch' = "none"
      BY <1>5, <2>3 DEF Settles
    <3> QED BY <2>1, <2>3, <3>1
            DEF BoxInv, BoxTypeOK, FetchesAreSearches, IdleIsKnown, Searching
  <2> QED BY <2>2, <2>3
<1>6. ASSUME NEW ok \in BOOLEAN, Fetched(ok) PROVE BoxInv'
  <2>1. settled \in SearchTexts
    BY <1>6 DEF Fetched, BoxInv, BoxTypeOK, FetchesAreSearches
  <2>2. \/ fetch' = "none" /\ known' = known \cup {settled}
        \/ fetch' = "failed" /\ known' = known
    BY <1>6 DEF Fetched
  <2>3. UNCHANGED <<text, settled, open, placeholder, connected>>
    BY <1>6 DEF Fetched
  <2>4. BoxTypeOK'
    BY <2>1, <2>2, <2>3 DEF BoxInv, BoxTypeOK
  <2>5. FetchesAreSearches' /\ IdleIsKnown'
    <3>1. settled # TooShort
      BY <1>6 DEF Fetched, BoxInv, FetchesAreSearches
    <3> QED BY <2>2, <2>3, <3>1 DEF FetchesAreSearches, IdleIsKnown
  <2> QED BY <2>4, <2>5 DEF BoxInv
<1>7. ASSUME NEW t \in SearchTexts, Choose(t) \/ Collected(t) PROVE BoxInv'
  <2>1. CASE Choose(t)
    BY <2>1 DEF Choose, BoxInv, BoxTypeOK, FetchesAreSearches, IdleIsKnown, Searching
  <2>2. CASE Collected(t)
    <3>1. /\ known' = known \ {t} /\ t # settled
          /\ UNCHANGED <<text, settled, open, fetch, placeholder, connected>>
      BY <2>2 DEF Collected
    <3>2. BoxTypeOK' /\ FetchesAreSearches'
      BY <3>1 DEF BoxInv, BoxTypeOK, FetchesAreSearches
    <3>3. IdleIsKnown'
      BY <3>1 DEF BoxInv, IdleIsKnown, Searching
    <3> QED BY <3>2, <3>3 DEF BoxInv
  <2> QED BY <1>7, <2>1, <2>2
<1>8. CASE Connection
  <2>1. connected' \in BOOLEAN /\ UNCHANGED <<text, settled, open, fetch, known, placeholder>>
    BY <1>8 DEF Connection
  <2> QED BY <2>1 DEF BoxInv, BoxTypeOK, FetchesAreSearches, IdleIsKnown, Searching
<1>9. CASE OnOnline
  <2>1. /\ fetch' = "running" /\ UNCHANGED <<text, settled, open, known, placeholder, connected>>
        /\ fetch = "paused" \/ Searching
    BY <1>9 DEF OnOnline
  <2> QED BY <2>1 DEF BoxInv, BoxTypeOK, FetchesAreSearches, IdleIsKnown, Searching
<1> QED BY <1>1, <1>3, <1>4, <1>5, <1>6, <1>7, <1>8, <1>9 DEF BoxNext

\* Results that are not marked as loading are those of the text in the box, for any texts
\* (SearchBox, useGeocodeSearch, useDebouncedValue).
THEOREM ResultsAreForTextHolds == BoxSpec => []ResultsAreForText
<1>1. BoxInv => ResultsAreForText
  BY DEF BoxInv, BoxTypeOK, IdleIsKnown, ResultsAreForText, ShowList, Loading, Results, DataOf, Searching
<1> QED BY <1>1, BoxInitially, BoxStep, PTL DEF BoxSpec

---------------------------------------------------------------------------
(* The playground.  Every request in flight but the last one was aborted,  *)
(* and a page that does not wait shows the last one's answer.              *)

SendsAreOrdered ==
    /\ \A n \in SendIds : stages[n] = "flight" /\ n # last => n \in cut
    /\ \A n \in cut \cup ({last} \ {NoSend}) : stages[n] \in {"flight", "ended"}

PlaygroundInv ==
    /\ PlaygroundTypeOK /\ SendsAreOrdered /\ LastSentIsShown
    /\ mounted => last \notin cut

LEMMA PlaygroundInitially == PlaygroundInit => PlaygroundInv
  BY PlaygroundAssumption
  DEF PlaygroundInit, PlaygroundInv, PlaygroundTypeOK, SendsAreOrdered, LastSentIsShown, SendIds, NoSend

LEMMA DispatchStep ==
    ASSUME PlaygroundInv, NEW n \in SendIds, stages[n] \in {"free", "token"}, Dispatch(n), UNCHANGED mounted
    PROVE  /\ stages' \in [SendIds -> {"free", "token", "flight", "ended"}]
           /\ cut' \subseteq SendIds /\ {last', shown'} \subseteq SendIds \cup {NoSend} /\ pending' \in BOOLEAN
           /\ SendsAreOrdered' /\ LastSentIsShown' /\ (mounted => last' \notin cut')
<1>1. /\ stages' = [stages EXCEPT ![n] = "flight"] /\ cut' = cut \cup ({last} \ {NoSend})
      /\ last' = n /\ pending' = TRUE /\ shown' = shown
  BY DEF Dispatch, Stage
<1>2. /\ stages \in [SendIds -> {"free", "token", "flight", "ended"}] /\ cut \subseteq SendIds
      /\ {last, shown} \subseteq SendIds \cup {NoSend}
  BY DEF PlaygroundInv, PlaygroundTypeOK
<1>3. n \notin cut /\ n # last /\ n # NoSend
  BY DEF PlaygroundInv, SendsAreOrdered, SendIds, NoSend
<1>4. n \notin cut'
  BY <1>1, <1>3
<1>5. SendsAreOrdered'
  <2>1. /\ \A m \in SendIds : stages[m] = "flight" /\ m # last => m \in cut
        /\ \A m \in cut \cup ({last} \ {NoSend}) : stages[m] \in {"flight", "ended"}
    BY DEF PlaygroundInv, SendsAreOrdered
  <2>2. \A m \in SendIds : stages'[m] = "flight" /\ m # last' => m \in cut'
    <3>1. ASSUME NEW m \in SendIds, stages'[m] = "flight", m # n PROVE m \in cut'
      <4>1. stages[m] = "flight"
        BY <1>1, <1>2, <3>1
      <4>2. m # NoSend
        BY DEF SendIds, NoSend
      <4> QED BY <1>1, <2>1, <4>1, <4>2
    <3> QED BY <1>1, <3>1
  <2>3. \A m \in cut' \cup ({last'} \ {NoSend}) : stages'[m] \in {"flight", "ended"}
    <3>1. ASSUME NEW m \in cut' \cup ({last'} \ {NoSend}) PROVE stages'[m] \in {"flight", "ended"}
      <4>1. CASE m = n
        BY <1>1, <1>2, <4>1
      <4>2. CASE m # n
        <5>1. m \in SendIds /\ stages[m] \in {"flight", "ended"}
          BY <1>1, <1>2, <2>1, <4>2
        <5> QED BY <1>1, <1>2, <4>2, <5>1
      <4> QED BY <4>1, <4>2
    <3> QED BY <3>1
  <2> QED BY <2>2, <2>3 DEF SendsAreOrdered
<1>6. LastSentIsShown'
  BY <1>1, <1>2, <1>4 DEF LastSentIsShown
<1> QED BY <1>1, <1>2, <1>4, <1>5, <1>6

LEMMA NotSentStep ==
    ASSUME PlaygroundInv, NEW n \in SendIds, stages[n] \in {"free", "token"}, NotSent(n), UNCHANGED mounted
    PROVE  /\ stages' \in [SendIds -> {"free", "token", "flight", "ended"}]
           /\ UNCHANGED <<cut, last, pending, shown>>
           /\ SendsAreOrdered' /\ LastSentIsShown'
<1>1. stages' = [stages EXCEPT ![n] = "ended"] /\ UNCHANGED <<cut, last, pending, shown>>
  BY DEF NotSent, Stage
<1>2. stages \in [SendIds -> {"free", "token", "flight", "ended"}] /\ cut \subseteq SendIds
  BY DEF PlaygroundInv, PlaygroundTypeOK
<1>3. n \notin cut /\ n # last
  BY DEF PlaygroundInv, SendsAreOrdered, SendIds, NoSend
<1> QED BY <1>1, <1>2, <1>3 DEF PlaygroundInv, PlaygroundTypeOK, SendsAreOrdered, LastSentIsShown

LEMMA PlaygroundStep == PlaygroundInv /\ [PlaygroundNext]_playgroundVars => PlaygroundInv'
<1> SUFFICES ASSUME PlaygroundInv, [PlaygroundNext]_playgroundVars PROVE PlaygroundInv'
  OBVIOUS
<1> DEFINE Form == /\ keys \in {"loading", "unusable", "ok"} /\ authMode \in {"connected", "paste"}
                   /\ {pasted, authError, minted} \subseteq BOOLEAN
<1>1. ASSUME UNCHANGED <<sendVars, mounted>>, Form' PROVE PlaygroundInv'
  BY <1>1 DEF PlaygroundInv, PlaygroundTypeOK, SendsAreOrdered, LastSentIsShown, sendVars
<1>2. Form
  BY DEF PlaygroundInv, PlaygroundTypeOK
<1>3. CASE UNCHANGED playgroundVars \/ TokenChanges \/ PasteKey
  BY <1>1, <1>2, <1>3 DEF playgroundVars, formVars, TokenChanges, PasteKey
<1>4. ASSUME NEW answer \in {"unusable", "ok"}, KeysAnswer(answer) PROVE PlaygroundInv'
  BY <1>1, <1>2, <1>4 DEF KeysAnswer
<1>5. ASSUME NEW m \in {"connected", "paste"}, SwitchMode(m) PROVE PlaygroundInv'
  BY <1>1, <1>2, <1>5 DEF SwitchMode
<1>6. ASSUME NEW n \in SendIds, Submit(n) PROVE PlaygroundInv'
  <2>1. stages[n] = "free" /\ UNCHANGED mounted /\ Form'
    BY <1>2, <1>6 DEF Submit, IsNext
  <2>2. CASE NotSent(n)
    BY <2>1, <2>2, NotSentStep DEF PlaygroundInv, PlaygroundTypeOK
  <2>3. CASE Dispatch(n)
    BY <2>1, <2>3, DispatchStep DEF PlaygroundInv, PlaygroundTypeOK
  <2>4. CASE Stage(n, "token") /\ UNCHANGED <<cut, last, pending, shown>>
    <3>1. stages' = [stages EXCEPT ![n] = "token"] /\ n \notin cut /\ n # last
      BY <2>1, <2>4 DEF PlaygroundInv, SendsAreOrdered, Stage, SendIds, NoSend
    <3> QED BY <2>1, <2>4, <3>1 DEF PlaygroundInv, PlaygroundTypeOK, SendsAreOrdered, LastSentIsShown
  <2> QED BY <1>6, <2>2, <2>3, <2>4 DEF Submit
<1>7. ASSUME NEW n \in SendIds, NEW ok \in BOOLEAN, TokenAnswer(n, ok) PROVE PlaygroundInv'
  <2>1. stages[n] = "token" /\ UNCHANGED mounted
    BY <1>7 DEF TokenAnswer
  <2>2. Form' /\ (Dispatch(n) \/ NotSent(n))
    BY <1>2, <1>7 DEF TokenAnswer
  <2>3. CASE NotSent(n)
    BY <2>1, <2>2, <2>3, NotSentStep DEF PlaygroundInv, PlaygroundTypeOK
  <2>4. CASE Dispatch(n)
    BY <2>1, <2>2, <2>4, DispatchStep DEF PlaygroundInv, PlaygroundTypeOK
  <2> QED BY <2>2, <2>3, <2>4
<1>8. ASSUME NEW n \in SendIds, Answered(n) \/ Aborted(n) PROVE PlaygroundInv'
  <2>1. /\ stages[n] = "flight" /\ stages' = [stages EXCEPT ![n] = "ended"]
        /\ pending' = (pending /\ last # n) /\ UNCHANGED <<formVars, cut, last, mounted>>
        /\ \/ n \notin cut /\ shown' = n
           \/ n \in cut /\ shown' = shown
    BY <1>8 DEF Answered, Aborted, Stage
  <2>2. n \notin cut => n = last
    BY <2>1 DEF PlaygroundInv, SendsAreOrdered
  <2>3. mounted /\ n \in cut => n # last
    BY DEF PlaygroundInv
  <2>4. PlaygroundTypeOK'
    BY <2>1 DEF PlaygroundInv, PlaygroundTypeOK, formVars
  <2>5. SendsAreOrdered'
    BY <2>1 DEF PlaygroundInv, PlaygroundTypeOK, SendsAreOrdered
  <2>6. LastSentIsShown'
    <3>1. LastSentIsShown /\ stages \in [SendIds -> {"free", "token", "flight", "ended"}]
      BY DEF PlaygroundInv, PlaygroundTypeOK
    <3>2. CASE n = last
      <4>1. ~pending' /\ (mounted => shown' = last)
        BY <2>1, <2>3, <3>2
      <4> QED BY <2>1, <4>1 DEF LastSentIsShown
    <3>3. CASE n # last
      <4>1. shown' = shown /\ (pending' <=> pending)
        BY <2>1, <2>2, <3>3
      <4>2. stages'[last] = "flight" <=> stages[last] = "flight"
        BY <2>1, <3>1, <3>3
      <4> QED BY <2>1, <3>1, <4>1, <4>2 DEF LastSentIsShown
    <3> QED BY <3>2, <3>3
  <2> QED BY <2>1, <2>4, <2>5, <2>6 DEF PlaygroundInv
<1>9. CASE Unmount
  <2>1. mounted' = FALSE /\ cut' = cut \cup ({last} \ {NoSend}) /\ UNCHANGED <<formVars, stages, last, pending, shown>>
    BY <1>9 DEF Unmount
  <2>2. PlaygroundTypeOK'
    BY <2>1 DEF PlaygroundInv, PlaygroundTypeOK, formVars
  <2> QED BY <2>1, <2>2 DEF PlaygroundInv, SendsAreOrdered, LastSentIsShown
<1> QED BY <1>3, <1>4, <1>5, <1>6, <1>7, <1>8, <1>9 DEF PlaygroundNext

\* The page shows the answer to the request that was sent last and waits for no other,
\* however many are submitted (send).
THEOREM LastSentIsShownHolds == PlaygroundSpec => []LastSentIsShown
<1>1. PlaygroundInv => LastSentIsShown
  BY DEF PlaygroundInv
<1> QED BY <1>1, PlaygroundInitially, PlaygroundStep, PTL DEF PlaygroundSpec

---------------------------------------------------------------------------
(* The keys page.  Two calls that answer with a secret are never under way *)
(* together: one of them needs the create dialog, the other needs it gone. *)

SecretIsAlone ==
    /\ creating => createOpen
    /\ revealed # NoSecret \/ dialog = "regenerate" => ~createOpen
    /\ revealed # NoSecret => dialog # "regenerate"

KeysPageInv == KeysPageTypeOK /\ SecretIsAlone

LEMMA FourFlags ==
    ASSUME NEW first, NEW second, NEW third, NEW fourth
    PROVE  {first, second, third, fourth} \subseteq BOOLEAN
             <=> first \in BOOLEAN /\ second \in BOOLEAN /\ third \in BOOLEAN /\ fourth \in BOOLEAN
  OBVIOUS

LEMMA KeysPageInitially == PageInit => KeysPageInv
<1> SUFFICES ASSUME PageInit PROVE KeysPageInv
  OBVIOUS
<1>1. {hasKeyAccess, createOpen, creating, acting} \subseteq BOOLEAN
  BY Zenon DEF PageInit
<1>2. dialog \in Dialogs \cup {NoDialog} /\ (acting => dialog # NoDialog) /\ {revealed, made} \subseteq 0..MaxSecrets
  BY KeysPageAssumption DEF PageInit, NoSecret
<1>3. SecretIsAlone
  BY DEF PageInit, SecretIsAlone, NoSecret, NoDialog
<1> QED BY <1>1, <1>2, <1>3 DEF KeysPageInv, KeysPageTypeOK

LEMMA KeysPageStep == KeysPageInv /\ [KeysPageNext]_keysPageVars => KeysPageInv'
<1> SUFFICES ASSUME KeysPageInv, [KeysPageNext]_keysPageVars PROVE KeysPageInv'
  OBVIOUS
<1> DEFINE Flags == hasKeyAccess \in BOOLEAN /\ createOpen \in BOOLEAN /\ creating \in BOOLEAN /\ acting \in BOOLEAN
           Secrets == {revealed, made} \subseteq 0..MaxSecrets
           Dialog == dialog \in Dialogs \cup {NoDialog} /\ (acting => dialog # NoDialog)
<1>a. Flags /\ Secrets /\ Dialog /\ SecretIsAlone
  BY FourFlags DEF KeysPageInv, KeysPageTypeOK
<1>b. ASSUME Flags', Secrets', Dialog', SecretIsAlone' PROVE KeysPageInv'
  BY <1>b, FourFlags DEF KeysPageInv, KeysPageTypeOK
<1>1. CASE UNCHANGED keysPageVars
  BY <1>1, <1>a, <1>b DEF keysPageVars, SecretIsAlone
<1>8. CASE AccessChanges
  <2>1. Flags'
    BY <1>8, <1>a DEF AccessChanges
  <2>2. Secrets' /\ Dialog' /\ SecretIsAlone'
    BY <1>8, <1>a DEF AccessChanges, SecretIsAlone
  <2> QED BY <2>1, <2>2, <1>b
<1>2. CASE OpenCreate
  <2>1. Flags' /\ Secrets' /\ Dialog'
    BY <1>2, <1>a DEF OpenCreate
  <2>2. SecretIsAlone'
    BY <1>2, <1>a DEF OpenCreate, PageUsable, SecretIsAlone, NoDialog
  <2> QED BY <2>1, <2>2, <1>b
<1>3. CASE CloseCreate \/ SubmitCreate
  <2>1. Secrets' /\ Dialog'
    BY <1>3, <1>a DEF CloseCreate, SubmitCreate
  <2>2. SecretIsAlone'
    BY <1>3, <1>a DEF CloseCreate, SubmitCreate, CreateShown, SecretIsAlone
  <2>3. Flags'
    <3>1. CASE CloseCreate
      BY <3>1, <1>a DEF CloseCreate
    <3>2. CASE SubmitCreate
      BY <3>2, <1>a DEF SubmitCreate
    <3> QED BY <1>3, <3>1, <3>2
  <2> QED BY <2>1, <2>2, <2>3, <1>b
<1>4. CASE CloseDialog \/ Confirm \/ Done
  <2>1. Flags'
    BY <1>4, <1>a DEF CloseDialog, Confirm, Done
  <2>2. Secrets' /\ Dialog'
    BY <1>4, <1>a, KeysPageAssumption DEF CloseDialog, Confirm, Done, NoSecret
  <2>3. SecretIsAlone'
    BY <1>4, <1>a DEF CloseDialog, Confirm, Done, SecretIsAlone, NoDialog, NoSecret
  <2> QED BY <2>1, <2>2, <2>3, <1>b
<1>5. ASSUME NEW d \in Dialogs, OpenDialog(d) PROVE KeysPageInv'
  <2>1. Flags' /\ Secrets' /\ Dialog'
    BY <1>5, <1>a DEF OpenDialog, Dialogs, NoDialog
  <2>2. SecretIsAlone'
    BY <1>5, <1>a DEF OpenDialog, PageUsable, CreateShown, SecretIsAlone
  <2> QED BY <2>1, <2>2, <1>b
<1>6. ASSUME NEW ok \in BOOLEAN, CreateAnswer(ok) PROVE KeysPageInv'
  <2>1. creating /\ creating' = FALSE /\ UNCHANGED <<hasKeyAccess, dialog, acting>>
    BY <1>6 DEF CreateAnswer
  <2>2. CASE ok
    <3>1. createOpen' = FALSE /\ revealed' = made + 1 /\ made' = made + 1 /\ made < MaxSecrets
      BY <1>6, <2>2 DEF CreateAnswer, Reveal
    <3>2. Flags' /\ Dialog'
      BY <1>a, <2>1, <3>1
    <3>3. Secrets'
      BY <1>a, <3>1, KeysPageAssumption
    <3>4. SecretIsAlone'
      BY <1>a, <2>1, <3>1 DEF SecretIsAlone
    <3> QED BY <3>2, <3>3, <3>4, <1>b
  <2>3. CASE ~ok
    <3>1. UNCHANGED <<createOpen, revealed, made>>
      BY <1>6, <2>3 DEF CreateAnswer
    <3>2. Flags' /\ Dialog' /\ Secrets'
      BY <1>a, <2>1, <3>1
    <3>3. SecretIsAlone'
      BY <1>a, <2>1, <3>1 DEF SecretIsAlone
    <3> QED BY <3>2, <3>3, <1>b
  <2> QED BY <2>2, <2>3
<1>7. ASSUME NEW ok \in BOOLEAN, ActionAnswer(ok) PROVE KeysPageInv'
  <2>1. /\ acting /\ acting' = FALSE /\ dialog' = IF ok THEN NoDialog ELSE dialog
        /\ UNCHANGED <<hasKeyAccess, createOpen, creating>>
    BY <1>7 DEF ActionAnswer
  <2>2. Flags' /\ Dialog'
    BY <1>a, <2>1
  <2>3. CASE ok /\ dialog = "regenerate"
    <3>1. revealed' = made + 1 /\ made' = made + 1 /\ made < MaxSecrets
      BY <1>7, <2>3 DEF ActionAnswer, Reveal
    <3>2. Secrets'
      BY <1>a, <3>1, KeysPageAssumption
    <3>3. SecretIsAlone'
      BY <1>a, <2>1, <2>3 DEF SecretIsAlone, NoDialog
    <3> QED BY <2>2, <3>2, <3>3, <1>b
  <2>4. CASE ~(ok /\ dialog = "regenerate")
    <3>1. UNCHANGED <<revealed, made>>
      BY <1>7, <2>4 DEF ActionAnswer
    <3>2. Secrets'
      BY <1>a, <3>1
    <3>3. SecretIsAlone'
      BY <1>a, <2>1, <2>4, <3>1 DEF SecretIsAlone, NoDialog
    <3> QED BY <2>2, <3>2, <3>3, <1>b
  <2> QED BY <2>3, <2>4
<1> QED BY <1>1, <1>2, <1>3, <1>4, <1>5, <1>6, <1>7, <1>8 DEF KeysPageNext

\* A new secret never takes the place of one that is still on display: no two calls that
\* answer with a secret are in flight (handleCreate, handleRegenerate).
THEOREM SecretsAreShownHolds == KeysPageSpec => SecretsAreShown
<1>1. KeysPageInv /\ [KeysPageNext]_keysPageVars
        => [revealed # NoSecret => revealed' \in {revealed, NoSecret}]_keysPageVars
  <2> SUFFICES ASSUME KeysPageInv, KeysPageNext, revealed # NoSecret
               PROVE  revealed' \in {revealed, NoSecret}
    OBVIOUS
  <2>1. ~creating /\ dialog # "regenerate"
    BY DEF KeysPageInv, SecretIsAlone
  <2>2. CASE AccessChanges \/ OpenCreate \/ CloseCreate \/ SubmitCreate \/ CloseDialog \/ Confirm \/ Done
    BY <2>2 DEF AccessChanges, OpenCreate, CloseCreate, SubmitCreate, CloseDialog, Confirm, Done
  <2>3. ASSUME NEW d \in Dialogs, OpenDialog(d) PROVE revealed' = revealed
    BY <2>3 DEF OpenDialog
  <2>4. ASSUME NEW ok \in BOOLEAN, CreateAnswer(ok) \/ ActionAnswer(ok) PROVE revealed' = revealed
    BY <2>1, <2>4 DEF CreateAnswer, ActionAnswer
  <2> QED BY <2>2, <2>3, <2>4 DEF KeysPageNext
<1> QED BY <1>1, KeysPageInitially, KeysPageStep, PTL DEF KeysPageSpec, SecretsAreShown

---------------------------------------------------------------------------
(* The map.  What the page waits for is a call in flight that was not cut  *)
(* or that a cut does not end, or a mutation that is paused: whatever ends *)
(* one of these also ends the wait, or changes it into the other.          *)

MapInv == MapTypeOK /\ WaitsAreAnswered

CallsTyped == calls \in [GeoCalls -> GeoCall \cup {FreeCall}]

\* The popup's wait and the route's, each over the calls of its kind.
PopupWaits ==
    popup # NoPopup /\ popup.looking =>
        \E c \in GeoCalls : calls[c].kind = "reverse" /\ calls[c].at = popup.at /\ ~calls[c].cut
RouteWaits ==
    /\ calc = "pending" =>
          /\ current \in GeoCalls /\ calls[current].kind = "route"
          /\ calls[current].cut => calls[current].reading
    /\ calc = "paused" => pausedRoute /\ pageState # "shown"

PauseTyped == pausedRoute \in BOOLEAN /\ pageState \in {"offline", "hidden", "shown"}

LEMMA WaitsSplit == WaitsAreAnswered <=> PopupWaits /\ RouteWaits
  BY DEF WaitsAreAnswered, PopupWaits, RouteWaits, Live

LEMMA MapInitially == MapInit => MapInv
<1> SUFFICES ASSUME MapInit PROVE MapInv
  OBVIOUS
<1>1. selection \in Spots \cup {NoSpot} /\ popup \in Popups \cup {NoPopup} /\ locating \subseteq Endpoints
  BY DEF MapInit
<1>2. ends \in Endpoints
  BY DEF MapInit, NoEnds, Endpoints
<1>3. calc = "none" /\ routeError \in BOOLEAN /\ current \in GeoCalls \cup {NoCall}
  BY DEF MapInit
<1>4. calls \in [GeoCalls -> GeoCall \cup {FreeCall}]
  BY DEF MapInit
<1>5. WaitsAreAnswered
  BY <1>3 DEF MapInit, WaitsAreAnswered
<1>6. PauseTyped
  BY DEF MapInit, PauseTyped
<1> QED BY <1>1, <1>2, <1>3, <1>4, <1>5, <1>6 DEF MapInv, MapTypeOK, PauseTyped

\* An abort leaves the calls of the other kind, and the free ones, as they are.
LEMMA CutKeeps ==
    ASSUME CallsTyped, NEW kind
    PROVE  /\ Cut(kind) \in [GeoCalls -> GeoCall \cup {FreeCall}]
           /\ \A c \in GeoCalls : calls[c].kind # kind => Cut(kind)[c] = calls[c]
<1>1. ASSUME NEW c \in GeoCalls, c \in Live(kind)
      PROVE  [calls[c] EXCEPT !.cut = TRUE] \in GeoCall \cup {FreeCall}
  <2>1. calls[c] \in GeoCall \cup {FreeCall}
    BY DEF CallsTyped
  <2>2. CASE calls[c] \in GeoCall
    BY <2>2 DEF GeoCall
  <2>3. CASE calls[c] = FreeCall
    <3>1. [FreeCall EXCEPT !.cut = TRUE] = FreeCall
      BY DEF FreeCall
    <3> QED BY <2>3, <3>1
  <2> QED BY <2>1, <2>2, <2>3
<1>2. \A c \in GeoCalls : Cut(kind)[c] \in GeoCall \cup {FreeCall}
  BY <1>1 DEF Cut, CallsTyped
<1> QED BY <1>2 DEF Cut, Live

LEMMA SendsKeeps ==
    ASSUME CallsTyped, NEW c \in GeoCalls, NEW kind, NEW place, NEW seen \in Endpoints,
           (kind = "route" /\ place = NoSpot) \/ (kind = "reverse" /\ place \in Spots),
           Sends(c, kind, place, seen)
    PROVE  /\ CallsTyped'
           /\ calls'[c].kind = kind /\ calls'[c].at = place /\ ~calls'[c].cut
           /\ \A d \in GeoCalls : calls[d].kind \notin {kind, "free"} => calls'[d] = calls[d]
<1> DEFINE fresh == [kind |-> kind, at |-> place, seen |-> seen, cut |-> FALSE, reading |-> FALSE]
<1>1. calls[c] = FreeCall /\ calls' = [Cut(kind) EXCEPT ![c] = fresh]
  BY DEF Sends
<1>2. /\ Cut(kind) \in [GeoCalls -> GeoCall \cup {FreeCall}]
      /\ \A d \in GeoCalls : calls[d].kind # kind => Cut(kind)[d] = calls[d]
  BY CutKeeps
<1>3. fresh \in GeoCall
  BY DEF GeoCall
<1>4. calls[c].kind = "free"
  BY <1>1 DEF FreeCall
<1>5. /\ fresh.kind = kind /\ fresh.at = place /\ ~fresh.cut
  OBVIOUS
<1> HIDE DEF fresh
<1>6. /\ calls'[c] = fresh
      /\ \A d \in GeoCalls : d # c => calls'[d] = Cut(kind)[d]
      /\ CallsTyped'
  BY <1>1, <1>2, <1>3 DEF CallsTyped
<1> QED BY <1>2, <1>4, <1>5, <1>6

\* The route's mutation waits for the call that was sent, or is paused.
LEMMA CalculatesKeeps ==
    ASSUME MapInv, NEW c \in GeoCalls, NEW seen \in Endpoints, Calculates(c, seen), UNCHANGED popup
    PROVE  /\ CallsTyped' /\ PopupWaits' /\ RouteWaits' /\ PauseTyped'
           /\ calc' \in {"pending", "paused"} /\ current' \in GeoCalls \cup {NoCall} /\ routeError' = FALSE
<1>1. routeError' = FALSE /\ UNCHANGED pageState /\ CallsTyped /\ PauseTyped /\ PopupWaits
  BY WaitsSplit DEF Calculates, MapInv, MapTypeOK, CallsTyped, PauseTyped
<1>2. CASE pageState = "offline"
  <2>1. calc' = "paused" /\ current' = NoCall /\ pausedRoute' = TRUE /\ UNCHANGED calls
    BY <1>2 DEF Calculates
  <2>2. CallsTyped' /\ PauseTyped'
    BY <1>1, <2>1 DEF CallsTyped, PauseTyped
  <2>3. PopupWaits'
    BY <1>1, <2>1 DEF PopupWaits
  <2>4. RouteWaits'
    BY <1>1, <1>2, <2>1 DEF RouteWaits
  <2> QED BY <1>1, <2>1, <2>2, <2>3, <2>4
<1>3. CASE pageState # "offline"
  <2>1. Sends(c, "route", NoSpot, NoEnds) /\ calc' = "pending" /\ current' = c /\ UNCHANGED pausedRoute
    BY <1>3 DEF Calculates
  <2>2. /\ CallsTyped' /\ calls'[c].kind = "route" /\ ~calls'[c].cut
        /\ \A d \in GeoCalls : calls[d].kind \notin {"route", "free"} => calls'[d] = calls[d]
    <3>1. NoEnds \in Endpoints
      BY DEF NoEnds, Endpoints
    <3> QED BY <1>1, <2>1, <3>1, SendsKeeps
  <2>3. PopupWaits'
    BY <1>1, <2>2 DEF PopupWaits
  <2>4. RouteWaits' /\ PauseTyped'
    BY <1>1, <2>1, <2>2 DEF RouteWaits, PauseTyped
  <2> QED BY <1>1, <2>1, <2>2, <2>3, <2>4
<1> QED BY <1>2, <1>3

LEMMA SetEndpointKeeps ==
    ASSUME MapInv, NEW c \in GeoCalls, NEW which \in {"from", "to"}, NEW seen \in Endpoints,
           SetEndpoint(c, which, seen), UNCHANGED <<selection, popup>>, locating' \subseteq Endpoints
    PROVE  MapInv'
<1> DEFINE seenNow == [seen EXCEPT ![which] = TRUE]
<1>1. seenNow \in Endpoints
  BY DEF Endpoints
<1>2. ends' \in Endpoints
  <2>1. ends' = [ends EXCEPT ![which] = TRUE] /\ ends \in Endpoints
    BY DEF SetEndpoint, MapInv, MapTypeOK
  <2> QED BY <2>1 DEF Endpoints
<1>3. /\ CallsTyped' /\ PopupWaits' /\ RouteWaits'
      /\ calc' \in {"none", "pending", "paused"} /\ current' \in GeoCalls \cup {NoCall} /\ routeError' = FALSE
      /\ PauseTyped'
  <2>1. CASE Calculates(c, seenNow)
    <3> HIDE DEF seenNow
    <3> QED BY <1>1, <2>1, CalculatesKeeps
  <2>2. CASE Resets /\ UNCHANGED calls
    <3>1. CallsTyped' /\ PopupWaits'
      BY <2>2, WaitsSplit DEF MapInv, MapTypeOK, CallsTyped, PopupWaits
    <3>2. RouteWaits' /\ calc' = "none" /\ current' = NoCall /\ routeError' = FALSE
      BY <2>2 DEF Resets, RouteWaits
    <3>3. PauseTyped'
      BY <2>2 DEF Resets, pauseVars, MapInv, MapTypeOK, PauseTyped
    <3> QED BY <3>1, <3>2, <3>3
  <2>3. Calculates(c, seenNow) \/ (Resets /\ UNCHANGED calls)
    BY DEF SetEndpoint
  <2> QED BY <2>1, <2>2, <2>3
<1>4. WaitsAreAnswered'
  BY <1>3 DEF WaitsAreAnswered, PopupWaits, RouteWaits, Live
<1>5. MapTypeOK'
  <2>1. selection' \in Spots \cup {NoSpot} /\ popup' \in Popups \cup {NoPopup}
    BY DEF MapInv, MapTypeOK
  <2>2. calls' \in [GeoCalls -> GeoCall \cup {FreeCall}]
    BY <1>3 DEF CallsTyped
  <2>3. routeError' \in BOOLEAN
    BY <1>3
  <2>4. /\ calc' \in {"none", "pending", "paused", "done", "failed"} /\ current' \in GeoCalls \cup {NoCall}
        /\ PauseTyped'
    BY <1>3
  <2> QED BY <1>2, <2>1, <2>2, <2>3, <2>4 DEF MapTypeOK, PauseTyped
<1> QED BY <1>4, <1>5 DEF MapInv

\* The steps of the page that leave the calls alone.
LEMMA QuietSteps ==
    ASSUME MapInv, UNCHANGED calls,
           \/ UNCHANGED mapVars \/ PopupClose \/ ClearSearch \/ UseMyLocation \/ NotLocated \/ Suspends
           \/ \E which \in {"from", "to"} : EndpointTyped(which)
    PROVE  MapInv'
<1>1. /\ UNCHANGED <<calc, current, pausedRoute>> /\ (UNCHANGED popup \/ popup' = NoPopup)
      /\ UNCHANGED pageState \/ pageState' \in {"offline", "hidden"}
  BY DEF mapVars, pauseVars, PopupClose, ClearSearch, UseMyLocation, NotLocated, EndpointTyped, Suspends
<1>2. WaitsAreAnswered'
  BY <1>1 DEF MapInv, WaitsAreAnswered, Live
<1>3. selection' \in Spots \cup {NoSpot} /\ popup' \in Popups \cup {NoPopup}
  BY DEF MapInv, MapTypeOK, mapVars, PopupClose, ClearSearch, UseMyLocation, NotLocated, EndpointTyped, Suspends
<1>4. ends' \in Endpoints
  <2>1. ends' = ends \/ \E which \in {"from", "to"} : ends' = [ends EXCEPT ![which] = FALSE]
    BY DEF mapVars, PopupClose, ClearSearch, UseMyLocation, NotLocated, EndpointTyped, Suspends
  <2>2. ends \in Endpoints
    BY DEF MapInv, MapTypeOK
  <2> QED BY <2>1, <2>2 DEF Endpoints
<1>5. locating' \subseteq Endpoints
  <2>1. locating' \in {locating, {}, {ends}}
    BY DEF mapVars, PopupClose, ClearSearch, UseMyLocation, NotLocated, EndpointTyped, Suspends
  <2> QED BY <2>1 DEF MapInv, MapTypeOK
<1>6. routeError' \in BOOLEAN
  <2>1. routeError' = routeError \/ routeError' = TRUE
    BY DEF mapVars, PopupClose, ClearSearch, UseMyLocation, NotLocated, EndpointTyped, Suspends
  <2> QED BY <2>1 DEF MapInv, MapTypeOK
<1> QED BY <1>1, <1>2, <1>3, <1>4, <1>5, <1>6 DEF MapInv, MapTypeOK

\* The page's other steps, each with what it cuts and what it waits for from then on.
LEMMA ClearRouteKeeps ==
    ASSUME MapInv, ClearRoute
    PROVE  MapInv'
<1>1. /\ calls' = Cut("route") /\ calc' = "none" /\ current' = NoCall /\ routeError' = FALSE
      /\ ends' = NoEnds /\ UNCHANGED <<selection, popup, locating, pausedRoute, pageState>>
  BY DEF ClearRoute, Aborts, Resets, pauseVars
<1>2. /\ calls' \in [GeoCalls -> GeoCall \cup {FreeCall}]
      /\ \A c \in GeoCalls : calls[c].kind # "route" => calls'[c] = calls[c]
  BY <1>1, CutKeeps DEF MapInv, MapTypeOK, CallsTyped
<1>3. PopupWaits'
  BY <1>1, <1>2, WaitsSplit DEF MapInv, PopupWaits
<1>4. WaitsAreAnswered'
  BY <1>1, <1>3 DEF WaitsAreAnswered, PopupWaits, Live
<1>5. ends' \in Endpoints
  BY <1>1 DEF NoEnds, Endpoints
<1> QED BY <1>1, <1>2, <1>4, <1>5 DEF MapInv, MapTypeOK

LEMMA SelectPlaceKeeps ==
    ASSUME MapInv, NEW place \in Spots, SelectPlace(place)
    PROVE  MapInv'
<1>1. /\ calls' = Cut("reverse") /\ popup' = [at |-> place, looking |-> FALSE, seen |-> ends]
      /\ selection' = place /\ UNCHANGED <<ends, calc, current, routeError, locating, pausedRoute, pageState>>
  BY DEF SelectPlace, Aborts, Opens, pauseVars
<1>2. /\ calls' \in [GeoCalls -> GeoCall \cup {FreeCall}]
      /\ \A c \in GeoCalls : calls[c].kind # "reverse" => calls'[c] = calls[c]
  BY <1>1, CutKeeps DEF MapInv, MapTypeOK, CallsTyped
<1>3. RouteWaits'
  BY <1>1, <1>2, WaitsSplit DEF MapInv, RouteWaits
<1>4. WaitsAreAnswered'
  BY <1>1, <1>3 DEF WaitsAreAnswered, RouteWaits, Live
<1>5. popup' \in Popups
  BY <1>1 DEF MapInv, MapTypeOK, Popups
<1> QED BY <1>1, <1>2, <1>4, <1>5 DEF MapInv, MapTypeOK

LEMMA MapClickKeeps ==
    ASSUME MapInv, NEW c \in GeoCalls, NEW place \in Spots, MapClick(c, place)
    PROVE  MapInv'
<1>1. /\ Sends(c, "reverse", place, ends) /\ popup' = [at |-> place, looking |-> TRUE, seen |-> NoEnds]
      /\ selection' = place /\ UNCHANGED <<ends, calc, current, routeError, locating, pausedRoute, pageState>>
  BY DEF MapClick, Opens, pauseVars
<1>2. /\ CallsTyped' /\ calls'[c].kind = "reverse" /\ calls'[c].at = place /\ ~calls'[c].cut
      /\ \A d \in GeoCalls : calls[d].kind \notin {"reverse", "free"} => calls'[d] = calls[d]
  BY <1>1, SendsKeeps DEF MapInv, MapTypeOK, CallsTyped
<1>3. RouteWaits'
  BY <1>1, <1>2, WaitsSplit DEF MapInv, RouteWaits
<1>4. popup'.at = place /\ popup' \in Popups
  BY <1>1 DEF Popups, NoEnds, Endpoints
<1>5. WaitsAreAnswered'
  BY <1>1, <1>2, <1>3, <1>4 DEF WaitsAreAnswered, RouteWaits, Live
<1> QED BY <1>1, <1>2, <1>4, <1>5 DEF MapInv, MapTypeOK, CallsTyped

LEMMA CalculationKeeps ==
    ASSUME MapInv, NEW c \in GeoCalls, Recalculate(c) \/ Swap(c)
    PROVE  MapInv'
<1>1. UNCHANGED <<selection, popup, locating>> /\ ends' \in Endpoints
  BY DEF Recalculate, Swap, MapInv, MapTypeOK, Endpoints
<1>2. \/ \E seen \in Endpoints : Calculates(c, seen)
      \/ calc' = "none" /\ current' = NoCall /\ UNCHANGED <<pausedRoute, pageState, routeError, calls>>
  <2>1. CASE Recalculate(c)
    BY <2>1 DEF Recalculate, MapInv, MapTypeOK
  <2>2. CASE Swap(c)
    BY <1>1, <2>2 DEF Swap, pauseVars
  <2> QED BY <2>1, <2>2
<1>3. CASE \E seen \in Endpoints : Calculates(c, seen)
  <2>1. /\ CallsTyped' /\ PopupWaits' /\ RouteWaits' /\ PauseTyped'
        /\ calc' \in {"pending", "paused"} /\ current' \in GeoCalls \cup {NoCall} /\ routeError' = FALSE
    BY <1>1, <1>3, CalculatesKeeps
  <2>2. WaitsAreAnswered'
    BY <2>1 DEF WaitsAreAnswered, PopupWaits, RouteWaits, Live
  <2>3. MapTypeOK'
    BY <1>1, <2>1 DEF MapInv, MapTypeOK, CallsTyped, PauseTyped
  <2> QED BY <2>2, <2>3 DEF MapInv
<1>4. CASE calc' = "none" /\ current' = NoCall /\ UNCHANGED <<pausedRoute, pageState, routeError, calls>>
  BY <1>1, <1>4 DEF MapInv, MapTypeOK, WaitsAreAnswered, Live
<1> QED BY <1>2, <1>3, <1>4

LEMMA HeadersKeep ==
    ASSUME MapInv, NEW c \in GeoCalls, HeadersArrive(c)
    PROVE  MapInv'
<1>1. /\ calls[c] # FreeCall /\ calls' = [calls EXCEPT ![c].reading = TRUE]
      /\ UNCHANGED <<selection, popup, ends, calc, current, routeError, locating, pausedRoute, pageState>>
  BY DEF HeadersArrive, pauseVars
<1>2. calls[c] \in GeoCall /\ calls \in [GeoCalls -> GeoCall \cup {FreeCall}]
  BY <1>1 DEF MapInv, MapTypeOK
<1> DEFINE read == [calls[c] EXCEPT !.reading = TRUE]
<1>3. /\ read \in GeoCall /\ read.kind = calls[c].kind /\ read.at = calls[c].at /\ read.cut = calls[c].cut
      /\ read.reading
  BY <1>2 DEF GeoCall
<1>4. calls' = [calls EXCEPT ![c] = read]
  BY <1>1
<1> HIDE DEF read
<1>5. calls' \in [GeoCalls -> GeoCall \cup {FreeCall}]
  BY <1>2, <1>3, <1>4
<1>6. \A d \in GeoCalls :
          /\ calls'[d].kind = calls[d].kind /\ calls'[d].at = calls[d].at /\ calls'[d].cut = calls[d].cut
          /\ calls[d].reading => calls'[d].reading
  BY <1>2, <1>3, <1>4
<1>7. WaitsAreAnswered'
  BY <1>1, <1>6 DEF MapInv, WaitsAreAnswered, Live
<1> QED BY <1>1, <1>5, <1>7 DEF MapInv, MapTypeOK

LEMMA EndsKeep ==
    ASSUME MapInv, NEW c \in GeoCalls, NEW ok \in BOOLEAN, RouteEnds(c, ok) \/ ReverseEnds(c, ok)
    PROVE  MapInv'
<1>1. /\ calls' = [calls EXCEPT ![c] = FreeCall]
      /\ UNCHANGED <<selection, ends, locating, pausedRoute, pageState>>
      /\ calls \in [GeoCalls -> GeoCall \cup {FreeCall}]
  BY DEF RouteEnds, ReverseEnds, Frees, pauseVars, MapInv, MapTypeOK
<1>2. \A d \in GeoCalls : d # c => calls'[d] = calls[d]
  BY <1>1
<1>3. PopupWaits /\ RouteWaits
  BY WaitsSplit DEF MapInv
<1>4. CASE RouteEnds(c, ok)
  <2>1. /\ calls[c].kind = "route" /\ routeError' = ~ok /\ popup' = popup
        /\ \/ current = c /\ calc' \in {"done", "failed"} /\ current' = NoCall
           \/ current # c /\ calc' = calc /\ current' = current
    BY <1>4 DEF RouteEnds
  <2>2. PopupWaits'
    BY <1>2, <1>3, <2>1 DEF PopupWaits
  <2>3. RouteWaits'
    BY <1>1, <1>2, <1>3, <2>1 DEF RouteWaits
  <2>4. WaitsAreAnswered'
    BY <2>2, <2>3 DEF WaitsAreAnswered, PopupWaits, RouteWaits, Live
  <2>5. calls' \in [GeoCalls -> GeoCall \cup {FreeCall}] /\ routeError' \in BOOLEAN
    BY <1>1, <2>1
  <2> QED BY <1>1, <2>1, <2>4, <2>5 DEF MapInv, MapTypeOK
<1>5. CASE ReverseEnds(c, ok)
  <2>1. calls[c].kind = "reverse" /\ UNCHANGED <<calc, current, routeError>>
    BY <1>5 DEF ReverseEnds
  <2>2. calls[c] \in GeoCall
    BY <1>1, <2>1 DEF FreeCall
  <2>8. calls[c].at \in Spots /\ calls[c].seen \in Endpoints
    BY <2>1, <2>2 DEF GeoCall
  <2>3. \/ popup' = [at |-> calls[c].at, looking |-> FALSE, seen |-> calls[c].seen]
        \/ calls[c].cut /\ popup' = popup
    BY <1>5 DEF ReverseEnds, Opens
  <2>4. RouteWaits'
    BY <1>1, <1>2, <1>3, <2>1 DEF RouteWaits
  <2>5. PopupWaits'
    BY <1>2, <1>3, <2>3 DEF PopupWaits
  <2>6. WaitsAreAnswered'
    BY <2>4, <2>5 DEF WaitsAreAnswered, PopupWaits, RouteWaits, Live
  <2>7. calls' \in [GeoCalls -> GeoCall \cup {FreeCall}]
    BY <1>1
  <2>9. popup' \in Popups \cup {NoPopup}
    <3>1. [at |-> calls[c].at, looking |-> FALSE, seen |-> calls[c].seen] \in Popups
      BY <2>8 DEF Popups
    <3>2. popup \in Popups \cup {NoPopup}
      BY DEF MapInv, MapTypeOK
    <3> QED BY <2>3, <3>1, <3>2
  <2> QED BY <1>1, <2>1, <2>6, <2>7, <2>9 DEF MapInv, MapTypeOK
<1> QED BY <1>4, <1>5

\* A call whose body is being read goes on when it is cut.
LEMMA ReadingGoesOn ==
    ASSUME CallsTyped, NEW kind, NEW c \in Live(kind), calls[c].reading
    PROVE  Cut(kind)[c].kind = kind /\ Cut(kind)[c].reading
<1>1. c \in GeoCalls /\ calls[c].kind = kind
  BY DEF Live
<1>2. Cut(kind)[c] = [calls[c] EXCEPT !.cut = TRUE]
  BY <1>1 DEF Cut
<1>3. calls[c] \in GeoCall \/ calls[c] = FreeCall
  BY <1>1 DEF CallsTyped
<1> QED BY <1>1, <1>2, <1>3 DEF GeoCall, FreeCall

\* What was paused is sent, and a wait for a call that this cuts short ends.
LEMMA ResumesKeep ==
    ASSUME MapInv, NEW c \in GeoCalls, Resumes(c)
    PROVE  MapInv'
<1>1. /\ pageState' = "shown" /\ pausedRoute' = FALSE
      /\ UNCHANGED <<selection, popup, ends, routeError, locating>>
  BY DEF Resumes
<1>2. CallsTyped /\ PopupWaits /\ RouteWaits /\ pausedRoute \in BOOLEAN
  BY WaitsSplit DEF MapInv, MapTypeOK, CallsTyped
<1>3. CASE ~pausedRoute
  <2>1. UNCHANGED <<calc, current, calls>>
    BY <1>3 DEF Resumes
  <2>2. WaitsAreAnswered'
    BY <1>1, <1>3, <2>1 DEF MapInv, WaitsAreAnswered, Live
  <2> QED BY <1>1, <2>1, <2>2 DEF MapInv, MapTypeOK
<1>4. CASE pausedRoute
  <2>1. Sends(c, "route", NoSpot, NoEnds)
    BY <1>4 DEF Resumes
  <2>2. /\ CallsTyped' /\ calls'[c].kind = "route" /\ ~calls'[c].cut
        /\ \A d \in GeoCalls : calls[d].kind \notin {"route", "free"} => calls'[d] = calls[d]
    <3>1. NoEnds \in Endpoints
      BY DEF NoEnds, Endpoints
    <3> QED BY <1>2, <2>1, <3>1, SendsKeeps
  <2>3. PopupWaits'
    BY <1>1, <1>2, <2>2 DEF PopupWaits
  <2>4. \/ calc = "paused" /\ calc' = "pending" /\ current' = c
        \/ calc' = "failed" /\ current' = NoCall
        \/ /\ calc # "paused" /\ (calc = "pending" => calls[current].reading)
           /\ UNCHANGED <<calc, current>>
    BY <1>4 DEF Resumes
  <2>5. ASSUME calc = "pending", calls[current].reading, UNCHANGED current
        PROVE  current' \in GeoCalls /\ calls'[current'].kind = "route" /\ calls'[current'].reading
    <3>1. current \in Live("route")
      BY <1>2, <2>5 DEF RouteWaits, Live
    <3>2. Cut("route")[current].kind = "route" /\ Cut("route")[current].reading
      BY <1>2, <2>5, <3>1, ReadingGoesOn
    <3>3. calls[c] = FreeCall /\ calls[current].kind = "route" /\ current \in GeoCalls
      BY <2>1, <3>1 DEF Sends, Live
    <3>4. current # c
      BY <3>3 DEF FreeCall
    <3>5. calls'[current] = Cut("route")[current]
      BY <2>1, <3>3, <3>4 DEF Sends, Cut
    <3> QED BY <2>5, <3>2, <3>3, <3>5
  <2>6. RouteWaits'
    BY <2>2, <2>4, <2>5 DEF RouteWaits
  <2>7. WaitsAreAnswered'
    BY <2>3, <2>6 DEF WaitsAreAnswered, PopupWaits, RouteWaits, Live
  <2>8. calc' \in {"none", "pending", "paused", "done", "failed"} /\ current' \in GeoCalls \cup {NoCall}
    BY <2>4 DEF MapInv, MapTypeOK
  <2> QED BY <1>1, <2>2, <2>7, <2>8 DEF MapInv, MapTypeOK, CallsTyped
<1> QED BY <1>2, <1>3, <1>4

LEMMA MapStep == MapInv /\ [MapNext]_mapVars => MapInv'
<1> SUFFICES ASSUME MapInv, [MapNext]_mapVars PROVE MapInv'
  OBVIOUS
<1>1. CASE UNCHANGED mapVars \/ PopupClose \/ ClearSearch \/ UseMyLocation \/ NotLocated \/ Suspends
  <2>1. UNCHANGED calls
    BY <1>1 DEF mapVars, PopupClose, ClearSearch, UseMyLocation, NotLocated, Suspends
  <2> QED BY <1>1, <2>1, QuietSteps
<1>2. ASSUME NEW which \in {"from", "to"}, EndpointTyped(which) PROVE MapInv'
  <2>1. UNCHANGED calls
    BY <1>2 DEF EndpointTyped
  <2> QED BY <1>2, <2>1, QuietSteps
<1>3. ASSUME NEW c \in GeoCalls, NEW which \in {"from", "to"}, EndpointChosen(c, which) \/ PopupAction(c, which)
      PROVE  MapInv'
  <2>1. UNCHANGED <<selection, popup>> /\ locating' \subseteq Endpoints
    BY <1>3 DEF EndpointChosen, PopupAction, MapInv, MapTypeOK
  <2>2. \E seen \in Endpoints : SetEndpoint(c, which, seen)
    <3>1. CASE EndpointChosen(c, which)
      BY <3>1 DEF EndpointChosen, MapInv, MapTypeOK
    <3>2. CASE PopupAction(c, which)
      <4>1. popup.seen \in Endpoints
        BY <3>2 DEF PopupAction, MapInv, MapTypeOK, Popups
      <4> QED BY <3>2, <4>1 DEF PopupAction
    <3> QED BY <1>3, <3>1, <3>2
  <2> QED BY <2>1, <2>2, SetEndpointKeeps
<1>4. ASSUME NEW c \in GeoCalls, Located(c) PROVE MapInv'
  <2>1. UNCHANGED <<selection, popup>> /\ locating' \subseteq Endpoints
    BY <1>4 DEF Located
  <2>2. \E seen \in Endpoints : SetEndpoint(c, "from", seen)
    BY <1>4 DEF Located, MapInv, MapTypeOK
  <2> QED BY <2>1, <2>2, SetEndpointKeeps
<1>5. ASSUME NEW c \in GeoCalls, HeadersArrive(c) \/ CallFails(c) \/ \E ok \in BOOLEAN : BodyArrives(c, ok)
      PROVE  MapInv'
  <2>1. ASSUME CallFails(c) \/ \E ok \in BOOLEAN : BodyArrives(c, ok)
        PROVE  \E ok \in BOOLEAN : RouteEnds(c, ok) \/ ReverseEnds(c, ok)
    BY <2>1 DEF CallFails, BodyArrives
  <2> QED BY <1>5, <2>1, HeadersKeep, EndsKeep
<1>6. ASSUME NEW c \in GeoCalls, Recalculate(c) \/ Swap(c) PROVE MapInv'
  BY <1>6, CalculationKeeps
<1>7. CASE UserActs
  BY <1>1, <1>2, <1>3, <1>6, <1>7, ClearRouteKeeps, SelectPlaceKeeps, MapClickKeeps DEF UserActs
<1> QED BY <1>1, <1>4, <1>5, <1>7, ResumesKeep DEF MapNext

\* The page never waits in vain, for any number of points and of calls in flight: a popup that
\* is looked up has a call that nobody aborted, and a route that is calculated one that no abort
\* ends silently, or is paused until the page is online and shown (map-app.tsx).
THEOREM WaitsAreAnsweredHolds == MapSpec => []WaitsAreAnswered
<1>1. MapInv => WaitsAreAnswered
  BY DEF MapInv
<1> QED BY <1>1, MapInitially, MapStep, PTL DEF MapSpec

---------------------------------------------------------------------------
(* The dashboard: figures of one page are of the same requests.  An answer *)
(* counts the rows of its period and no other, the queries that are shown  *)
(* together are answered and forgotten together, and what is known is of   *)
(* the selection.                                                          *)

\* An answer counts requests of the days of its period only: the server clamps the times of
\* records, and a query that is answered looks no further back than its first day.
InPeriod(a) == \A r \in a.rows : r.day \in a.from..a.day

\* A figure that is known is of the selection.
SelectionIsAnswered ==
    /\ \A q \in {"daily", "endpoints"} : IsLoaded(answers[q]) => IsSelected(answers[q])
    /\ view # "usage" => keyFilter = Unlimited

\* Queries that read the same rows are answered together, and again together.
TwinsAgree ==
    view = "usage" => answers["daily"] = answers["endpoints"] /\ stable["daily"] = stable["endpoints"]

\* So are the overview's: within the shorter of their periods they count the same.
OverviewAgrees ==
    view = "overview" /\ answers["summary"].day = answers["daily"].day =>
        {r \in answers["summary"].rows : r.day >= answers["daily"].from}
            = {r \in answers["daily"].rows : r.day >= answers["summary"].from}

DashboardInv ==
    /\ DashboardTypeOK /\ IsFiniteSet(ledger) /\ tableNow <= today
    /\ \A r \in ledger : r.day <= today
    /\ \A q \in Queries : InPeriod(answers[q]) /\ InPeriod(stable[q])
    /\ \A q \in Queries : IsLoaded(answers[q]) => answers[q].from <= answers[q].day
    /\ SelectionIsAnswered /\ TwinsAgree /\ OverviewAgrees

LEMMA DashboardAgrees == DashboardInv => FiguresAgree
<1> SUFFICES ASSUME DashboardInv PROVE FiguresAgree
  OBVIOUS
<1> USE DEF Queries
<1>1. ASSUME NEW a \in AnswerType, InPeriod(a) PROVE ChartTotal(a) = Counted(a)
  BY <1>1 DEF ChartTotal, Columns, Column, Counted, InPeriod
<1>2. \A q \in Queries : /\ answers[q] \in AnswerType /\ stable[q] \in AnswerType
                         /\ InPeriod(answers[q]) /\ InPeriod(stable[q])
  BY DEF DashboardInv, DashboardTypeOK
<1>3. ASSUME view = "usage"
      PROVE  /\ ChartTotal(ChartData) = EndpointTotals(Figure("endpoints"))
             /\ Stale("daily") = Stale("endpoints")
             /\ \A q \in {"daily", "endpoints"} :
                    IsLoaded(Figure(q)) => Stale(q) \/ IsSelected(Figure(q))
  <2>1. Figure("daily") = Figure("endpoints") /\ Stale("daily") = Stale("endpoints")
    BY <1>3 DEF DashboardInv, TwinsAgree, Figure, Stale
  <2>2. Figure("endpoints") \in AnswerType /\ InPeriod(Figure("endpoints"))
    BY <1>2 DEF Figure
  <2>3. ASSUME NEW q \in {"daily", "endpoints"}, IsLoaded(Figure(q)), ~Stale(q) PROVE IsSelected(Figure(q))
    BY <2>3 DEF Figure, Stale, DashboardInv, SelectionIsAnswered
  <2> QED BY <1>1, <1>3, <2>1, <2>2, <2>3 DEF EndpointTotals, ChartData
<1>4. ASSUME view = "overview", answers["summary"].day = answers["daily"].day
      PROVE  /\ RequestsToday(answers["summary"]) = Column(ChartData, answers["daily"].day)
             /\ {r \in answers["summary"].rows : r.day >= answers["daily"].from}
                  = {r \in ChartTotal(answers["daily"]) : r.day >= answers["summary"].from}
  <2> DEFINE s == answers["summary"]
             d == answers["daily"]
  <2>1. s \in AnswerType /\ d \in AnswerType /\ InPeriod(s) /\ InPeriod(d)
    BY <1>2
  <2>2. ASSUME ~IsLoaded(d) PROVE d.rows = {} /\ s.rows = {}
    BY <1>4, <2>1, <2>2 DEF AnswerType, InPeriod, IsLoaded, Nothing, Rows
  <2>3. Counted(d) = d.rows
    <3>1. CASE IsLoaded(d)
      <4>1. d.keyId = Unlimited
        BY <1>4, <3>1 DEF DashboardInv, SelectionIsAnswered, IsSelected
      <4> QED BY <4>1 DEF Counted
    <3> QED BY <2>2, <3>1 DEF Counted
  <2>4. {r \in s.rows : r.day >= d.from} = {r \in d.rows : r.day >= s.from}
    BY <1>4 DEF DashboardInv, OverviewAgrees
  <2>5. RequestsToday(s) = Column(d, d.day)
    <3>1. CASE IsLoaded(d)
      <4>1. /\ s.day = d.day /\ d.from <= d.day /\ s.from <= s.day
            /\ d.from \in Int /\ s.from \in Int /\ d.day \in Nat
        BY <1>4, <2>1, <3>1 DEF DashboardInv, IsLoaded, AnswerType, Nothing
      <4>2. {r \in s.rows : r.day = d.day} = {r \in d.rows : r.day = d.day}
        BY <2>1, <2>4, <4>1 DEF AnswerType, Rows
      <4> QED BY <2>3, <4>1, <4>2 DEF RequestsToday, Column
    <3>2. CASE ~IsLoaded(d)
      BY <2>2, <2>3, <3>2 DEF RequestsToday, Column
    <3> QED BY <3>1, <3>2
  <2>6. RequestsToday(s) = Column(ChartData, d.day)
    <3>1. CASE EmptyShown
      <4>1. ChartData = NoAnswer /\ s.rows = {}
        BY <1>4, <3>1 DEF ChartData, EmptyShown
      <4> QED BY <4>1 DEF RequestsToday, Column, Counted, NoAnswer
    <3>2. CASE ~EmptyShown
      <4>1. ChartData = d
        BY <1>4, <3>2 DEF ChartData
      <4> QED BY <2>5, <4>1
    <3> QED BY <3>1, <3>2
  <2> QED BY <1>1, <2>1, <2>3, <2>4, <2>6
<1>5. ASSUME NEW k \in DashboardKeys
      PROVE  RequestsLast30Days(answers["list"], k) = ChartTotal([answers["list"] EXCEPT !.keyId = k])
  <2> DEFINE a == [answers["list"] EXCEPT !.keyId = k]
  <2>1. a \in AnswerType /\ a.keyId = k /\ a.rows = answers["list"].rows /\ InPeriod(a)
    BY <1>2 DEF AnswerType, InPeriod
  <2>2. k # Unlimited
    BY DashboardAssumption
  <2>3. Counted(a) = RequestsLast30Days(answers["list"], k)
    BY <2>1, <2>2 DEF Counted, RequestsLast30Days
  <2> QED BY <1>1, <2>1, <2>3
<1>6. ASSUME NEW k \in ActiveKeys(answers["list"])
      PROVE  IsExpired(k, today) \/ "regenerate" \in MenuOf(k)
  <2>1. k \in DashboardKeys /\ k \notin answers["list"].revoked
    BY <1>6 DEF ActiveKeys
  <2>2. IsExpired(k, tableNow) => IsExpired(k, today)
    BY <2>1, DashboardAssumption DEF IsExpired, DashboardInv, DashboardTypeOK, Nothing
  <2> QED BY <2>1, <2>2 DEF MenuOf
<1> QED BY <1>3, <1>4, <1>5, <1>6 DEF FiguresAgree

LEMMA DashboardInitially == DashboardInit => DashboardInv
<1> SUFFICES ASSUME DashboardInit PROVE DashboardInv
  OBVIOUS
<1> USE DEF DashboardInit, NoAnswers, NoAnswer, Queries
<1>1. NoAnswer \in AnswerType /\ InPeriod(NoAnswer) /\ ~IsLoaded(NoAnswer)
  BY DEF AnswerType, Nothing, InPeriod, IsLoaded
<1>2. DashboardTypeOK
  <2>1. LongRange \in Nat \ {0} /\ LongRange - 1 \in 0..MaxDay
    BY DashboardAssumption
  <2>2. \A q \in Queries : answers[q] \in AnswerType /\ stable[q] \in AnswerType
    BY <1>1
  <2> QED BY <2>1, <2>2, DashboardAssumption DEF DashboardTypeOK, Views, LogStates
<1>3. IsFiniteSet(ledger)
  BY FS_EmptySet
<1>4. SelectionIsAnswered /\ TwinsAgree /\ OverviewAgrees
  BY <1>1 DEF SelectionIsAnswered, TwinsAgree, OverviewAgrees
<1>5. tableNow <= today
  BY <1>2 DEF Nothing, DashboardTypeOK
<1> QED BY <1>1, <1>2, <1>3, <1>4, <1>5 DEF DashboardInv

\* What a query answers now, and an answer that it would give again.
LEMMA Evaluated ==
    ASSUME DashboardInv, NEW q \in Queries, NEW a, a = Evaluate(q) \/ (a = answers[q] /\ Fresh(q))
    PROVE  /\ a \in AnswerType /\ InPeriod(a) /\ IsLoaded(a) /\ a.from <= a.day
           /\ a.rows = {r \in ledger : r.day >= a.from}
           /\ q \in {"daily", "endpoints"} => IsSelected(a)
<1> USE DEF Queries
<1>1. CASE a = Evaluate(q)
  <2>1. /\ From(q) \in Int /\ From(q) <= today /\ today \in Nat
        /\ q \in {"daily", "endpoints"} => today - From(q) = days - 1
    BY DashboardAssumption DEF From, DashboardInv, DashboardTypeOK
  <2>2. KeyOf(q) \in DashboardKeys \cup {Unlimited} /\ (q \in {"daily", "endpoints"} => KeyOf(q) = keyFilter)
    BY DEF KeyOf, DashboardInv, DashboardTypeOK
  <2>3. /\ a.keyId = KeyOf(q) /\ a.from = From(q) /\ a.day = today
        /\ a.rows = {r \in ledger : r.day >= From(q)}
    BY <1>1 DEF Evaluate
  <2>4. a \in AnswerType
    <3>1. {r \in ledger : r.day >= From(q)} \in SUBSET Rows
      BY DEF DashboardInv, DashboardTypeOK
    <3>2. (IF ReadsKeys(q) THEN revokedKeys ELSE {}) \in SUBSET DashboardKeys
      BY DEF DashboardInv, DashboardTypeOK
    <3> QED BY <1>1, <2>1, <2>2, <3>1, <3>2 DEF Evaluate, AnswerType
  <2>5. InPeriod(a)
    BY <2>1, <2>3 DEF InPeriod, DashboardInv, DashboardTypeOK, Rows
  <2>6. IsLoaded(a)
    BY <2>1, <2>3 DEF IsLoaded, Nothing
  <2> QED BY <2>1, <2>2, <2>3, <2>4, <2>5, <2>6 DEF IsSelected
<1>2. CASE a = answers[q] /\ Fresh(q)
  <2>1. a \in AnswerType /\ InPeriod(a) /\ IsLoaded(a) /\ a.rows = {r \in ledger : r.day >= a.from}
    BY <1>2 DEF DashboardInv, DashboardTypeOK, Fresh
  <2>2. a.from <= a.day
    BY <1>2, <2>1 DEF DashboardInv
  <2> QED BY <1>2, <2>1, <2>2 DEF DashboardInv, SelectionIsAnswered
<1> QED BY <1>1, <1>2

\* Forgetting the answers, of the page or of the two queries, keeps all but what is typed elsewhere.
LEMMA Forgotten ==
    NoAnswer \in AnswerType /\ InPeriod(NoAnswer) /\ ~IsLoaded(NoAnswer)
<1> QED BY DEF NoAnswer, AnswerType, Nothing, InPeriod, IsLoaded

LEMMA DashboardDelivers ==
    ASSUME DashboardInv, NEW touched \in BOOLEAN, Deliver(touched) PROVE DashboardInv'
<1> USE DEF Queries
<1> DEFINE kept(q) == Fresh(q) /\ ~(touched /\ ReadsKeys(q))
           told(q) == IF kept(q) THEN answers[q] ELSE Evaluate(q)
<1>1. \A q \in Queries : /\ told(q) \in AnswerType /\ InPeriod(told(q)) /\ IsLoaded(told(q))
                         /\ told(q).from <= told(q).day
                         /\ told(q).rows = {r \in ledger : r.day >= told(q).from}
                         /\ q \in {"daily", "endpoints"} => IsSelected(told(q))
  <2> SUFFICES ASSUME NEW q \in Queries
               PROVE  /\ told(q) \in AnswerType /\ InPeriod(told(q)) /\ IsLoaded(told(q))
                      /\ told(q).from <= told(q).day
                      /\ told(q).rows = {r \in ledger : r.day >= told(q).from}
                      /\ q \in {"daily", "endpoints"} => IsSelected(told(q))
    OBVIOUS
  <2>1. told(q) = Evaluate(q) \/ (told(q) = answers[q] /\ Fresh(q))
    OBVIOUS
  <2> HIDE DEF told
  <2> QED BY <2>1, Evaluated
<1>2. \A q \in Queries : answers'[q] = (IF q \in Subscriptions THEN told(q) ELSE NoAnswer)
  BY DEF Deliver
<1>3. \A q \in Queries : stable'[q] = (IF view = "usage" /\ q \in Subscriptions THEN answers'[q] ELSE stable[q])
  BY DEF Deliver
<1>4. view = "usage" => told("daily") = told("endpoints")
  <2> SUFFICES ASSUME view = "usage" PROVE told("daily") = told("endpoints")
    OBVIOUS
  <2>1. answers["daily"] = answers["endpoints"]
    BY DEF DashboardInv, TwinsAgree
  <2>2. kept("daily") <=> kept("endpoints")
    BY <2>1 DEF Fresh, ReadsKeys
  <2>3. Evaluate("daily") = Evaluate("endpoints")
    BY DEF Evaluate, From, KeyOf, ReadsKeys
  <2> QED BY <2>1, <2>2, <2>3
<1> HIDE DEF told, kept
<1>5. UNCHANGED <<serverVars, selectionVars, logStatus>> /\ Subscriptions # {}
  BY DEF Deliver
<1>6. \A q \in Queries : /\ answers'[q] \in AnswerType /\ stable'[q] \in AnswerType
                         /\ InPeriod(answers'[q]) /\ InPeriod(stable'[q])
                         /\ IsLoaded(answers'[q]) => answers'[q].from <= answers'[q].day
  BY <1>1, <1>2, <1>3, Forgotten DEF DashboardInv, DashboardTypeOK
<1>7. tableNow' \in Nat \cup {Nothing} /\ tableNow' <= today'
  BY <1>5 DEF Deliver, DashboardInv, DashboardTypeOK, Nothing, serverVars
<1>8. DashboardTypeOK'
  <2>1. answers' \in [Queries -> AnswerType] /\ stable' \in [Queries -> AnswerType]
    BY <1>6 DEF Deliver
  <2> QED BY <1>5, <1>7, <2>1 DEF DashboardInv, DashboardTypeOK, serverVars, selectionVars
<1>9. SelectionIsAnswered'
  <2>1. \A q \in {"daily", "endpoints"} : IsLoaded(answers'[q]) => IsSelected(told(q)) /\ answers'[q] = told(q)
    BY <1>1, <1>2, Forgotten
  <2>2. keyFilter' = keyFilter /\ days' = days /\ view' = view
    BY <1>5 DEF selectionVars
  <2> QED BY <2>1, <2>2 DEF SelectionIsAnswered, IsSelected, IsLoaded, DashboardInv
<1>10. TwinsAgree'
  <2> SUFFICES ASSUME view = "usage"
               PROVE  answers'["daily"] = answers'["endpoints"] /\ stable'["daily"] = stable'["endpoints"]
    BY <1>5 DEF TwinsAgree, selectionVars
  <2>1. "daily" \in Subscriptions /\ "endpoints" \in Subscriptions
    BY <1>5 DEF Subscriptions, DashboardInv, DashboardTypeOK, Views
  <2> QED BY <2>1, <1>2, <1>3, <1>4
<1>11. OverviewAgrees'
  <2> SUFFICES ASSUME view = "overview", answers'["summary"].day = answers'["daily"].day
               PROVE  {r \in answers'["summary"].rows : r.day >= answers'["daily"].from}
                        = {r \in answers'["daily"].rows : r.day >= answers'["summary"].from}
    BY <1>5 DEF OverviewAgrees, selectionVars
  <2>1. "summary" \in Subscriptions /\ "daily" \in Subscriptions
    BY <1>5 DEF Subscriptions, DashboardInv, DashboardTypeOK, Views
  <2>2. answers'["summary"] = told("summary") /\ answers'["daily"] = told("daily")
    BY <2>1, <1>2
  <2>3. \A q \in Queries : told(q).rows = {r \in ledger : r.day >= told(q).from}
    BY <1>1
  <2> QED BY <2>2, <2>3
<1>12. (\A r \in ledger : r.day <= today)' /\ IsFiniteSet(ledger)'
  BY <1>5 DEF serverVars, DashboardInv
<1>13. (\A q \in Queries : InPeriod(answers[q]) /\ InPeriod(stable[q]))'
  BY <1>6 DEF InPeriod
<1>14. (\A q \in Queries : IsLoaded(answers[q]) => answers[q].from <= answers[q].day)'
  BY <1>6 DEF IsLoaded
<1> QED BY <1>7, <1>8, <1>9, <1>10, <1>11, <1>12, <1>13, <1>14 DEF DashboardInv

LEMMA DashboardStep == DashboardInv /\ [DashboardNext]_dashboardVars => DashboardInv'
<1> SUFFICES ASSUME DashboardInv, [DashboardNext]_dashboardVars PROVE DashboardInv'
  OBVIOUS
<1> USE DEF Queries
<1>t. DashboardTypeOK /\ Nothing = -1
  BY DEF DashboardInv, Nothing
\* Most steps leave the records and the answers as they are.
<1>k. ASSUME UNCHANGED <<ledger, answers, stable, view, days, keyFilter>>, DashboardTypeOK', today' >= today,
             tableNow' = tableNow
      PROVE  DashboardInv'
  <2>1. SelectionIsAnswered' /\ TwinsAgree' /\ OverviewAgrees'
    BY <1>k DEF DashboardInv, SelectionIsAnswered, IsSelected, IsLoaded, TwinsAgree, OverviewAgrees
  <2>2. (\A r \in ledger : r.day <= today)' /\ IsFiniteSet(ledger)'
    BY <1>k, <1>t DEF DashboardInv, DashboardTypeOK, Rows
  <2>3. (\A q \in Queries : InPeriod(answers[q]) /\ InPeriod(stable[q]))'
    BY <1>k DEF DashboardInv, InPeriod
  <2>4. (\A q \in Queries : IsLoaded(answers[q]) => answers[q].from <= answers[q].day)'
    BY <1>k DEF DashboardInv, IsLoaded
  <2>5. (tableNow <= today)'
    BY <1>k, <1>t DEF DashboardInv, DashboardTypeOK
  <2> QED BY <1>k, <2>1, <2>2, <2>3, <2>4, <2>5 DEF DashboardInv
\* Where answers are forgotten, nothing is claimed of them.
<1>f. ASSUME UNCHANGED <<ledger, today>>, DashboardTypeOK', tableNow' \in {tableNow, Nothing},
             \A q \in Queries : answers'[q] \in {answers[q], NoAnswer} /\ InPeriod(stable'[q]),
             SelectionIsAnswered', TwinsAgree', OverviewAgrees'
      PROVE  DashboardInv'
  <2>1. (\A q \in Queries : InPeriod(answers[q]) /\ InPeriod(stable[q]))'
    BY <1>f, Forgotten DEF DashboardInv, InPeriod
  <2>2. (\A q \in Queries : IsLoaded(answers[q]) => answers[q].from <= answers[q].day)'
    BY <1>f, Forgotten DEF DashboardInv, IsLoaded
  <2>3. (\A r \in ledger : r.day <= today)' /\ IsFiniteSet(ledger)'
    BY <1>f DEF DashboardInv
  <2>4. (tableNow <= today)'
    BY <1>f, <1>t DEF DashboardInv, DashboardTypeOK
  <2> QED BY <1>f, <2>1, <2>2, <2>3, <2>4 DEF DashboardInv
<1>n. ASSUME answers' = NoAnswers, UNCHANGED <<ledger, today>>, DashboardTypeOK', tableNow' = Nothing,
             \A q \in Queries : InPeriod(stable'[q]),
             view' # "usage" => keyFilter' = Unlimited,
             view' = "usage" => stable'["daily"] = stable'["endpoints"]
      PROVE  DashboardInv'
  <2>1. \A q \in Queries : answers'[q] = NoAnswer
    BY <1>n DEF NoAnswers
  <2>2. SelectionIsAnswered' /\ TwinsAgree' /\ OverviewAgrees'
    <3>1. SelectionIsAnswered'
      BY <1>n, <2>1, Forgotten DEF SelectionIsAnswered, IsLoaded
    <3>2. TwinsAgree'
      BY <1>n, <2>1 DEF TwinsAgree
    <3>3. OverviewAgrees'
      BY <2>1 DEF OverviewAgrees
    <3> QED BY <3>1, <3>2, <3>3
  <2> QED BY <1>f, <1>n, <2>1, <2>2
<1>1. CASE UNCHANGED dashboardVars
  <2>1. DashboardTypeOK'
    BY <1>1, <1>t DEF dashboardVars, serverVars, selectionVars, answerVars, DashboardTypeOK
  <2> QED BY <1>1, <1>k, <1>t, <2>1 DEF dashboardVars, serverVars, selectionVars, answerVars, DashboardTypeOK
<1>2. CASE NextDay
  <2>1. today' = today + 1 /\ today < MaxDay /\ today \in Nat /\ MaxDay \in Nat
    BY <1>2, <1>t, DashboardAssumption DEF NextDay, DashboardTypeOK
  <2>2. UNCHANGED <<ledger, revokedKeys, answers, stable, view, sessionRestored, days, keyFilter, logStatus, tableNow>>
    BY <1>2 DEF NextDay, pageVars, selectionVars, answerVars
  <2>3. DashboardTypeOK'
    BY <1>t, <2>1, <2>2 DEF DashboardTypeOK
  <2> QED BY <1>k, <2>1, <2>2, <2>3
<1>3. CASE SessionChanges
  <2>1. DashboardTypeOK'
    BY <1>3, <1>t, Forgotten DEF SessionChanges, DashboardTypeOK, serverVars, NoAnswers, LogStates
  <2>2. \A q \in Queries : InPeriod(stable'[q])
    BY <1>3 DEF SessionChanges, DashboardInv
  <2> QED BY <1>3, <1>n, <2>1, <2>2 DEF SessionChanges, serverVars, DashboardInv, SelectionIsAnswered, TwinsAgree
<1>4. CASE LoadMore
  <2>1. DashboardTypeOK'
    BY <1>4, <1>t DEF LoadMore, DashboardTypeOK, serverVars, selectionVars, answerVars, LogStates
  <2> QED BY <1>4, <1>k, <1>t, <2>1 DEF LoadMore, serverVars, selectionVars, answerVars, DashboardTypeOK
<1>5. ASSUME NEW k \in DashboardKeys, RevokeKey(k) PROVE DashboardInv'
  <2>1. DashboardTypeOK'
    BY <1>5, <1>t DEF RevokeKey, DashboardTypeOK, pageVars, selectionVars, answerVars
  <2> QED BY <1>5, <1>k, <1>t, <2>1 DEF RevokeKey, pageVars, selectionVars, answerVars, DashboardTypeOK
<1>6. ASSUME NEW k \in DashboardKeys, NEW d \in 0..(today + 1), Store(k, d) PROVE DashboardInv'
  <2> DEFINE row == [key |-> k, day |-> IF d <= today THEN d ELSE today, id |-> Cardinality(ledger)]
  <2>1. today \in Nat /\ Cardinality(ledger) \in Nat
    BY <1>t, FS_CardinalityType, DashboardAssumption DEF DashboardInv, DashboardTypeOK
  <2>2. row \in Rows /\ row.day <= today
    BY <2>1 DEF Rows
  <2>3. ledger' = ledger \cup {row} /\ UNCHANGED <<today, revokedKeys, pageVars>>
    BY <1>6 DEF Store
  <2> HIDE DEF row
  <2>4. IsFiniteSet(ledger')
    BY <2>3, FS_AddElement DEF DashboardInv
  <2>5. UNCHANGED <<today, revokedKeys, answers, stable, view, sessionRestored, days, keyFilter, logStatus, tableNow>>
    BY <2>3 DEF pageVars, selectionVars, answerVars
  <2>6. DashboardTypeOK'
    BY <1>t, <2>2, <2>3, <2>5 DEF DashboardTypeOK
  <2>7. SelectionIsAnswered' /\ TwinsAgree' /\ OverviewAgrees'
    BY <2>5 DEF DashboardInv, SelectionIsAnswered, IsSelected, IsLoaded, TwinsAgree, OverviewAgrees
  <2>8. (\A r \in ledger : r.day <= today)'
    BY <2>2, <2>3, <2>5 DEF DashboardInv
  <2>9. (\A q \in Queries : InPeriod(answers[q]) /\ InPeriod(stable[q]))'
    BY <2>5 DEF DashboardInv, InPeriod
  <2>10. (\A q \in Queries : IsLoaded(answers[q]) => answers[q].from <= answers[q].day)'
    BY <2>5 DEF DashboardInv, IsLoaded
  <2>11. (tableNow <= today)'
    BY <2>5 DEF DashboardInv
  <2> QED BY <2>4, <2>6, <2>7, <2>8, <2>9, <2>10, <2>11 DEF DashboardInv
<1>7. ASSUME NEW v \in Views, Open(v) PROVE DashboardInv'
  <2>1. \A q \in Queries : stable'[q] = NoAnswer
    BY <1>7 DEF Open, NoAnswers
  <2>2. LongRange \in Ranges
    BY DashboardAssumption
  <2>3. DashboardTypeOK'
    BY <1>7, <1>t, <2>1, <2>2, Forgotten DEF Open, DashboardTypeOK, serverVars, NoAnswers, LogStates
  <2> QED BY <1>7, <1>n, <2>1, <2>3, Forgotten DEF Open, serverVars
<1>8. ASSUME view = "usage", view' = "usage", ForgetFigures, DashboardTypeOK',
             UNCHANGED <<ledger, today, stable, tableNow>>
      PROVE  DashboardInv'
  <2>1. \A q \in Queries : answers'[q] = (IF q \in {"daily", "endpoints"} THEN NoAnswer ELSE answers[q])
    BY <1>8, <1>t DEF ForgetFigures, DashboardTypeOK
  <2>2. \A q \in Queries : InPeriod(stable'[q])
    BY <1>8 DEF DashboardInv
  <2>3. SelectionIsAnswered' /\ TwinsAgree' /\ OverviewAgrees'
    <3>1. SelectionIsAnswered'
      BY <1>8, <2>1, Forgotten DEF SelectionIsAnswered, IsLoaded
    <3>2. TwinsAgree'
      BY <1>8, <2>1 DEF TwinsAgree, DashboardInv
    <3>3. OverviewAgrees'
      BY <1>8 DEF OverviewAgrees
    <3> QED BY <3>1, <3>2, <3>3
  <2> QED BY <1>8, <1>f, <2>1, <2>2, <2>3
<1>9. ASSUME NEW d \in Ranges, SelectDays(d) PROVE DashboardInv'
  <2>1. answers' \in [Queries -> AnswerType]
    BY <1>9, <1>t, Forgotten DEF SelectDays, ForgetFigures, DashboardTypeOK
  <2>2. DashboardTypeOK'
    BY <1>9, <1>t, <2>1 DEF SelectDays, DashboardTypeOK, serverVars
  <2> QED BY <1>9, <1>8, <2>2 DEF SelectDays, serverVars
<1>10. ASSUME NEW k \in DashboardKeys \cup {Unlimited}, SelectKey(k) PROVE DashboardInv'
  <2>1. answers' \in [Queries -> AnswerType]
    BY <1>10, <1>t, Forgotten DEF SelectKey, ForgetFigures, DashboardTypeOK
  <2>2. DashboardTypeOK'
    BY <1>10, <1>t, <2>1 DEF SelectKey, DashboardTypeOK, serverVars, LogStates
  <2> QED BY <1>10, <1>8, <2>2 DEF SelectKey, serverVars
<1>11. ASSUME NEW status \in {"CanLoadMore", "Exhausted"}, LogAnswer(status) PROVE DashboardInv'
  <2>1. DashboardTypeOK'
    BY <1>11, <1>t DEF LogAnswer, DashboardTypeOK, serverVars, selectionVars, answerVars, LogStates
  <2> QED BY <1>11, <1>k, <1>t, <2>1 DEF LogAnswer, serverVars, selectionVars, answerVars, DashboardTypeOK
<1> QED BY <1>1, <1>2, <1>3, <1>4, <1>5, <1>6, <1>7, <1>9, <1>10, <1>11, DashboardDelivers DEF DashboardNext

\* FiguresAgree (Dashboard): the usage page's chart and table, the overview's figures and the
\* numbers beside the keys count the same requests, for any keys, periods and bounds.
THEOREM FiguresAgreeHolds == DashboardSpec => []FiguresAgree
<1>1. DashboardSpec => []DashboardInv
  BY DashboardInitially, DashboardStep, PTL DEF DashboardSpec
<1> QED BY <1>1, DashboardAgrees, PTL

---------------------------------------------------------------------------
(* The chart: a tooltip of the column in focus (RequestsChart). *)

\* The chart shows an interval of days, and its state is that of the column in focus when it
\* got the focus.
ChartInv ==
    /\ \E from, to \in Int : shownDays = from..to
    /\ inFocus # NoColumn => /\ inFocus \in shownDays
                             /\ focusedFrom \in Int
                             /\ focusIndex = inFocus - focusedFrom

\* The ends of an interval.
LEMMA IntervalEnds ==
    ASSUME NEW from \in Int, NEW to \in Int, from <= to, shownDays = from..to
    PROVE  FirstDay = from /\ LastDay = to
<1>1. FirstDay \in shownDays /\ \A e \in shownDays : FirstDay <= e
  <2>1. from \in shownDays /\ \A e \in shownDays : from <= e
    OBVIOUS
  <2> QED BY <2>1 DEF FirstDay
<1>2. LastDay \in shownDays /\ \A e \in shownDays : LastDay >= e
  <2>1. to \in shownDays /\ \A e \in shownDays : to >= e
    OBVIOUS
  <2> QED BY <2>1 DEF LastDay
<1> QED BY <1>1, <1>2

LEMMA ChartDescribes == ChartInv => ColumnInFocusIsDescribed
<1> SUFFICES ASSUME ChartInv, inFocus # NoColumn, active = NoColumn, focusedFrom = FirstDay
             PROVE  tooltipIndex \in Indices /\ DayOf(tooltipIndex) = inFocus
  BY DEF ColumnInFocusIsDescribed
<1>1. PICK from, to \in Int : shownDays = from..to
  BY DEF ChartInv
<1>2. inFocus \in from..to /\ from <= to /\ FirstDay = from /\ LastDay = to
  BY <1>1, IntervalEnds DEF ChartInv
<1>3. tooltipIndex = inFocus - from
  BY <1>2 DEF ChartInv, tooltipIndex
<1> QED BY <1>1, <1>2, <1>3 DEF Indices, ColumnCount, DayOf

LEMMA ChartStep == ChartInv /\ [ChartNext]_chartVars => ChartInv'
<1> SUFFICES ASSUME ChartInv, [ChartNext]_chartVars PROVE ChartInv'
  OBVIOUS
<1>1. ASSUME NEW i \in Indices, OnFocus(i) PROVE ChartInv'
  <2>1. PICK from, to \in Int : shownDays = from..to
    BY DEF ChartInv
  <2>2. from <= to /\ FirstDay = from /\ LastDay = to
    BY <1>1, <2>1, IntervalEnds DEF Indices, ColumnCount
  <2>3. i \in 0..(to - from)
    BY <1>1, <2>1, <2>2 DEF Indices, ColumnCount
  <2> QED BY <1>1, <2>1, <2>2, <2>3 DEF OnFocus, DayOf, ChartInv
<1>2. ASSUME NEW i \in Indices, OnKeyDown(i) PROVE ChartInv'
  BY <1>1, <1>2 DEF OnKeyDown
<1>3. ASSUME NEW from \in 1..ChartDays, NEW to \in 1..ChartDays, NewData(from, to) PROVE ChartInv'
  BY <1>3 DEF NewData, ChartInv
<1>4. CASE Unload
  BY <1>4 DEF Unload, ChartInv
<1>5. CASE Blur
  BY <1>5 DEF Blur, ChartInv
<1>6. ASSUME NEW to, PointerMoves(to) PROVE ChartInv'
  BY <1>6 DEF PointerMoves, ChartInv
<1>7. CASE ToggleTable
  BY <1>7 DEF ToggleTable, ChartInv
<1>8. CASE UNCHANGED chartVars
  BY <1>8 DEF chartVars, ChartInv
<1> QED BY <1>1, <1>2, <1>3, <1>4, <1>5, <1>6, <1>7, <1>8 DEF ChartNext

\* ColumnInFocusIsDescribed (RequestsChart): the column in focus has the tooltip, however often
\* the data, the pointer and the focus change, while the chart starts on the same day.
THEOREM ColumnInFocusIsDescribedHolds == ChartSpec => []ColumnInFocusIsDescribed
<1>1. ChartInit => ChartInv
  <2>1. ChartInit => shownDays = 1..0 /\ inFocus = NoColumn
    BY DEF ChartInit
  <2> QED BY <2>1 DEF ChartInv
<1> QED BY <1>1, ChartStep, ChartDescribes, PTL DEF ChartSpec

LEMMA ChartInitially == ChartInit => ChartInv /\ ChartTypeOK
<1> SUFFICES ASSUME ChartInit PROVE ChartInv /\ ChartTypeOK
  OBVIOUS
<1>1. shownDays = 1..0 /\ shownDays = {}
  BY DEF ChartInit
<1>2. ChartInv
  BY <1>1 DEF ChartInit, ChartInv
<1>3. ChartTypeOK
  <2>1. showTable \in BOOLEAN
    BY DEF ChartInit
  <2>2. shownDays \subseteq 1..ChartDays /\ (shownDays # {} => shownDays = FirstDay..LastDay)
    BY <1>1
  <2>3. {active, focusIndex} \subseteq 0..(ChartDays - 1) \cup {NoColumn}
    BY DEF ChartInit
  <2>4. inFocus \in shownDays \cup {NoColumn} /\ focusedFrom \in 1..ChartDays \cup {NoColumn}
    BY DEF ChartInit
  <2> QED BY <2>1, <2>2, <2>3, <2>4 DEF ChartTypeOK
<1> QED BY <1>2, <1>3

\* The days shown stay an interval, and an index is one of the days that the chart had.
LEMMA ChartTypesStep == ChartInv /\ ChartTypeOK /\ [ChartNext]_chartVars => ChartTypeOK'
<1> SUFFICES ASSUME ChartInv, ChartTypeOK, [ChartNext]_chartVars PROVE ChartTypeOK'
  OBVIOUS
<1> USE ChartAssumption
<1>1. UNCHANGED shownDays => UNCHANGED <<FirstDay, LastDay>>
  BY DEF FirstDay, LastDay
<1>2. \A i \in Indices : i \in 0..(ChartDays - 1) /\ DayOf(i) \in shownDays /\ FirstDay \in 1..ChartDays
  <2> TAKE i \in Indices
  <2>1. PICK from, to \in Int : shownDays = from..to
    BY DEF ChartInv
  <2>2. from <= to /\ FirstDay = from /\ LastDay = to
    BY <2>1, IntervalEnds DEF Indices, ColumnCount
  <2>3. from \in 1..ChartDays /\ to \in 1..ChartDays
    BY <2>1, <2>2 DEF ChartTypeOK
  <2> QED BY <2>1, <2>2, <2>3 DEF Indices, ColumnCount, DayOf
<1>3. ASSUME NEW i \in Indices, OnFocus(i) PROVE ChartTypeOK'
  BY <1>1, <1>2, <1>3 DEF OnFocus, ChartTypeOK
<1>4. ASSUME NEW i \in Indices, OnKeyDown(i) PROVE ChartTypeOK'
  BY <1>3, <1>4 DEF OnKeyDown
<1>5. ASSUME NEW from \in 1..ChartDays, NEW to \in 1..ChartDays, NewData(from, to) PROVE ChartTypeOK'
  <2>1. from <= to /\ shownDays' = from..to
    BY <1>5 DEF NewData
  <2>2. FirstDay' = from /\ LastDay' = to
    <3>1. from \in shownDays' /\ \A d \in shownDays' : from <= d
      BY <2>1
    <3>2. to \in shownDays' /\ \A d \in shownDays' : to >= d
      BY <2>1
    <3>3. \A d \in shownDays' : d \in Int
      BY <2>1
    <3>4. FirstDay' \in shownDays' /\ \A d \in shownDays' : FirstDay' <= d
      BY <3>1 DEF FirstDay
    <3>5. LastDay' \in shownDays' /\ \A d \in shownDays' : LastDay' >= d
      BY <3>2 DEF LastDay
    <3>6. from \in Int /\ to \in Int /\ FirstDay' \in Int /\ LastDay' \in Int
      BY <3>3, <3>4, <3>5
    <3>7. from <= FirstDay' /\ FirstDay' <= from /\ to >= LastDay' /\ LastDay' >= to
      BY <3>1, <3>2, <3>4, <3>5
    <3> QED BY <3>6, <3>7
  <2>3. shownDays' \subseteq 1..ChartDays
    BY <2>1
  <2>4. inFocus' \in shownDays' \cup {NoColumn}
    BY <1>5 DEF NewData
  <2>5. shownDays' = FirstDay'..LastDay'
    BY <2>1, <2>2
  <2> QED BY <1>5, <2>3, <2>4, <2>5 DEF NewData, ChartTypeOK
<1>6. CASE Unload
  BY <1>6 DEF Unload, ChartTypeOK
<1>7. CASE Blur
  BY <1>1, <1>7 DEF Blur, ChartTypeOK
<1>8. ASSUME NEW to \in Indices \cup {NoColumn}, PointerMoves(to) PROVE ChartTypeOK'
  <2>1. to \in 0..(ChartDays - 1) \cup {NoColumn}
    BY <1>2
  <2> QED BY <1>1, <1>8, <2>1 DEF PointerMoves, ChartTypeOK
<1>9. CASE ToggleTable
  BY <1>1, <1>9 DEF ToggleTable, ChartTypeOK
<1>10. CASE UNCHANGED chartVars
  BY <1>1, <1>10 DEF chartVars, ChartTypeOK
<1> QED BY <1>3, <1>4, <1>5, <1>6, <1>7, <1>8, <1>9, <1>10 DEF ChartNext

\* Whatever data comes and wherever the focus goes, the chart shows an interval of days, or none,
\* a column in focus is one of it, and an index is that of some day (RequestsChart).
THEOREM ChartTypes == ChartSpec => []ChartTypeOK
<1> QED BY ChartInitially, ChartStep, ChartTypesStep, PTL DEF ChartSpec

---------------------------------------------------------------------------
(* The billing page. *)

LEMMA BillingInitially == BillingInit => BillingTypeOK
<1> SUFFICES ASSUME BillingInit PROVE BillingTypeOK
  OBVIOUS
<1> USE BillingAssumption
<1>1. created \in 0..MaxPayments /\ checkout \in 0..created /\ asked \subseteq 1..created
  BY DEF BillingInit, NoCheckout
<1>2. /\ qpay \in [PaymentIds -> {"open", "paid", "refused"}]
      /\ stored \in [PaymentIds -> {"pending", "succeeded", "failed"}]
  BY DEF BillingInit
<1>3. {starting, billingError} \subseteq BOOLEAN
  BY DEF BillingInit
<1>4. paymentStatus \in {"loading", "pending", "succeeded", "failed"} /\ freeTier \in {"off", "activating", "on"}
  BY DEF BillingInit
<1> QED BY <1>1, <1>2, <1>3, <1>4 DEF BillingTypeOK

LEMMA BillingStep == BillingTypeOK /\ [BillingNext]_billingVars => BillingTypeOK'
<1> SUFFICES ASSUME BillingTypeOK, [BillingNext]_billingVars PROVE BillingTypeOK'
  OBVIOUS
<1> USE BillingAssumption DEF BillingTypeOK, NoCheckout
<1>1. CASE Buy
  BY <1>1 DEF Buy
<1>2. CASE CheckoutAnswer
  <2>1. created' \in 0..MaxPayments /\ checkout' \in 0..created'
    BY <1>2 DEF CheckoutAnswer
  <2>2. asked' \subseteq 1..created'
    BY <1>2 DEF CheckoutAnswer
  <2>3. {starting, billingError}' \subseteq BOOLEAN
    BY <1>2 DEF CheckoutAnswer
  <2> QED BY <1>2, <2>1, <2>2, <2>3 DEF CheckoutAnswer
<1>3. CASE CheckoutFails
  <2>1. created' \in 0..MaxPayments /\ created <= created'
    BY <1>3 DEF CheckoutFails
  <2>2. asked' \subseteq 1..created' /\ checkout' \in 0..created'
    BY <1>3, <2>1 DEF CheckoutFails
  <2>3. {starting, billingError}' \subseteq BOOLEAN
    BY <1>3 DEF CheckoutFails
  <2> QED BY <1>3, <2>1, <2>2, <2>3 DEF CheckoutFails
<1>4. CASE CloseCheckout
  BY <1>4 DEF CloseCheckout
<1>5. CASE AskPayment
  BY <1>5 DEF AskPayment
<1>6. CASE LiveQuery
  <2>1. stored[checkout] \in {"pending", "succeeded", "failed"}
    BY <1>6 DEF LiveQuery, PaymentIds
  <2> QED BY <1>6, <2>1 DEF LiveQuery
<1>7. CASE ActivateFree
  BY <1>7 DEF ActivateFree
<1>8. ASSUME NEW i \in PaymentIds, Settle(i)
      PROVE stored' \in [PaymentIds -> {"pending", "succeeded", "failed"}]
  BY <1>8 DEF Settle, Settled
<1>9. ASSUME NEW i \in PaymentIds, RefreshAnswer(i) PROVE BillingTypeOK'
  BY <1>8, <1>9 DEF RefreshAnswer
<1>10. ASSUME NEW i \in PaymentIds, RefreshFails(i) PROVE BillingTypeOK'
  BY <1>10 DEF RefreshFails
<1>11. ASSUME NEW i \in PaymentIds, Webhook(i) PROVE BillingTypeOK'
  BY <1>8, <1>11 DEF Webhook
<1>12. ASSUME NEW i \in PaymentIds, NEW how \in {"paid", "refused"}, Pay(i, how) PROVE BillingTypeOK'
  BY <1>12 DEF Pay
<1>13. ASSUME NEW ok \in BOOLEAN, FreeAnswer(ok) PROVE BillingTypeOK'
  BY <1>13 DEF FreeAnswer
<1>14. CASE UNCHANGED billingVars
  BY <1>14 DEF billingVars
<1> QED BY <1>1, <1>2, <1>3, <1>4, <1>5, <1>6, <1>7, <1>9, <1>10, <1>11, <1>12, <1>13, <1>14 DEF BillingNext

\* However checkouts, refreshes, callbacks and payments overlap, the dialog and the refreshes in
\* flight are of payments that were created (BillingPage).
THEOREM BillingTypes == BillingSpec => []BillingTypeOK
  BY BillingInitially, BillingStep, PTL DEF BillingSpec

---------------------------------------------------------------------------
(* The sign-in pages. *)

LEMMA SignInInitially == SignInInit => SignInTypeOK
<1> SUFFICES ASSUME SignInInit PROVE SignInTypeOK
  OBVIOUS
<1>1. {jwt, alive, header} \subseteq BOOLEAN /\ (alive => jwt)
  BY DEF SignInInit
<1>2. attempts \in 0..AuthMax + 1
  BY SignInAssumption DEF SignInInit
<1>3. /\ {path, next} \subseteq Pages
      /\ hop \in {"none", "proxy", "layout"} /\ form \in Forms \cup {NoForm}
  BY DEF SignInInit, Pages
<1> QED BY <1>1, <1>2, <1>3 DEF SignInTypeOK

LEMMA SignInStep == SignInTypeOK /\ [SignInNext]_signInVars => SignInTypeOK'
<1> SUFFICES ASSUME SignInTypeOK, [SignInNext]_signInVars PROVE SignInTypeOK'
  OBVIOUS
<1> USE SignInAssumption DEF SignInTypeOK, Pages, Guest, Forms, AuthForms, NoForm, GoesTo
<1>1. OneMore \in 0..AuthMax + 1
  BY DEF OneMore
<1>2. CASE LoginForm \/ RegisterForm \/ ForgotPasswordForm \/ ResetPasswordForm \/ ProfileCard \/ PasswordCard
  BY <1>1, <1>2 DEF LoginForm, RegisterForm, ForgotPasswordForm, ResetPasswordForm, ProfileCard, PasswordCard, Submits
<1>3. CASE ProxyDecides \/ LayoutDecides
  BY <1>3 DEF ProxyDecides, LayoutDecides
<1>4. CASE FormFails \/ CodeSent \/ ProfileSaved \/ PasswordChanged
  <2>1. CASE FormFails
    BY <2>1 DEF FormFails
  <2>2. CASE CodeSent \/ PasswordChanged
    BY <2>2 DEF CodeSent, PasswordChanged
  <2>3. CASE ProfileSaved
    BY <2>3 DEF ProfileSaved
  <2> QED BY <1>4, <2>1, <2>2, <2>3
<1>5. CASE SignedIn \/ PasswordReset
  BY <1>5 DEF SignedIn, PasswordReset, OpensSession, safeNextPath
<1>6. CASE SignsOut
  BY <1>1, <1>6 DEF SignsOut
<1>7. CASE NextWindow \/ HeaderReads \/ EndedElsewhere \/ TokenExpires
  <2>1. CASE NextWindow
    BY <2>1 DEF NextWindow
  <2>2. CASE HeaderReads
    <3>1. header' \in BOOLEAN
      BY <2>2 DEF HeaderReads
    <3> QED BY <2>2, <3>1 DEF HeaderReads
  <2>3. CASE EndedElsewhere
    BY <2>3 DEF EndedElsewhere
  <2>4. CASE TokenExpires
    <3>1. alive' = FALSE /\ jwt' = FALSE
      BY <2>4 DEF TokenExpires
    <3> QED BY <2>4, <3>1 DEF TokenExpires
  <2> QED BY <1>7, <2>1, <2>2, <2>3, <2>4
<1>8. ASSUME NEW page \in Pages, Navigate(page) PROVE SignInTypeOK'
  BY <1>8 DEF Navigate
<1>9. CASE UNCHANGED signInVars
  BY <1>9 DEF signInVars
<1> QED BY <1>2, <1>3, <1>4, <1>5, <1>6, <1>7, <1>8, <1>9 DEF SignInNext, handleSignOut, AuthNavSignOut

\* A session lives only in a browser that has a token for it, the throttle counts up to one more
\* than its limit, and every page reached is one of the site (proxy, layout, forms).
THEOREM SignInTypes == SignInSpec => []SignInTypeOK
  BY SignInInitially, SignInStep, PTL DEF SignInSpec

---------------------------------------------------------------------------
(* The forms that send requests to the API. *)

\* What a form is filled in with can be typed into it.
LEMMA DefaultsAreTyped ==
    ASSUME NEW forms \in PlaygroundForms \cup DemoForms
    PROVE  /\ DOMAIN Defaults(forms) = FieldsOf(forms)
           /\ \A f \in FieldsOf(forms) : Defaults(forms)[f] \in TextsOf(f)
<1>1. \A f \in FieldsOf(forms) : DefaultText(f) \in TextsOf(f)
  <2>1. DefaultText("q") \in TextsOf("q")
    BY RequestFormAssumption DEF DefaultText, TextsOf, Texts
  <2>2. DefaultText("limit") \in TextsOf("limit")
    BY RequestFormAssumption DEF DefaultText, TextsOf, Numbers
  <2>3. \A f \in {"origin", "destination"} : DefaultText(f) \in TextsOf(f)
    BY DEF DefaultText, TextsOf, Points
  <2> QED BY <2>1, <2>2, <2>3 DEF FieldsOf
<1> QED BY <1>1 DEF Defaults

LEMMA RequestFormInitially == RequestFormInit => RequestFormTypeOK
  BY DefaultsAreTyped DEF RequestFormInit, RequestFormTypeOK, PlaygroundForms, DemoForms, Outcomes

LEMMA RequestFormStep == RequestFormTypeOK /\ [RequestFormNext]_requestFormVars => RequestFormTypeOK'
<1> SUFFICES ASSUME RequestFormTypeOK, [RequestFormNext]_requestFormVars PROVE RequestFormTypeOK'
  OBVIOUS
<1>1. UNCHANGED <<formPage, typed>> => UNCHANGED FormAllows
  BY DEF FormAllows
<1>2. ASSUME NEW forms \in PlaygroundForms \cup DemoForms, OpenForm(forms) PROVE RequestFormTypeOK'
  BY <1>2, DefaultsAreTyped DEF OpenForm, RequestFormTypeOK, Outcomes
<1>3. ASSUME NEW field \in FieldsOf(formPage), NEW what \in TextsOf(field), TypeText(field, what)
      PROVE RequestFormTypeOK'
  <2>1. UNCHANGED <<formPage, submitted, requested, outcome>> /\ typed' = [typed EXCEPT ![field] = what]
    BY <1>3 DEF TypeText
  <2>2. DOMAIN typed' = FieldsOf(formPage) /\ \A f \in FieldsOf(formPage) : typed'[f] \in TextsOf(f)
    BY <2>1 DEF RequestFormTypeOK
  <2>3. faults' = (submitted' /\ ~FormAllows')
    BY <1>3, <2>1 DEF TypeText
  <2> QED BY <2>1, <2>2, <2>3 DEF RequestFormTypeOK
<1>4. CASE SubmitForm
  <2>1. faults' = (submitted' /\ ~FormAllows')
    BY <1>1, <1>4 DEF SubmitForm
  <2>2. requested' \in {"none", "paused", "valid", "invalid"}
    BY <1>4 DEF SubmitForm, Ask, RequestFormTypeOK
  <2> QED BY <1>4, <2>1, <2>2 DEF SubmitForm, RequestFormTypeOK
<1>5. CASE RunDemo
  <2>1. faults' = (submitted' /\ ~FormAllows')
    BY <1>1, <1>5 DEF RunDemo, RequestFormTypeOK
  <2>2. requested' \in {"none", "paused", "valid", "invalid"}
    BY <1>5 DEF RunDemo, Ask, RequestFormTypeOK
  <2> QED BY <1>5, <2>1, <2>2 DEF RunDemo, RequestFormTypeOK, Outcomes
<1>6. ASSUME NEW failed \in BOOLEAN, ApiAnswers(failed) PROVE RequestFormTypeOK'
  <2>1. faults' = (submitted' /\ ~FormAllows')
    BY <1>1, <1>6 DEF ApiAnswers, RequestFormTypeOK
  <2> QED BY <1>6, <2>1 DEF ApiAnswers, RequestFormTypeOK, Outcomes
<1>7. CASE UNCHANGED requestFormVars
  <2>1. faults' = (submitted' /\ ~FormAllows')
    BY <1>1, <1>7 DEF requestFormVars, RequestFormTypeOK
  <2> QED BY <1>7, <2>1 DEF requestFormVars, RequestFormTypeOK
<1>8. CASE ResumeDemo
  <2>1. faults' = (submitted' /\ ~FormAllows')
    BY <1>1, <1>8 DEF ResumeDemo, RequestFormTypeOK
  <2>2. requested' \in {"valid", "invalid"}
    BY <1>8 DEF ResumeDemo, Ask
  <2> QED BY <1>8, <2>1, <2>2 DEF ResumeDemo, RequestFormTypeOK
<1> QED BY <1>2, <1>3, <1>4, <1>5, <1>6, <1>7, <1>8 DEF RequestFormNext

\* However one types, submits and changes forms, messages are shown exactly when a form that was
\* submitted would not be sent, and its texts are those of its fields (request forms).
THEOREM RequestFormTypes == RequestFormSpec => []RequestFormTypeOK
  BY RequestFormInitially, RequestFormStep, PTL DEF RequestFormSpec

---------------------------------------------------------------------------
(* All of them. *)

\* What the pages of the website that ask again before they are answered show, or wait for,
\* is the answer to what was asked last, for any number of points, texts, calls, submissions,
\* keys and requests.
THEOREM AnswersAreCurrentHolds ==
    MapSpec /\ BoxSpec /\ PlaygroundSpec /\ DashboardSpec /\ ChartSpec => []AnswersAreCurrent
<1>1. WaitsAreAnswered /\ ResultsAreForText /\ LastSentIsShown /\ FiguresAgree
        /\ ColumnInFocusIsDescribed => AnswersAreCurrent
  BY DEF AnswersAreCurrent
<1> QED BY <1>1, WaitsAreAnsweredHolds, ResultsAreForTextHolds, LastSentIsShownHolds,
     FiguresAgreeHolds, ColumnInFocusIsDescribedHolds, PTL
=============================================================================
