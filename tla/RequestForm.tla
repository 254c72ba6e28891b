----------------------------- MODULE RequestForm -----------------------------
(***************************************************************************)
(* The forms that send requests to the API: the playground's two and the   *)
(* two of the developers' page, with what each checks before it sends and  *)
(* what the API checks after.  A text is what the checks tell apart of it. *)
(* One request at a time: how those of the playground overlap is a matter  *)
(* of module Playground.  The mode is one of a menu and always right.      *)
(***************************************************************************)
EXTENDS Integers

CONSTANTS
    MinText, MaxText,  \* 2 and 200 characters, MIN_QUERY_LENGTH and MAX_QUERY_LENGTH
    DemoMaxText,       \* demo_max_query_length
    MaxLimit,          \* 20 results
    LongestText        \* bound: characters typed

ASSUME RequestFormAssumption ==
    /\ {MinText, MaxText, DemoMaxText, MaxLimit} \subseteq Nat \ {0}
    /\ MinText <= MaxText /\ MinText <= DemoMaxText /\ LongestText \in Nat /\ MinText <= LongestText

VARIABLES
    formPage,   \* the form that is open
    typed,      \* the texts in it
    submitted,  \* the form was submitted: from then on it is checked as one types
    faults,     \* messages are shown at its fields
    requested,  \* "none", "paused", or the request in flight, by what the API makes of it
    outcome     \* the result that is shown

requestFormVars == <<formPage, typed, submitted, faults, requested, outcome>>

PlaygroundForms == {"geocode", "route"}
DemoForms == {"demoGeocode", "demoRoute"}
Outcomes == {"none", "answer", "invalid", "error"}

\* Length without the space around, and after everything but letters and digits was removed.
Texts == {t \in [length : 0..LongestText, letters : 0..LongestText] : t.letters <= t.length}

\* The value, if it is a number, and how it is written: 10, 1e1, 1_0, ten.
Numbers == [notation : {"empty", "decimal", "exponent", "grouped", "words"}, value : 0..(MaxLimit + 1)]

\* "longitude,latitude"; plain: no space but blanks; short: three digits, fifteen decimals.
Points == [shaped : BOOLEAN, inRange : BOOLEAN, plain : BOOLEAN, short : BOOLEAN]

FieldsOf(form) == IF form \in {"geocode", "demoGeocode"} THEN {"q", "limit"} ELSE {"origin", "destination"}
TextsOf(field) == CASE field = "q" -> Texts [] field = "limit" -> Numbers [] OTHER -> Points

\* The forms are filled in when they open; the developers' page asks for five results itself.
DefaultText(field) ==
    CASE field = "q" -> [length |-> MinText, letters |-> MinText]
      [] field = "limit" -> [notation |-> "decimal", value |-> 1]
      [] OTHER -> [shaped |-> TRUE, inRange |-> TRUE, plain |-> TRUE, short |-> TRUE]
Defaults(form) == [f \in FieldsOf(form) |-> DefaultText(f)]

---------------------------------------------------------------------------
(* The checks. *)

\* JavaScript's Number.
NumberAllowed(n) ==
    n.notation = "empty" \/ (n.notation \in {"decimal", "exponent"} /\ n.value \in 1..MaxLimit)

FormAllows ==
    CASE formPage = "geocode" -> typed["q"].length \in MinText..MaxText /\ NumberAllowed(typed["limit"])
      [] formPage = "route" -> \A f \in FieldsOf("route") : typed[f].shaped /\ typed[f].inRange
      [] formPage = "demoGeocode" -> typed["q"].length >= MinText
      [] formPage = "demoRoute" -> \A f \in FieldsOf("demoRoute") : typed[f].shaped

\* Python's int, as the API's framework reads it; an empty limit was not sent.
LimitParsed(n) ==
    n.notation = "empty" \/ (n.notation \in {"decimal", "grouped"} /\ n.value \in 1..MaxLimit)

\* parse_coordinate.  The playground sends no space at all.
PointParsed(p) == p.shaped /\ p.inRange /\ p.short /\ (formPage = "route" \/ p.plain)

ApiAllows ==
    IF "q" \in FieldsOf(formPage)
    THEN /\ typed["q"].length \in MinText..(IF formPage = "geocode" THEN MaxText ELSE DemoMaxText)
         /\ typed["q"].letters >= MinText /\ LimitParsed(typed["limit"])
    ELSE \A f \in FieldsOf(formPage) : PointParsed(typed[f])

---------------------------------------------------------------------------
RequestFormInit ==
    /\ formPage = "geocode" /\ typed = Defaults(formPage)
    /\ submitted = FALSE /\ faults = FALSE /\ requested = "none" /\ outcome = "none"

\* Another page, or the other tab of the developers' page: what was before is forgotten.
OpenForm(form) ==
    /\ form # formPage
    /\ formPage' = form /\ typed' = Defaults(form)
    /\ submitted' = FALSE /\ faults' = FALSE /\ requested' = "none" /\ outcome' = "none"

TypeText(field, text) ==
    /\ formPage = "demoGeocode" => field = "q"
    /\ UNCHANGED <<formPage, submitted, requested, outcome>>
    /\ typed' = [typed EXCEPT ![field] = text]
    /\ faults' = (submitted /\ ~FormAllows')

Ask == requested' = IF ApiAllows THEN "valid" ELSE "invalid"

\* The playground says what is wrong, and keeps the last result until the next one.
SubmitForm ==
    /\ formPage \in PlaygroundForms /\ requested = "none"
    /\ submitted' = TRUE /\ faults' = ~FormAllows
    /\ IF FormAllows THEN Ask ELSE UNCHANGED requested
    /\ UNCHANGED <<formPage, typed, outcome>>

\* The button of the developers' page is disabled instead, and the last result is gone.
\* Offline the request is paused.
RunDemo ==
    /\ formPage \in DemoForms /\ requested = "none" /\ FormAllows
    /\ Ask \/ (formPage = "demoRoute" /\ requested' = "paused")
    /\ outcome' = "none"
    /\ UNCHANGED <<formPage, typed, submitted, faults>>

\* Online again: the function of the mutation reads the coordinates that are in the form by
\* then, while the text of a search was handed over when it was paused.
ResumeDemo ==
    /\ requested = "paused" /\ Ask
    /\ UNCHANGED <<formPage, typed, submitted, faults, outcome>>

\* A refused credential, a limit or a lost connection come before the API's checks, or instead.
ApiAnswers(failed) ==
    /\ requested \in {"valid", "invalid"} /\ requested' = "none"
    /\ outcome' = IF failed THEN "error" ELSE IF requested = "valid" THEN "answer" ELSE "invalid"
    /\ UNCHANGED <<formPage, typed, submitted, faults>>

RequestFormNext ==
    \/ SubmitForm \/ RunDemo \/ ResumeDemo
    \/ \E form \in PlaygroundForms \cup DemoForms : OpenForm(form)
    \/ \E field \in FieldsOf(formPage) : \E text \in TextsOf(field) : TypeText(field, text)
    \/ \E failed \in BOOLEAN : ApiAnswers(failed)

RequestFormSpec == RequestFormInit /\ [][RequestFormNext]_requestFormVars

---------------------------------------------------------------------------
(* Properties. *)

RequestFormTypeOK ==
    /\ formPage \in PlaygroundForms \cup DemoForms
    /\ DOMAIN typed = FieldsOf(formPage) /\ \A f \in FieldsOf(formPage) : typed[f] \in TextsOf(f)
    /\ submitted \in BOOLEAN /\ faults = (submitted /\ ~FormAllows)
    /\ requested \in {"none", "paused", "valid", "invalid"} /\ outcome \in Outcomes

\* "Endpoints the playground can call, with client-side checks that mirror the API"
\* (playground/endpoints.ts:3): what the playground sends, the API does not refuse as invalid.
FormMirrorsApi == formPage \in PlaygroundForms => outcome # "invalid"
=============================================================================
