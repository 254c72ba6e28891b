------------------------------- MODULE KeysPage -------------------------------
(***************************************************************************)
(* The API keys page: its modal dialogs, the calls they wait for, and the  *)
(* secret that is shown exactly once.  Whether the account may use keys is *)
(* followed live, and hides the create dialog and the items that need it.  *)
(* The table and the texts of the dialogs are left out.                    *)
(***************************************************************************)
EXTENDS Integers

CONSTANT MaxSecrets  \* bound: secrets made while the page is open

ASSUME KeysPageAssumption == MaxSecrets \in Nat

VARIABLES
    hasKeyAccess,
    createOpen, creating,  \* the create dialog, and its form's isSubmitting
    dialog, acting,        \* pending.action, and whether its call is in flight
    revealed,              \* the secret on display, numbered
    made                   \* secrets answered so far

keysPageVars == <<hasKeyAccess, createOpen, creating, dialog, acting, revealed, made>>

NoSecret == 0
NoDialog == "none"
Dialogs == {"rename", "revoke", "regenerate"}

\* ?create=1 opens the page with the dialog.
PageInit ==
    /\ hasKeyAccess = FALSE /\ createOpen = TRUE /\ creating = FALSE
    /\ dialog = NoDialog /\ acting = FALSE /\ revealed = NoSecret /\ made = 0

CreateShown == hasKeyAccess /\ createOpen

\* Nothing behind a modal dialog can be used.
PageUsable == ~CreateShown /\ dialog = NoDialog /\ revealed = NoSecret

\* A plan ends or begins.  Assumed: not both while one create call is in flight, for the
\* form forgets that call when its dialog opens again.
AccessChanges ==
    /\ creating => hasKeyAccess
    /\ hasKeyAccess' = ~hasKeyAccess
    /\ UNCHANGED <<createOpen, creating, dialog, acting, revealed, made>>

Reveal ==
    /\ made < MaxSecrets /\ made' = made + 1
    /\ revealed' = made + 1

OpenCreate ==
    /\ hasKeyAccess /\ PageUsable /\ createOpen' = TRUE
    /\ UNCHANGED <<hasKeyAccess, creating, dialog, acting, revealed, made>>

\* Mutant: the dialog can be dismissed while its form is submitting.
CloseCreateAnytime ==
    /\ CreateShown /\ createOpen' = FALSE
    /\ UNCHANGED <<hasKeyAccess, creating, dialog, acting, revealed, made>>

CloseCreate ==
    /\ CreateShown /\ ~creating /\ createOpen' = FALSE
    /\ UNCHANGED <<hasKeyAccess, creating, dialog, acting, revealed, made>>

SubmitCreate ==
    /\ CreateShown /\ ~creating /\ creating' = TRUE
    /\ UNCHANGED <<hasKeyAccess, createOpen, dialog, acting, revealed, made>>

\* handleCreate: an error leaves the dialog open.
CreateAnswer(ok) ==
    /\ creating /\ creating' = FALSE
    /\ IF ok THEN Reveal /\ createOpen' = FALSE ELSE UNCHANGED <<createOpen, revealed, made>>
    /\ UNCHANGED <<hasKeyAccess, dialog, acting>>

\* Regenerate is offered only with key access.
OpenDialog(d) ==
    /\ PageUsable /\ (d = "regenerate" => hasKeyAccess)
    /\ dialog' = d
    /\ UNCHANGED <<hasKeyAccess, createOpen, creating, acting, revealed, made>>

CloseDialog ==
    /\ dialog # NoDialog /\ ~acting /\ dialog' = NoDialog
    /\ UNCHANGED <<hasKeyAccess, createOpen, creating, acting, revealed, made>>

Confirm ==
    /\ dialog # NoDialog /\ ~acting /\ acting' = TRUE
    /\ UNCHANGED <<hasKeyAccess, createOpen, creating, dialog, revealed, made>>

\* handleRename, handleRevoke, handleRegenerate: an error leaves the dialog open.
ActionAnswer(ok) ==
    /\ acting /\ acting' = FALSE
    /\ dialog' = IF ok THEN NoDialog ELSE dialog
    /\ IF ok /\ dialog = "regenerate" THEN Reveal ELSE UNCHANGED <<revealed, made>>
    /\ UNCHANGED <<hasKeyAccess, createOpen, creating>>

\* Only "Done" closes the dialog with the secret, which forgets it.
Done ==
    /\ revealed # NoSecret /\ revealed' = NoSecret
    /\ UNCHANGED <<hasKeyAccess, createOpen, creating, dialog, acting, made>>

KeysPageNext ==
    \/ AccessChanges \/ OpenCreate \/ CloseCreate \/ SubmitCreate \/ CloseDialog \/ Confirm \/ Done
    \/ \E d \in Dialogs : OpenDialog(d)
    \/ \E ok \in BOOLEAN : CreateAnswer(ok) \/ ActionAnswer(ok)

KeysPageSpec == PageInit /\ [][KeysPageNext]_keysPageVars

---------------------------------------------------------------------------
(* Properties. *)

KeysPageTypeOK ==
    /\ {hasKeyAccess, createOpen, creating, acting} \subseteq BOOLEAN
    /\ dialog \in Dialogs \cup {NoDialog} /\ (acting => dialog # NoDialog)
    /\ {revealed, made} \subseteq 0..MaxSecrets

\* A new secret never takes the place of one that is still on display: the page cannot
\* have two calls in flight that both answer with a secret.
SecretsAreShown == [][revealed # NoSecret => revealed' \in {revealed, NoSecret}]_keysPageVars
=============================================================================
