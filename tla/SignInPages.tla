----------------------------- MODULE SignInPages -----------------------------
(***************************************************************************)
(* One browser between the pages that need a session and those for guests: *)
(* the redirects of the proxy and of the dashboard's layout, the forms     *)
(* behind POST /api/auth with its throttle, the settings, sign-out, and    *)
(* what the header believes.  The browser's token outlives a session that  *)
(* was ended elsewhere.  Tokens and refreshes are those of the auth        *)
(* library; the forms' fields and messages are left out.                   *)
(***************************************************************************)
EXTENDS Integers

CONSTANT AuthMax  \* AUTH_MAX_REQUESTS in a window

ASSUME SignInAssumption == AuthMax \in Nat

VARIABLES
    jwt, alive,  \* the browser has a token that is valid; its session still exists
    path,        \* the page on display, or the one that is requested
    hop,         \* who decides about the request: "proxy", "layout" or "none" any more
    next,        \* where to go after the sign-in
    form,        \* the form that is submitting
    attempts,    \* authAttempts of this visitor in the window
    header       \* the cached answer of /api/session

signInVars == <<jwt, alive, path, hop, next, form, attempts, header>>

Guest == {"login", "register"}
Pages == Guest \cup {"home", "forgot", "reset", "dashboard"}
AuthForms == Guest \cup {"forgot", "reset"}
Forms == AuthForms \cup {"profile", "password"}
NoForm == "none"

SignInInit ==
    /\ jwt = FALSE /\ alive = FALSE
    /\ path = "home" /\ hop = "none" /\ next = "dashboard"
    /\ form = NoForm /\ attempts = 0 /\ header = FALSE

---------------------------------------------------------------------------
(* Navigation. *)

GoesTo(p) == path' = p /\ hop' = "proxy"

\* A link, an address typed, or a reload.
Navigate(p) ==
    /\ hop = "none" /\ form = NoForm
    /\ GoesTo(p) /\ next' = "dashboard"
    /\ UNCHANGED <<jwt, alive, form, attempts, header>>

\* auth.isAuthenticated() asks for a valid token and not for the session.
isAuthenticated == jwt

\* Mutant: the layout asks for the session.
LayoutAsksSession == jwt /\ alive

LayoutAuthenticated == jwt

ProxyDecides ==
    /\ hop = "proxy"
    /\ IF path = "dashboard" /\ ~isAuthenticated THEN GoesTo("login") /\ next' = path
       ELSE IF path \in Guest /\ isAuthenticated THEN GoesTo("dashboard") /\ UNCHANGED next
       ELSE hop' = (IF path = "dashboard" THEN "layout" ELSE "none") /\ UNCHANGED <<path, next>>
    /\ UNCHANGED <<jwt, alive, form, attempts, header>>

LayoutDecides ==
    /\ hop = "layout"
    /\ IF LayoutAuthenticated THEN hop' = "none" /\ UNCHANGED <<path, next>>
                              ELSE GoesTo("login") /\ next' = "dashboard"
    /\ UNCHANGED <<jwt, alive, form, attempts, header>>

---------------------------------------------------------------------------
(* The forms. *)

\* authRateLimited counts every call of POST /api/auth.
OneMore == IF attempts <= AuthMax THEN attempts + 1 ELSE attempts

\* A submit button is disabled while its form is submitting.
Submits(f, page) ==
    /\ hop = "none" /\ form = NoForm /\ path = page
    /\ form' = f
    /\ attempts' = IF f \in AuthForms THEN OneMore ELSE attempts
    /\ UNCHANGED <<jwt, alive, path, hop, next, header>>

LoginForm == Submits("login", "login")
RegisterForm == Submits("register", "register")
ForgotPasswordForm == Submits("forgot", "forgot")
ResetPasswordForm == Submits("reset", "reset")
ProfileCard == Submits("profile", "dashboard")
PasswordCard == Submits("password", "dashboard")

\* The throttle refuses those over the limit.
Admitted == attempts <= AuthMax

\* Refused by the throttle, the origin check, Convex, or not reached: the page stays.
\* Only the request of a reset code goes on, so as not to tell which emails have accounts.
FormFails ==
    /\ form # NoForm /\ form' = NoForm
    /\ (form = "forgot" /\ GoesTo("reset")) \/ UNCHANGED <<path, hop>>
    /\ UNCHANGED <<jwt, alive, next, attempts, header>>

safeNextPath(p) == IF p \in Guest THEN "dashboard" ELSE p

\* Signed in: the header's session is read again before the next page is opened.
OpensSession(page) ==
    /\ Admitted
    /\ form' = NoForm /\ jwt' = TRUE /\ alive' = TRUE /\ header' = TRUE
    /\ GoesTo(page)
    /\ UNCHANGED <<next, attempts>>

SignedIn == form \in Guest /\ OpensSession(safeNextPath(next))

PasswordReset == form = "reset" /\ OpensSession("dashboard")

CodeSent ==
    /\ form = "forgot" /\ Admitted
    /\ form' = NoForm /\ GoesTo("reset")
    /\ UNCHANGED <<jwt, alive, next, attempts, header>>

\* updateProfile and changePassword keep this browser's session.
ProfileSaved ==
    /\ form = "profile" /\ jwt /\ alive
    /\ form' = NoForm /\ header' = TRUE
    /\ UNCHANGED <<jwt, alive, path, hop, next, attempts>>

PasswordChanged ==
    /\ form = "password" /\ jwt /\ alive
    /\ form' = NoForm
    /\ UNCHANGED <<jwt, alive, path, hop, next, attempts, header>>

\* Through POST /api/auth as well: nobody looks at its answer, and a refused sign-out
\* only shows in the header.
SignsOut ==
    /\ hop = "none" /\ form = NoForm
    /\ attempts' = OneMore
    /\ IF attempts' > AuthMax THEN UNCHANGED <<jwt, alive>> ELSE jwt' = FALSE /\ alive' = FALSE
    /\ header' = alive' /\ GoesTo("home")
    /\ UNCHANGED <<next, form>>

\* From the settings or the menu of the dashboard; from the header of the public pages.
handleSignOut == path = "dashboard" /\ SignsOut
AuthNavSignOut == path = "home" /\ header /\ SignsOut

---------------------------------------------------------------------------
(* Around them. *)

NextWindow == attempts > 0 /\ attempts' = 0 /\ UNCHANGED <<jwt, alive, path, hop, next, form, header>>

\* api/session asks for the viewer, whom only a living session has.
HeaderReads == header' = (jwt /\ alive) /\ UNCHANGED <<jwt, alive, path, hop, next, form, attempts>>

\* Another browser changes the password, or the account is locked.
EndedElsewhere == alive /\ alive' = FALSE /\ UNCHANGED <<jwt, path, hop, next, form, attempts, header>>

\* A token is renewed while its session lives, and runs out otherwise.
TokenExpires == jwt /\ ~alive /\ jwt' = FALSE /\ UNCHANGED <<alive, path, hop, next, form, attempts, header>>

SignInNext ==
    \/ LoginForm \/ RegisterForm \/ ForgotPasswordForm \/ ResetPasswordForm \/ ProfileCard \/ PasswordCard
    \/ ProxyDecides \/ LayoutDecides \/ FormFails \/ SignedIn \/ PasswordReset \/ CodeSent
    \/ ProfileSaved \/ PasswordChanged \/ handleSignOut \/ AuthNavSignOut \/ NextWindow \/ HeaderReads \/ EndedElsewhere \/ TokenExpires
    \/ \E p \in Pages : Navigate(p)

\* The servers answer.
SignInFairness == WF_signInVars(ProxyDecides) /\ WF_signInVars(LayoutDecides)

SignInSpec == SignInInit /\ [][SignInNext]_signInVars /\ SignInFairness

---------------------------------------------------------------------------
(* Properties. *)

SignInTypeOK ==
    /\ {jwt, alive, header} \subseteq BOOLEAN /\ {path, next} \subseteq Pages
    /\ hop \in {"none", "proxy", "layout"} /\ form \in Forms \cup {NoForm}
    /\ attempts \in 0..AuthMax + 1 /\ (alive => jwt)

\* Proxy and layout never send a browser to and fro: every request ends on a page, also
\* with a token whose session was ended elsewhere or that runs out on the way.
RedirectsEnd == []<>(hop = "none")
=============================================================================
