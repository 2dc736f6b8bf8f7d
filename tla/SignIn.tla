------------------------------- MODULE SignIn -------------------------------
(***************************************************************************)
(* The login form and the session the console keeps: who AuthProvider says *)
(* is signed in, the pages that wait for it or leave for /login, and the   *)
(* lockout the form imposes on itself.  Time is a clock of one-second      *)
(* ticks since the form was mounted.                                       *)
(***************************************************************************)
EXTENDS Integers

CONSTANTS
    MaxFailures,    \* refusals before the form locks: 5
    LockoutSeconds, \* how long it locks: 30
    MaxSeconds      \* bound: seconds a form stays mounted

ASSUME SignInBounds == {MaxFailures, LockoutSeconds, MaxSeconds} \subseteq Nat \ {0}

VARIABLES
    session,    \* the browser holds the cookie of a live session
    user,       \* "none" or "admin", AuthProvider's user
    isLoading,  \* refreshUser has not ended
    me,         \* its request: "none", "asked", or what the API answered
    route,      \* "home", "login" or "console"
    form,       \* turnstileToken, failedAttempts, lockoutSeconds, and what is under way
    second,     \* seconds since the form was mounted
    refused     \* logins the API refused since then (history)

signInVars == <<session, user, isLoading, me, route, form, second, refused>>

-----------------------------------------------------------------------------

EmptyForm == [token |-> FALSE, failures |-> 0, lockout |-> 0, at |-> "rest"]
Seconds == 0 .. MaxSeconds

SignInTypeOK ==
    /\ session \in BOOLEAN /\ isLoading \in BOOLEAN
    /\ user \in {"none", "admin"}
    /\ me \in {"none", "asked", "admin", "refused"}
    /\ route \in {"home", "login", "console"}
    /\ form \in [token : BOOLEAN, failures : Nat, lockout : 0 .. LockoutSeconds,
                 at : {"rest", "trapped", "asked", "admitted", "refused"}]
    /\ second \in Seconds

GoTo(p) ==
    /\ route' = p
    /\ form' = EmptyForm /\ second' = 0 /\ refused' = 0

\* AuthProvider is mounted with the document and asks who is signed in.
SignInInit ==
    /\ session \in BOOLEAN
    /\ user = "none" /\ isLoading = TRUE /\ me = "asked"
    /\ route \in {"home", "login", "console"}
    /\ form = EmptyForm /\ second = 0 /\ refused = 0

-----------------------------------------------------------------------------
(* auth-context *)

ApiAnswersMe ==
    /\ me = "asked"
    /\ me' = IF session THEN "admin" ELSE "refused"
    /\ UNCHANGED <<session, user, isLoading, route, form, second, refused>>

\* Every error counts as signed out, the network's too; what a login set since is
\* overwritten.
RefreshUserEnds ==
    /\ me # "none"
    /\ user' \in IF me = "admin" THEN {"admin", "none"} ELSE {"none"}
    /\ me' = "none" /\ isLoading' = FALSE
    /\ UNCHANGED <<session, route, form, second, refused>>

\* The API ends the session or fails to; the document is loaded anew either way.
Logout ==
    /\ route = "console" /\ ~isLoading /\ user # "none"
    /\ session' \in {session, FALSE}
    /\ user' = "none" /\ isLoading' = TRUE /\ me' = "asked"
    /\ GoTo("login")

SessionExpires ==
    /\ session /\ session' = FALSE
    /\ UNCHANGED <<user, isLoading, me, route, form, second, refused>>

-----------------------------------------------------------------------------
(* app/page and the dashboard layout *)

LeaveHome ==
    /\ route = "home" /\ ~isLoading
    /\ GoTo(IF user = "none" THEN "login" ELSE "console")
    /\ UNCHANGED <<session, user, isLoading, me>>

LayoutSendsToLogin ==
    /\ route = "console" /\ ~isLoading /\ user = "none"
    /\ GoTo("login")
    /\ UNCHANGED <<session, user, isLoading, me>>

-----------------------------------------------------------------------------
(* The login form *)

FormOnly == UNCHANGED <<user, isLoading, me, route>>
FormStays == FormOnly /\ UNCHANGED <<session, second, refused>>

\* The widget's callback; its expiry or error takes the token back.
TurnstileSolved ==
    /\ route = "login" /\ ~form.token
    /\ form' = [form EXCEPT !.token = TRUE]
    /\ FormStays

TurnstileExpires ==
    /\ route = "login" /\ form.token
    /\ form' = [form EXCEPT !.token = FALSE]
    /\ FormStays

\* The button and both fields are disabled while a login or a lockout runs.
CanSubmit == route = "login" /\ form.at = "rest" /\ form.lockout = 0 /\ form.token

\* A filled trap field ends in an error after 1.2 s, without a request.
SubmitTrapped ==
    /\ CanSubmit
    /\ form' = [form EXCEPT !.at = "trapped"]
    /\ FormStays

TrapEnds ==
    /\ form.at = "trapped"
    /\ form' = [form EXCEPT !.at = "rest"]
    /\ FormStays

HandleSubmit ==
    /\ CanSubmit
    /\ form' = [form EXCEPT !.at = "asked"]
    /\ FormStays

\* The API decides and sets the cookie; an answer that is lost reads as a refusal.
ApiAnswersLogin ==
    /\ form.at = "asked"
    /\ \/ session' = TRUE /\ form' = [form EXCEPT !.at = "admitted"] /\ UNCHANGED refused
       \/ session' \in {session, TRUE} /\ form' = [form EXCEPT !.at = "refused"]
            /\ refused' = refused + 1
    /\ UNCHANGED second /\ FormOnly

LoginSucceeds ==
    /\ form.at = "admitted"
    /\ user' = "admin"
    /\ GoTo("console")
    /\ UNCHANGED <<session, isLoading, me>>

\* Mutant: the form locks one refusal late.
LoginFailsLate ==
    /\ form.at = "refused"
    /\ form' = [token |-> FALSE, failures |-> form.failures + 1, at |-> "rest",
                lockout |-> IF form.failures + 1 > MaxFailures THEN LockoutSeconds ELSE 0]
    /\ FormStays

\* failedAttempts is never reset by the end of a lockout.
LoginFails ==
    /\ form.at = "refused"
    /\ form' = [token |-> FALSE, failures |-> form.failures + 1, at |-> "rest",
                lockout |-> IF form.failures + 1 >= MaxFailures THEN LockoutSeconds ELSE 0]
    /\ FormStays

\* Mutant: the timer does not stop at zero.
LockoutTickPastZero ==
    /\ route = "login" /\ second < MaxSeconds
    /\ second' = second + 1
    /\ form' = [form EXCEPT !.lockout = @ - 1]
    /\ UNCHANGED <<session, refused>> /\ FormOnly

LockoutTick ==
    /\ route = "login" /\ second < MaxSeconds
    /\ second' = second + 1
    /\ form' = [form EXCEPT !.lockout = IF @ > 0 THEN @ - 1 ELSE 0]
    /\ UNCHANGED <<session, refused>> /\ FormOnly

SignInNext ==
    \/ ApiAnswersMe \/ RefreshUserEnds \/ Logout \/ SessionExpires
    \/ LeaveHome \/ LayoutSendsToLogin
    \/ TurnstileSolved \/ TurnstileExpires
    \/ SubmitTrapped \/ TrapEnds \/ HandleSubmit
    \/ ApiAnswersLogin \/ LoginSucceeds \/ LoginFails \/ LockoutTick

SignInSpec == SignInInit /\ [][SignInNext]_signInVars

-----------------------------------------------------------------------------
(* Properties *)

\* A form that stays mounted draws at most MaxFailures refusals from the API, and one
\* more for each lockout that has run out since: a lockout ends no run of failures,
\* and neither the token nor the clock lets a second login through beside the first
\* (login page:133-216).  A form mounted anew counts from nothing.
LockoutLimitsGuesses == refused <= MaxFailures + second \div LockoutSeconds

=============================================================================
