----------------------------- MODULE MCConsole -----------------------------
(***************************************************************************)
(* The web console in one run: a behaviour is one of the console's lists,  *)
(* of signing in, or of what the inbox or the leads page keeps to itself.  *)
(***************************************************************************)
EXTENDS Screens, SignIn, InboxPage, LeadsPage

VARIABLE running

\* Review and the leads page act on the campaigns page's list; the other pages
\* share none but the branding, which the layout shows on each of them.
MCTours ==
    {{"crm"}, {"approval", "campaigns"}, {"leads", "campaigns"}, {"inbox"}, {"settings"},
     {"imports"}, {"suppression"}}

screensFixed == UNCHANGED screensVars
signInFixed == UNCHANGED signInVars
inboxPageFixed == UNCHANGED inboxPageVars
leadsPageFixed == UNCHANGED leadsPageVars

\* What does not run starts in one state.
FirstOf(component, predicate) == running = component \/ predicate

ConsoleInit ==
    /\ running \in {"screens", "signIn", "inboxPage", "leadsPage"}
    /\ ScreensInit /\ SignInInit /\ InboxPageInit /\ LeadsPageInit
    /\ FirstOf("screens", tour = {"crm"})
    /\ FirstOf("signIn", session /\ route = "home")

ConsoleNext ==
    /\ UNCHANGED running
    /\ \/ /\ running = "screens" /\ ScreensNext
          /\ signInFixed /\ inboxPageFixed /\ leadsPageFixed
       \/ /\ running = "signIn" /\ SignInNext
          /\ screensFixed /\ inboxPageFixed /\ leadsPageFixed
       \/ /\ running = "inboxPage" /\ InboxPageNext
          /\ screensFixed /\ signInFixed /\ leadsPageFixed
       \/ /\ running = "leadsPage" /\ LeadsPageNext
          /\ screensFixed /\ signInFixed /\ inboxPageFixed

ConsoleSpec ==
    ConsoleInit
      /\ [][ConsoleNext]_<<running, screensVars, signInVars, inboxPageVars, leadsPageVars>>

\* Lists, forms, dialogs and requests stay within the values the pages name: the
\* lockout timer stops at zero (login page:134-140).
ConsoleTypeOK == ScreensTypeOK /\ SignInTypeOK /\ InboxPageTypeOK /\ LeadsPageTypeOK

=============================================================================
