---------------------------- MODULE MailContract ----------------------------
(***************************************************************************)
(* What outreach promises about every mail, without queue, worker, rows or *)
(* requests: a mail is sent for an approval, of the approved message, after *)
(* a check made while the address was not suppressed; each check allows    *)
(* one mail, and an approval is checked again only if nothing was mailed   *)
(* for it or the outcome of what was mailed is unknown.                    *)
(***************************************************************************)
EXTENDS Naturals

CONSTANTS Leads, Campaigns, Messages, Tokens, None, MaxTries

VARIABLES
    grant,        \* approval -> recipient and message approved, or None
    suppressed,   \* leads that must not be written to
    cleared,      \* approvals whose check has passed and that may mail once
    mailed,       \* approval -> message -> mails sent
    lost          \* approvals with a mail whose outcome is unknown

vars == <<grant, suppressed, cleared, mailed, lost>>

Grant == [rec: Campaigns \X Leads, msg: Messages \cup {None}]
LeadOf(t) == grant[t].rec[2]

Init ==
    /\ grant = [t \in Tokens |-> None]
    /\ suppressed = {}
    /\ cleared = {}
    /\ mailed = [t \in Tokens |-> [m \in Messages |-> 0]]
    /\ lost = {}

\* People approve: what was approved before stays as it was.
Approve ==
    /\ grant' \in [Tokens -> Grant \cup {None}]
    /\ \A t \in Tokens : grant[t] # None => grant'[t] = grant[t]
    /\ UNCHANGED <<suppressed, cleared, mailed, lost>>

\* The suppression list changes.
ChangeList ==
    /\ suppressed' \subseteq Leads
    /\ UNCHANGED <<grant, cleared, mailed, lost>>

\* The check of one approval passes.
Clear(t) ==
    /\ grant[t] # None
    /\ LeadOf(t) \notin suppressed
    /\ t \notin cleared
    /\ t \in lost \/ \A m \in Messages : mailed[t][m] = 0
    /\ cleared' = cleared \cup {t}
    /\ UNCHANGED <<grant, suppressed, mailed, lost>>

\* The approved message is mailed; the outcome may be lost at once.
Mail(t) ==
    /\ t \in cleared
    /\ cleared' = cleared \ {t}
    /\ mailed[t][grant[t].msg] < MaxTries
    /\ mailed' = [mailed EXCEPT ![t][grant[t].msg] = @ + 1]
    /\ lost' \in {lost, lost \cup {t}}
    /\ UNCHANGED <<grant, suppressed>>

\* Sends under way are given up, or what became of their mail is forgotten.
Interrupt ==
    /\ cleared' \subseteq cleared
    /\ lost \subseteq lost'
    /\ \A t \in lost' \ lost : \E m \in Messages : mailed[t][m] > 0
    /\ UNCHANGED <<grant, suppressed, mailed>>

Next ==
    \/ Approve
    \/ ChangeList
    \/ \E t \in Tokens : Clear(t) \/ Mail(t)
    \/ Interrupt

Spec == Init /\ [][Next]_vars

=============================================================================
