---------------------------- MODULE SendContract ----------------------------
(***************************************************************************)
(* What the TypeScript service promises about every mail of a campaign,    *)
(* without requests, queue, job ids or rows: a mail is sent after a check  *)
(* of its own, made while the address was not listed; and a recipient is   *)
(* checked only while an approval is unspent, or a mail was sent whose run *)
(* never learnt of it.                                                     *)
(***************************************************************************)
EXTENDS Naturals

CONSTANTS Campaigns, Leads

VARIABLES
    granted,    \* recipient -> approvals that took effect
    listed,     \* leads that must not be written to
    cleared,    \* recipients whose check has passed and that may be mailed once
    mailed,     \* recipient -> mails sent
    lost        \* recipient -> mails whose outcome nobody recorded

vars == <<granted, listed, cleared, mailed, lost>>

Recipients == Campaigns \X Leads

Init ==
    /\ granted = [r \in Recipients |-> 0]
    /\ listed = {}
    /\ cleared = {}
    /\ mailed = [r \in Recipients |-> 0]
    /\ lost = [r \in Recipients |-> 0]

\* One more approval takes effect.
Approve(r) ==
    /\ granted' = [granted EXCEPT ![r] = @ + 1]
    /\ UNCHANGED <<listed, cleared, mailed, lost>>

\* The suppression list changes.
ChangeList ==
    /\ listed' \subseteq Leads
    /\ UNCHANGED <<granted, cleared, mailed, lost>>

\* The check of a recipient passes.
Clear(r) ==
    /\ r[2] \notin listed
    /\ r \notin cleared
    /\ mailed[r] < granted[r] + lost[r]
    /\ cleared' = cleared \cup {r}
    /\ UNCHANGED <<granted, listed, mailed, lost>>

\* The mail of a check goes out; its outcome may be lost at once.
Mail(r) ==
    /\ r \in cleared
    /\ cleared' = cleared \ {r}
    /\ mailed' = [mailed EXCEPT ![r] = @ + 1]
    /\ \E unknown \in {0, 1} : lost' = [lost EXCEPT ![r] = @ + unknown]
    /\ UNCHANGED <<granted, listed>>

\* Sends under way are given up, and outcomes of mails that were sent are lost.
Interrupt ==
    /\ cleared' \subseteq cleared
    /\ lost' \in [Recipients -> Nat]
    /\ \A r \in Recipients : lost[r] <= lost'[r] /\ lost'[r] <= mailed[r]
    /\ UNCHANGED <<granted, listed, mailed>>

Next ==
    \/ \E r \in Recipients : Approve(r) \/ Clear(r) \/ Mail(r)
    \/ ChangeList
    \/ Interrupt

Spec == Init /\ [][Next]_vars

=============================================================================
