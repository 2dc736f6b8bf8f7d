--------------------------- MODULE OutreachClaims ---------------------------
(***************************************************************************)
(* What the repository says of outreach and its code does not do. Each     *)
(* claim is the property of a run in which TLC finds a counterexample.     *)
(***************************************************************************)
EXTENDS Outreach

(***************************************************************************)
(* prompt.txt:1041-1050 puts an idempotency check between the suppression  *)
(* check and Resend, and email.types.ts:25 has a key "to prevent duplicate *)
(* sends": without crashes a message is handed to the provider once.       *)
(* send_email looks at no status and passes no key.                        *)
(***************************************************************************)
OneMailPerMessage ==
    \A m \in Messages, t, u \in Tokens :
        mails[t][m] > 0 /\ mails[u][m] > 0 => t = u

(***************************************************************************)
(* approve_all reports "Successfully approved and queued {approved_count}  *)
(* outreach emails for dispatch" (approval_service.py:316): when the job   *)
(* of an approved recipient ends, its mail is sent, failed or suppressed.  *)
(* For a recipient without a draft send_email raises at email_send.py:46.  *)
(***************************************************************************)
ApprovedIsDispatched ==
    [][\A id \in JobIds :
          /\ IsSend(id)
          /\ job[id].st \notin {"absent", "kept"}
          /\ job'[id].st \in {"absent", "kept"}
          => recipient'[id.rec].status # "APPROVED"]_vars

(***************************************************************************)
(* "Recover any campaigns left in GENERATING state" (main.py:63): a        *)
(* campaign the recovery has visited is not left GENERATING unless a job   *)
(* that can finish it is queued, running or about to be enqueued.          *)
(***************************************************************************)
BeingGenerated(c) ==
    \/ \E call \in outbox : ~IsSend(call.id) /\ CampaignOf(call.id.rec) = c
    \/ \E id \in JobIds : /\ ~IsSend(id)
                          /\ CampaignOf(id.rec) = c
                          /\ job[id].st \notin {"absent", "kept"}
    \/ c \in triggers
RecoveryRestartsStuck ==
    [][\A c \in Campaigns :
          RecoverCampaign(c) => campaign'[c] # "GENERATING" \/ BeingGenerated(c)']_vars

=============================================================================
