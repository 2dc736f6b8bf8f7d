------------------------------ MODULE Outreach ------------------------------
(***************************************************************************)
(* Campaign outreach of Shaliach: drafting, human approval and sending.    *)
(*                                                                         *)
(* Three kinds of process share one Postgres database and one Redis job    *)
(* queue:                                                                  *)
(*   - API request handlers (apps/api/app/services), which commit a        *)
(*     transaction and only afterwards enqueue the job it calls for;       *)
(*   - ARQ worker tasks (apps/worker/worker/tasks), which load rows, await *)
(*     a slow external call and write back what they loaded;               *)
(*   - the worker's start-up recovery (apps/worker/worker/main.py).        *)
(* One action is one database transaction, one external call or one Redis  *)
(* call; other processes run between two actions of a handler or a task.   *)
(***************************************************************************)
EXTENDS Naturals

CONSTANTS
    Leads,        \* lead rows; a lead stands for its unique normalized_email
    Campaigns,    \* campaign ids that can ever be created
    Messages,     \* email_messages ids that can ever be created
    Tokens,       \* random suffixes of job ids; also the tickets of approvals
    None,         \* SQL NULL / "no value"
    MaxTries,     \* arq's max_tries
    StatusInputs, \* campaign statuses people set by hand
    StageInputs,  \* CRM stages people set by hand
    MaxRequests,  \* bound: requests people make in one behaviour
    MaxFaults     \* bound: crashes and Redis errors in one behaviour

ASSUME NoneIsNoValue == None \notin Messages \cup Tokens \cup Campaigns \cup Leads
ASSUME InputsAreValues ==
    /\ StatusInputs \subseteq {"DRAFT", "PAUSED"}
    /\ StageInputs \subseteq {"IMPORTED", "CONTACTED", "SUPPRESSED", "WON"}
ASSUME TriesArePositive == MaxTries \in Nat \ {0}
ASSUME BoundsAreNumbers == MaxRequests \in Nat /\ MaxFaults \in Nat

VARIABLES
    lead,         \* lead -> crm_status, validation_status, last_contacted_at
    suppressed,   \* leads whose address is in suppression_entries
    campaign,     \* campaign -> status
    recipient,    \* <<campaign, lead>> -> status and email_message_id
    message,      \* message -> status and lead_id
    job,          \* job id -> what Redis and the worker know of the job
    outbox,       \* enqueue_job calls a handler has still to make
    approvals,    \* approval requests between their reads and their commit
    triggers,     \* trigger_ai_generation calls after their first commit
    booting,      \* the worker has restarted, recovery has not run yet
    recovering,   \* GENERATING campaigns the recovery has still to visit
    (***********************************************************************)
    (* History variables: nothing in the code reads them.                  *)
    (***********************************************************************)
    ticket,       \* token -> the approval (recipient, message) it stands for
    mails,        \* token -> message -> hand-offs to the mail provider
    lost,         \* tickets one of whose hand-offs the worker never learnt of
    requests,     \* how many requests people have made
    faults        \* how many crashes and Redis errors there have been

rowVars == <<lead, suppressed, campaign, recipient, message>>
requestVars == <<approvals, triggers>>
recoveryVars == <<booting, recovering>>
historyVars == <<ticket, mails, lost>>
systemVars == <<rowVars, job, outbox, requestVars, recoveryVars, historyVars>>
vars == <<systemVars, requests, faults>>

-----------------------------------------------------------------------------
(* Types *)

\* IMPORTED stands for IMPORTED and VALIDATED, WON for the stages set by hand.
CrmStatus == {"IMPORTED", "CONTACTED", "SUPPRESSED", "WON"}
CampaignStatus == {"NONE", "DRAFT", "GENERATING", "READY_FOR_REVIEW",
                   "RUNNING", "PAUSED", "DELETED"}
RecipientStatus == {"NONE", "PENDING", "READY_FOR_REVIEW", "APPROVED",
                    "SENT", "FAILED", "SKIPPED", "SUPPRESSED"}
MessageStatus == {"NONE", "DRAFT", "APPROVED", "SENT", "FAILED"}

LeadRow == [crm: CrmStatus, valid: BOOLEAN, contacted: BOOLEAN]

\* UniqueConstraint(campaign_id, lead_id) makes the pair a key.
Recipients == Campaigns \X Leads
CampaignOf(r) == r[1]
LeadOf(r) == r[2]
RecipientRow == [status: RecipientStatus, msg: Messages \cup {None}]
MessageRow == [status: MessageStatus, lead: Leads \cup {None}]

(***************************************************************************)
(* A job id is a function name, a recipient and a random suffix; None is   *)
(* the suffix of the deterministic ids send-{id} and ai-gen-regen-{id}.    *)
(***************************************************************************)
Functions == {"send_email", "generate_outreach"}
JobIds == [fn: Functions, rec: Recipients, tok: Tokens \cup {None}]
SendId(r, tok) == [fn |-> "send_email", rec |-> r, tok |-> tok]
GenerateId(r, tok) == [fn |-> "generate_outreach", rec |-> r, tok |-> tok]

Running == {"cleared", "accepted", "refused", "drafting", "drafted", "settled"}
JobState == {"absent", "queued", "kept"} \cup Running
\* seen, seenCrm: the column values the task loaded and will write back over.
JobRow == [st: JobState, msg: Messages \cup {None}, ticket: Tokens \cup {None},
           try: 0..MaxTries, seen: MessageStatus \cup RecipientStatus,
           seenCrm: CrmStatus \cup {"NONE"}]
NoJob == [st |-> "absent", msg |-> None, ticket |-> None, try |-> 0,
          seen |-> "NONE", seenCrm |-> "NONE"]

\* by: the process that has the call to make.
Call == [by: {"api", "worker"}, id: JobIds, msg: Messages \cup {None}, ticket: Tokens \cup {None}]
Item == [rec: Recipients, msg: Messages \cup {None},
         recSeen: RecipientStatus, msgSeen: MessageStatus]
\* no: tells two equal requests (a double click) apart.
Approval == [op: {"APPROVE", "APPROVE_ALL"}, campaign: Campaigns \cup {None},
             items: SUBSET Item, no: 0..MaxRequests]
Grant == [rec: Recipients, msg: Messages \cup {None}]
ASSUME NoneIsNoGrant == None \notin Grant

TypeOK ==
    /\ lead \in [Leads -> LeadRow]
    /\ suppressed \subseteq Leads
    /\ campaign \in [Campaigns -> CampaignStatus]
    /\ recipient \in [Recipients -> RecipientRow]
    /\ message \in [Messages -> MessageRow]
    /\ job \in [JobIds -> JobRow]
    /\ outbox \subseteq Call
    /\ approvals \subseteq Approval
    /\ triggers \subseteq Campaigns
    /\ booting \in BOOLEAN
    /\ recovering \subseteq Campaigns
    /\ ticket \in [Tokens -> Grant \cup {None}]
    /\ mails \in [Tokens -> [Messages -> Nat]]
    /\ lost \subseteq Tokens
    /\ requests \in 0..MaxRequests
    /\ faults \in 0..MaxFaults

Init ==
    /\ lead = [l \in Leads |->
                 [crm |-> "IMPORTED", valid |-> TRUE, contacted |-> FALSE]]
    /\ suppressed = {}
    /\ campaign = [c \in Campaigns |-> "NONE"]
    /\ recipient = [r \in Recipients |-> [status |-> "NONE", msg |-> None]]
    /\ message = [m \in Messages |-> [status |-> "NONE", lead |-> None]]
    /\ job = [id \in JobIds |-> NoJob]
    /\ outbox = {}
    /\ approvals = {}
    /\ triggers = {}
    /\ booting = FALSE
    /\ recovering = {}
    /\ ticket = [t \in Tokens |-> None]
    /\ mails = [t \in Tokens |-> [m \in Messages |-> 0]]
    /\ lost = {}
    /\ requests = 0
    /\ faults = 0

-----------------------------------------------------------------------------
(* Rows *)

CampaignExists(c) == campaign[c] \notin {"NONE", "DELETED"}
RecipientExists(r) == recipient[r].status # "NONE"
Unused(m) == message[m].status = "NONE"
RecipientsOf(c) ==
    {r \in Recipients : CampaignOf(r) = c /\ RecipientExists(r)}
PendingOf(c) == {r \in RecipientsOf(c) : recipient[r].status = "PENDING"}

\* An ORM attribute is written only when it differs from the value loaded.
Flush(current, seen, new) == IF seen = new THEN current ELSE new

\* The `uncontacted_filter` of the campaign service.
Uncontacted(l) ==
    /\ lead[l].valid
    /\ lead[l].crm = "IMPORTED"
    /\ ~lead[l].contacted
    /\ \A m \in Messages : message[m].lead = l => message[m].status # "SENT"
    /\ \A c \in Campaigns :
          recipient[<<c, l>>].status \notin {"SENT", "APPROVED"}

WithRecipients(c, S) ==
    [r \in Recipients |->
        IF CampaignOf(r) = c /\ LeadOf(r) \in S
        THEN [status |-> "PENDING", msg |-> None]
        ELSE recipient[r]]

\* Mutant: the stage is taken from EmailStatus instead of CrmStatus.
SuppressedLeadOfWrongEnum(l) ==
    [lead EXCEPT ![l].crm = "UNSUBSCRIBED", ![l].valid = FALSE]

SuppressedLead(l) ==
    [lead EXCEPT ![l].crm = "SUPPRESSED", ![l].valid = FALSE]

\* UPDATE campaign_recipients ... WHERE id = r: no row, no effect.
RecipientSetTo(r, status) ==
    [recipient EXCEPT ![r].status = IF @ = "NONE" THEN @ ELSE status]

-----------------------------------------------------------------------------
(* Campaign service *)

\* create_campaign: any choice of leads in the request ends as a set of
\* uncontacted leads.
CreateCampaign(c, S) ==
    /\ campaign[c] = "NONE"
    /\ \A l \in S : Uncontacted(l)
    /\ campaign' = [campaign EXCEPT ![c] = "DRAFT"]
    /\ recipient' = WithRecipients(c, S)
    /\ UNCHANGED <<lead, suppressed, message, job, outbox, requestVars,
                   recoveryVars, historyVars>>

\* bulk_action ADD_TO_CAMPAIGN for one lead.
AddToCampaign(c, l) ==
    /\ CampaignExists(c)
    /\ lead[l].valid
    /\ lead[l].crm = "IMPORTED"
    /\ ~lead[l].contacted
    /\ ~RecipientExists(<<c, l>>)
    /\ recipient' = WithRecipients(c, {l})
    /\ UNCHANGED <<lead, suppressed, campaign, message, job, outbox,
                   requestVars, recoveryVars, historyVars>>

\* handle_status_action: PAUSE and RESET. START, RESUME and CANCEL also set
\* started_at or completed_at, which campaign.py:75-81 declares as properties
\* without a setter: the request raises and is rolled back.
HandleStatusAction(c, status) ==
    /\ CampaignExists(c)
    /\ campaign' = [campaign EXCEPT ![c] = status]
    /\ UNCHANGED <<lead, suppressed, recipient, message, job, outbox,
                   requestVars, recoveryVars, historyVars>>

\* delete_campaign: drafts and queued jobs survive the recipients.
DeleteCampaign(c) ==
    /\ CampaignExists(c)
    /\ campaign' = [campaign EXCEPT ![c] = "DELETED"]
    /\ recipient' = [r \in Recipients |->
                        IF CampaignOf(r) = c
                        THEN [status |-> "NONE", msg |-> None]
                        ELSE recipient[r]]
    /\ UNCHANGED <<lead, suppressed, message, job, outbox, requestVars,
                   recoveryVars, historyVars>>

\* trigger_ai_generation up to its first commit.
TriggerGeneration(c) ==
    /\ CampaignExists(c)
    /\ campaign' = [campaign EXCEPT ![c] = "GENERATING"]
    /\ triggers' = triggers \cup {c}
    /\ UNCHANGED <<lead, suppressed, recipient, message, job, outbox,
                   approvals, recoveryVars, historyVars>>

\* A generation job id with a random suffix nobody uses.
IsFreshGenerate(r, t) ==
    /\ job[GenerateId(r, t)].st = "absent"
    /\ \A call \in outbox : call.id # GenerateId(r, t)
GenerateCalls(by, f) ==
    {[by |-> by, id |-> GenerateId(r, f[r]), msg |-> None, ticket |-> None] :
        r \in DOMAIN f}

\* The rest of trigger_ai_generation: attach leads to an empty campaign,
\* skip recipients whose lead is no longer fresh, leave the jobs to enqueue.
SelectPending(c) ==
    LET attached == IF RecipientsOf(c) = {}
                    THEN WithRecipients(c, {l \in Leads : Uncontacted(l)})
                    ELSE recipient
        pending == {r \in Recipients : /\ CampaignOf(r) = c
                                       /\ attached[r].status = "PENDING"}
        clean == {r \in pending : /\ ~lead[LeadOf(r)].contacted
                                  /\ lead[LeadOf(r)].crm = "IMPORTED"}
    IN  /\ c \in triggers
        /\ CampaignExists(c)
        /\ recipient' = [r \in Recipients |->
                            IF r \in pending \ clean
                            THEN [attached[r] EXCEPT !.status = "SKIPPED"]
                            ELSE attached[r]]
        /\ \E f \in [clean -> Tokens] :
              /\ \A r \in clean : IsFreshGenerate(r, f[r])
              /\ outbox' = outbox \cup GenerateCalls("api", f)
        /\ triggers' = triggers \ {c}
        /\ UNCHANGED <<lead, suppressed, campaign, message, job, approvals,
                       recoveryVars, historyVars>>

\* The campaign was deleted after the first commit: there is nothing to select.
StaleTrigger(c) ==
    /\ c \in triggers
    /\ ~CampaignExists(c)
    /\ triggers' = triggers \ {c}
    /\ UNCHANGED <<rowVars, job, outbox, approvals, recoveryVars, historyVars>>

-----------------------------------------------------------------------------
(* Approval service *)

\* edit_draft of a recipient without a draft; editing one changes its text only.
EditDraft(r, m) ==
    /\ RecipientExists(r)
    /\ recipient[r].msg = None
    /\ Unused(m)
    /\ message' = [message EXCEPT ![m] = [status |-> "DRAFT", lead |-> LeadOf(r)]]
    /\ recipient' = [recipient EXCEPT ![r].msg = m]
    /\ UNCHANGED <<lead, suppressed, campaign, job, outbox, requestVars,
                   recoveryVars, historyVars>>

\* What an approval request holds of a recipient after its SELECTs.
Loaded(r) ==
    LET m == recipient[r].msg
    IN  [rec |-> r, msg |-> m, recSeen |-> recipient[r].status,
         msgSeen |-> IF m = None THEN "NONE" ELSE message[m].status]

\* handle_action APPROVE up to its commit: no status is checked.
LoadApproval(r) ==
    /\ RecipientExists(r)
    /\ LeadOf(r) \notin suppressed
    /\ approvals' = approvals \cup
          {[op |-> "APPROVE", campaign |-> None, items |-> {Loaded(r)},
            no |-> requests]}
    /\ UNCHANGED <<rowVars, job, outbox, triggers, recoveryVars, historyVars>>

\* approve_all up to its commit, for one campaign or (None) for all of them.
LoadApproveAll(scope) ==
    LET selected == {r \in Recipients :
                        /\ recipient[r].status \in {"READY_FOR_REVIEW", "PENDING"}
                        /\ scope \in {None, CampaignOf(r)}}
    IN  /\ selected # {}
        /\ approvals' = approvals \cup
              {[op |-> "APPROVE_ALL", campaign |-> scope,
                items |-> {Loaded(r) : r \in selected}, no |-> requests]}
        /\ UNCHANGED <<rowVars, job, outbox, triggers, recoveryVars, historyVars>>

\* An UPDATE the ORM emits for a row deleted meanwhile raises StaleDataError.
CanFlush(q) ==
    \A i \in q.items : RecipientExists(i.rec) \/ i.recSeen = "APPROVED"

\* Mutant: the job gets the draft the recipient has now, not the one approved.
SendCallsOfCurrentDraft(q, f) ==
    {[by |-> "api", id |-> SendId(i.rec, IF q.op = "APPROVE" THEN None ELSE f[i]),
      msg |-> recipient[i.rec].msg, ticket |-> f[i]] : i \in q.items}

\* Mutant: the loop enqueues the same draft for every recipient.
SendCallsOfOneItem(q, f) ==
    LET one == CHOOSE i \in q.items : TRUE
    IN  {[by |-> "api", id |-> SendId(i.rec, IF q.op = "APPROVE" THEN None ELSE f[i]),
          msg |-> one.msg, ticket |-> f[i]] : i \in q.items}

\* send-{id} for APPROVE, send-{id}-{random} for APPROVE_ALL.
SendCalls(q, f) ==
    {[by |-> "api", id |-> SendId(i.rec, IF q.op = "APPROVE" THEN None ELSE f[i]),
      msg |-> i.msg, ticket |-> f[i]] : i \in q.items}

\* The commit of an approval request; f numbers its approvals with tickets.
CommitApproval(q) ==
    /\ q \in approvals
    /\ CanFlush(q)
    /\ \E f \in [q.items -> {t \in Tokens : ticket[t] = None}] :
          /\ \A i, j \in q.items : f[i] = f[j] => i = j
          /\ ticket' = [t \in Tokens |->
                IF \E i \in q.items : f[i] = t
                THEN LET i == CHOOSE i \in q.items : f[i] = t
                     IN  [rec |-> i.rec, msg |-> i.msg]
                ELSE ticket[t]]
          /\ outbox' = outbox \cup SendCalls(q, f)
    /\ recipient' = [r \in Recipients |->
          IF \E i \in q.items : i.rec = r /\ i.recSeen # "APPROVED"
          THEN [recipient[r] EXCEPT !.status = "APPROVED"]
          ELSE recipient[r]]
    /\ message' = [m \in Messages |->
          IF \E i \in q.items : i.msg = m /\ i.msgSeen # "APPROVED"
          THEN [message[m] EXCEPT !.status = "APPROVED"]
          ELSE message[m]]
    /\ campaign' = [c \in Campaigns |->
          IF c = q.campaign /\ CampaignExists(c) THEN "RUNNING" ELSE campaign[c]]
    /\ approvals' = approvals \ {q}
    /\ UNCHANGED <<lead, suppressed, job, triggers, recoveryVars, mails, lost>>

\* The commit raises StaleDataError and is rolled back.
StaleApproval(q) ==
    /\ q \in approvals
    /\ ~CanFlush(q)
    /\ approvals' = approvals \ {q}
    /\ UNCHANGED <<rowVars, job, outbox, triggers, recoveryVars, historyVars>>

\* handle_action REGENERATE.
Regenerate(r) ==
    /\ RecipientExists(r)
    /\ recipient' = [recipient EXCEPT ![r].status = "PENDING"]
    /\ outbox' = outbox \cup
          {[by |-> "api", id |-> GenerateId(r, None), msg |-> None, ticket |-> None]}
    /\ UNCHANGED <<lead, suppressed, campaign, message, job, requestVars,
                   recoveryVars, historyVars>>

\* handle_action SKIP.
Skip(r) ==
    /\ RecipientExists(r)
    /\ recipient' = [recipient EXCEPT ![r].status = "SKIPPED"]
    /\ UNCHANGED <<lead, suppressed, campaign, message, job, outbox,
                   requestVars, recoveryVars, historyVars>>

\* handle_action SUPPRESS; the INSERT of an address already there fails.
SuppressFromQueue(r) ==
    /\ RecipientExists(r)
    /\ LeadOf(r) \notin suppressed
    /\ suppressed' = suppressed \cup {LeadOf(r)}
    /\ lead' = SuppressedLead(LeadOf(r))
    /\ recipient' = [recipient EXCEPT ![r].status = "SUPPRESSED"]
    /\ UNCHANGED <<campaign, message, job, outbox, requestVars, recoveryVars,
                   historyVars>>

-----------------------------------------------------------------------------
(* Suppression list and CRM *)

\* add_suppression, also what a bounce, a complaint or an opt-out reply does.
AddSuppression(l) ==
    /\ suppressed' = suppressed \cup {l}
    /\ lead' = SuppressedLead(l)
    /\ UNCHANGED <<campaign, recipient, message, job, outbox, requestVars,
                   recoveryVars, historyVars>>

\* remove_suppression: the lead's own columns are not restored.
RemoveSuppression(l) ==
    /\ l \in suppressed
    /\ suppressed' = suppressed \ {l}
    /\ UNCHANGED <<lead, campaign, recipient, message, job, outbox,
                   requestVars, recoveryVars, historyVars>>

\* update_lead_stage: a person moves the lead's card to any stage.
UpdateLeadStage(l, stage) ==
    /\ lead' = [lead EXCEPT ![l].crm = stage]
    /\ UNCHANGED <<suppressed, campaign, recipient, message, job, outbox,
                   requestVars, recoveryVars, historyVars>>

-----------------------------------------------------------------------------
(* The ARQ queue *)

\* enqueue_job drops the call while the id is queued, running or its result
\* is kept.
Enqueue(call) ==
    /\ call \in outbox
    /\ outbox' = outbox \ {call}
    /\ job' = IF job[call.id].st = "absent"
              THEN [job EXCEPT ![call.id] =
                      [NoJob EXCEPT !.st = "queued", !.msg = call.msg,
                                    !.ticket = call.ticket]]
              ELSE job
    /\ UNCHANGED <<rowVars, requestVars, recoveryVars, historyVars>>

\* The calls one `try` covers: approvals and REGENERATE have one each, the
\* loops over PENDING recipients have one for the whole campaign.
SameTry(call) ==
    IF call.id.fn = "send_email" \/ call.id.tok = None
    THEN {call}
    ELSE {other \in outbox : /\ other.by = call.by
                             /\ other.id.fn = call.id.fn
                             /\ other.id.tok # None
                             /\ CampaignOf(other.id.rec) = CampaignOf(call.id.rec)}

\* Redis refuses the call: the exception is caught and logged, the calls after
\* it in the same `try` are not made, and a recovery ends there.
EnqueueFails(call) ==
    /\ call \in outbox
    /\ outbox' = outbox \ SameTry(call)
    /\ recovering' = IF call.by = "worker" THEN {} ELSE recovering
    /\ UNCHANGED <<rowVars, job, requestVars, booting, historyVars>>

\* A finished job leaves its result, which matters only for the ids that can
\* come back.
Finished(id) ==
    [job EXCEPT ![id] =
        [NoJob EXCEPT !.st = IF id.tok = None THEN "kept" ELSE "absent"]]

\* keep_result runs out.
ExpireResult(id) ==
    /\ job[id].st = "kept"
    /\ job' = [job EXCEPT ![id] = NoJob]
    /\ UNCHANGED <<rowVars, outbox, requestVars, recoveryVars, historyVars>>

\* max_tries is reached: the job fails without running again.
GiveUp(id) ==
    /\ job[id].st = "queued"
    /\ job[id].try = MaxTries
    /\ job' = Finished(id)
    /\ UNCHANGED <<rowVars, outbox, requestVars, recoveryVars, historyVars>>

CanStart(id, fn) ==
    /\ id.fn = fn
    /\ job[id].st = "queued"
    /\ job[id].try < MaxTries

-----------------------------------------------------------------------------
(* Task send_email *)

\* A job without message id reads an attribute the model does not have: the
\* task raises before it changes anything.
SendWithoutMessage(id) ==
    /\ CanStart(id, "send_email")
    /\ job[id].msg = None
    /\ job' = Finished(id)
    /\ UNCHANGED <<rowVars, outbox, requestVars, recoveryVars, historyVars>>

\* The suppression check stops the send.
RefuseSuppressed(id) ==
    /\ CanStart(id, "send_email")
    /\ job[id].msg # None
    /\ message[job[id].msg].lead \in suppressed
    /\ message' = [message EXCEPT ![job[id].msg].status = "FAILED"]
    /\ recipient' = RecipientSetTo(id.rec, "SUPPRESSED")
    /\ job' = Finished(id)
    /\ UNCHANGED <<lead, suppressed, campaign, outbox, requestVars,
                   recoveryVars, historyVars>>

\* Mutant: the suppression check is gone.
ClearForSendingUnchecked(id) ==
    LET m == job[id].msg
    IN  /\ CanStart(id, "send_email")
        /\ m # None
        /\ job' = [job EXCEPT ![id].st = "cleared", ![id].try = @ + 1,
                              ![id].seen = message[m].status,
                              ![id].seenCrm = lead[message[m].lead].crm]
        /\ UNCHANGED <<rowVars, outbox, requestVars, recoveryVars, historyVars>>

\* The suppression check passes; status and crm_status are now in memory.
ClearForSending(id) ==
    LET m == job[id].msg
    IN  /\ CanStart(id, "send_email")
        /\ m # None
        /\ message[m].lead \notin suppressed
        /\ job' = [job EXCEPT ![id].st = "cleared", ![id].try = @ + 1,
                              ![id].seen = message[m].status,
                              ![id].seenCrm = lead[message[m].lead].crm]
        /\ UNCHANGED <<rowVars, outbox, requestVars, recoveryVars, historyVars>>

HandOff(id) == mails' = [mails EXCEPT ![job[id].ticket][job[id].msg] = @ + 1]

\* The provider takes the message and answers.
ProviderAccepts(id) ==
    /\ job[id].st = "cleared"
    /\ HandOff(id)
    /\ job' = [job EXCEPT ![id].st = "accepted"]
    /\ UNCHANGED <<rowVars, outbox, requestVars, recoveryVars, ticket, lost>>

\* The provider takes the message, its answer does not arrive in 30 s.
ProviderTimesOut(id) ==
    /\ job[id].st = "cleared"
    /\ HandOff(id)
    /\ lost' = lost \cup {job[id].ticket}
    /\ job' = [job EXCEPT ![id].st = "refused"]
    /\ UNCHANGED <<rowVars, outbox, requestVars, recoveryVars, ticket>>

\* The provider answers with an error.
ProviderRefuses(id) ==
    /\ job[id].st = "cleared"
    /\ job' = [job EXCEPT ![id].st = "refused"]
    /\ UNCHANGED <<rowVars, outbox, requestVars, recoveryVars, historyVars>>

\* Mutant: the task puts its own job back into the queue after its commit.
CommitSentThenRequeue(id) ==
    LET m == job[id].msg
        l == message[m].lead
    IN  /\ job[id].st = "accepted"
        /\ message' = [message EXCEPT ![m].status = Flush(@, job[id].seen, "SENT")]
        /\ recipient' = RecipientSetTo(id.rec, "SENT")
        /\ lead' = [lead EXCEPT ![l].crm = Flush(@, job[id].seenCrm, "CONTACTED"),
                                ![l].contacted = TRUE]
        /\ job' = [job EXCEPT ![id] = [NoJob EXCEPT !.st = "queued", !.msg = m,
                                                   !.ticket = job[id].ticket]]
        /\ UNCHANGED <<suppressed, campaign, outbox, requestVars, recoveryVars,
                       historyVars>>

\* Mutant: the lead is not marked as contacted.
CommitSentWithoutContact(id) ==
    LET m == job[id].msg
    IN  /\ job[id].st = "accepted"
        /\ message' = [message EXCEPT ![m].status = Flush(@, job[id].seen, "SENT")]
        /\ recipient' = RecipientSetTo(id.rec, "SENT")
        /\ job' = Finished(id)
        /\ UNCHANGED <<lead, suppressed, campaign, outbox, requestVars,
                       recoveryVars, historyVars>>

\* Mutant: the UPDATE selects the recipients by campaign instead of by id.
CommitSentForCampaign(id) ==
    LET m == job[id].msg
        l == message[m].lead
    IN  /\ job[id].st = "accepted"
        /\ message' = [message EXCEPT ![m].status = Flush(@, job[id].seen, "SENT")]
        /\ recipient' = [r \in Recipients |->
              IF r \in RecipientsOf(CampaignOf(id.rec))
              THEN [recipient[r] EXCEPT !.status = "SENT"]
              ELSE recipient[r]]
        /\ lead' = [lead EXCEPT ![l].crm = Flush(@, job[id].seenCrm, "CONTACTED"),
                                ![l].contacted = TRUE]
        /\ job' = Finished(id)
        /\ UNCHANGED <<suppressed, campaign, outbox, requestVars, recoveryVars,
                       historyVars>>

\* The commit after a success writes back over the values loaded.
CommitSent(id) ==
    LET m == job[id].msg
        l == message[m].lead
    IN  /\ job[id].st = "accepted"
        /\ message' = [message EXCEPT ![m].status = Flush(@, job[id].seen, "SENT")]
        /\ recipient' = RecipientSetTo(id.rec, "SENT")
        /\ lead' = [lead EXCEPT ![l].crm = Flush(@, job[id].seenCrm, "CONTACTED"),
                                ![l].contacted = TRUE]
        /\ job' = Finished(id)
        /\ UNCHANGED <<suppressed, campaign, outbox, requestVars, recoveryVars,
                       historyVars>>

\* Mutant: the exception is logged, the message keeps its status.
CommitFailedSilently(id) ==
    /\ job[id].st = "refused"
    /\ recipient' = RecipientSetTo(id.rec, "FAILED")
    /\ job' = Finished(id)
    /\ UNCHANGED <<lead, suppressed, campaign, message, outbox, requestVars,
                   recoveryVars, historyVars>>

\* The commit after an exception.
CommitFailed(id) ==
    LET m == job[id].msg
    IN  /\ job[id].st = "refused"
        /\ message' = [message EXCEPT ![m].status = Flush(@, job[id].seen, "FAILED")]
        /\ recipient' = RecipientSetTo(id.rec, "FAILED")
        /\ job' = Finished(id)
        /\ UNCHANGED <<lead, suppressed, campaign, outbox, requestVars,
                       recoveryVars, historyVars>>

-----------------------------------------------------------------------------
(* Task generate_outreach *)

\* The recipient is loaded; the call to the model provider is under way.
StartDrafting(id) ==
    /\ CanStart(id, "generate_outreach")
    /\ RecipientExists(id.rec)
    /\ job' = [job EXCEPT ![id].st = "drafting", ![id].try = @ + 1,
                          ![id].seen = recipient[id.rec].status]
    /\ UNCHANGED <<rowVars, outbox, requestVars, recoveryVars, historyVars>>

\* The recipient is not there when the task starts, or not any more at its
\* commit (StaleDataError).
RecipientGone(id) ==
    /\ \/ CanStart(id, "generate_outreach")
       \/ job[id].st = "drafting"
    /\ ~RecipientExists(id.rec)
    /\ job' = Finished(id)
    /\ UNCHANGED <<rowVars, outbox, requestVars, recoveryVars, historyVars>>

\* A draft is committed: the model's text, or the template when the call failed.
CommitDraft(id, m) ==
    /\ job[id].st = "drafting"
    /\ RecipientExists(id.rec)
    /\ Unused(m)
    /\ message' = [message EXCEPT ![m] =
                      [status |-> "DRAFT", lead |-> LeadOf(id.rec)]]
    /\ recipient' = [recipient EXCEPT
          ![id.rec] = [status |-> Flush(@.status, job[id].seen, "READY_FOR_REVIEW"),
                       msg |-> m]]
    /\ job' = [job EXCEPT ![id].st = "drafted"]
    /\ UNCHANGED <<lead, suppressed, campaign, outbox, requestVars,
                   recoveryVars, historyVars>>

\* The count of PENDING recipients; nothing else to do when some are left.
CountPending(id) ==
    /\ job[id].st = "drafted"
    /\ job' = IF PendingOf(CampaignOf(id.rec)) = {}
              THEN [job EXCEPT ![id].st = "settled"]
              ELSE Finished(id)
    /\ UNCHANGED <<rowVars, outbox, requestVars, recoveryVars, historyVars>>

\* The count was zero: the campaign is set READY_FOR_REVIEW, whatever it is.
CommitReady(id) ==
    LET c == CampaignOf(id.rec)
    IN  /\ job[id].st = "settled"
        /\ campaign' = [campaign EXCEPT ![c] =
                          IF CampaignExists(c) THEN "READY_FOR_REVIEW" ELSE @]
        /\ job' = Finished(id)
        /\ UNCHANGED <<lead, suppressed, recipient, message, outbox,
                       requestVars, recoveryVars, historyVars>>

-----------------------------------------------------------------------------
(* Crashes, restart and start-up recovery *)

\* The API process stops: its requests end where they are.
ApiCrash ==
    /\ approvals' = {}
    /\ triggers' = {}
    /\ outbox' = {call \in outbox : call.by # "api"}
    /\ UNCHANGED <<rowVars, job, recoveryVars, historyVars>>

\* The worker stops (kill, shutdown): arq runs its running jobs again.
WorkerCrash ==
    /\ job' = [id \in JobIds |->
                 IF job[id].st \in Running
                 THEN [NoJob EXCEPT !.st = "queued", !.msg = job[id].msg,
                                    !.ticket = job[id].ticket,
                                    !.try = job[id].try]
                 ELSE job[id]]
    /\ lost' = lost \cup {job[id].ticket :
                             id \in {i \in JobIds : job[i].st = "accepted"}}
    /\ booting' = TRUE
    /\ recovering' = {}
    /\ outbox' = {call \in outbox : call.by # "worker"}
    /\ UNCHANGED <<rowVars, requestVars, ticket, mails>>

\* _recover_stuck_campaigns selects the GENERATING campaigns.
SelectStuckCampaigns ==
    /\ booting
    /\ booting' = FALSE
    /\ recovering' = {c \in Campaigns : campaign[c] = "GENERATING"}
    /\ UNCHANGED <<rowVars, job, outbox, requestVars, historyVars>>

\* One round of its loop: attach every valid lead to an empty campaign, then
\* enqueue the PENDING recipients, or set the campaign back to DRAFT.
RecoverCampaign(c) ==
    LET valid == {l \in Leads : lead[l].valid}
        empty == RecipientsOf(c) = {}
        attached == IF empty THEN WithRecipients(c, valid) ELSE recipient
        pending == {r \in Recipients : /\ CampaignOf(r) = c
                                       /\ attached[r].status = "PENDING"}
    IN  /\ c \in recovering
        /\ \A call \in outbox : call.by # "worker"
        /\ CampaignExists(c)
        /\ recipient' = attached
        /\ \E f \in [pending -> Tokens] :
              /\ \A r \in pending : IsFreshGenerate(r, f[r])
              /\ outbox' = outbox \cup GenerateCalls("worker", f)
        /\ campaign' = IF empty /\ pending = {}
                       THEN [campaign EXCEPT ![c] = "DRAFT"]
                       ELSE campaign
        /\ recovering' = recovering \ {c}
        /\ UNCHANGED <<lead, suppressed, message, job, requestVars, booting,
                       historyVars>>

\* A campaign deleted meanwhile: the exception ends the recovery.
StaleRecovery ==
    /\ \E c \in recovering : ~CampaignExists(c)
    /\ \A call \in outbox : call.by # "worker"
    /\ recovering' = {}
    /\ UNCHANGED <<rowVars, job, outbox, requestVars, booting, historyVars>>

-----------------------------------------------------------------------------
(* Specification *)

CampaignRequest ==
    \E c \in Campaigns :
        \/ \E S \in SUBSET Leads : CreateCampaign(c, S)
        \/ \E l \in Leads : AddToCampaign(c, l)
        \/ \E status \in StatusInputs : HandleStatusAction(c, status)
        \/ DeleteCampaign(c)
        \/ TriggerGeneration(c)

ApprovalRequest ==
    \/ \E r \in Recipients :
          \/ \E m \in Messages : EditDraft(r, m)
          \/ LoadApproval(r)
          \/ Regenerate(r)
          \/ Skip(r)
          \/ SuppressFromQueue(r)
    \/ \E scope \in Campaigns \cup {None} : LoadApproveAll(scope)

LeadRequest ==
    \E l \in Leads :
        \/ AddSuppression(l)
        \/ RemoveSuppression(l)
        \/ \E stage \in StageInputs : UpdateLeadStage(l, stage)

\* A person asks for something, MaxRequests times at most.
Request ==
    /\ requests < MaxRequests
    /\ requests' = requests + 1
    /\ CampaignRequest \/ ApprovalRequest \/ LeadRequest

\* A request already begun goes on.
ContinueRequest ==
    \/ \E c \in Campaigns : SelectPending(c) \/ StaleTrigger(c)
    \/ \E q \in approvals : CommitApproval(q) \/ StaleApproval(q)

\* What the worker does for one job, unless it is stopped.
SendStep(id) ==
    \/ GiveUp(id)
    \/ SendWithoutMessage(id)
    \/ RefuseSuppressed(id)
    \/ ClearForSending(id)
    \/ ProviderAccepts(id)
    \/ ProviderTimesOut(id)
    \/ ProviderRefuses(id)
    \/ CommitSent(id)
    \/ CommitFailed(id)

DraftStep(id) ==
    \/ StartDrafting(id)
    \/ RecipientGone(id)
    \/ \E m \in Messages : CommitDraft(id, m)
    \/ CountPending(id)
    \/ CommitReady(id)

RecoveryStep ==
    \/ SelectStuckCampaigns
    \/ \E c \in Campaigns : RecoverCampaign(c)
    \/ StaleRecovery

\* Something breaks, MaxFaults times at most.
Fault ==
    /\ faults < MaxFaults
    /\ faults' = faults + 1
    /\ \/ ApiCrash
       \/ WorkerCrash
       \/ \E call \in outbox : EnqueueFails(call)

SystemStep ==
    \/ ContinueRequest
    \/ \E call \in outbox : Enqueue(call)
    \/ \E id \in JobIds : SendStep(id) \/ DraftStep(id) \/ ExpireResult(id)
    \/ RecoveryStep

Next ==
    \/ Request /\ UNCHANGED faults
    \/ Fault /\ UNCHANGED requests
    \/ SystemStep /\ UNCHANGED <<requests, faults>>

Spec == Init /\ [][Next]_vars

(***************************************************************************)
(* arq polls its queue for ever and every call a task awaits ends (the     *)
(* provider in 30 s, a job in 300 s), so a started send goes on unless the *)
(* worker is stopped. People are not fair: no request has to be made.      *)
(***************************************************************************)
FairSpec == Spec /\ \A id \in JobIds : WF_systemVars(SendStep(id))

-----------------------------------------------------------------------------
(* Properties *)

(***************************************************************************)
(* Whatever the order of approvals, regenerations, retries and restarts,   *)
(* the provider is handed only the very message a person approved, and it  *)
(* goes to the lead of the recipient that was approved (send_email carries *)
(* a message id from the approval to the provider).                        *)
(***************************************************************************)
MailedOnlyAsApproved ==
    \A t \in Tokens, m \in Messages :
        mails[t][m] > 0 =>
            /\ ticket[t] # None
            /\ ticket[t].msg = m
            /\ message[m].lead = LeadOf(ticket[t].rec)

(***************************************************************************)
(* One approval is one mail: a second hand-off under the same approval     *)
(* needs an earlier one whose outcome the worker never learnt (the worker  *)
(* stopped before its commit), as in any retry without an idempotency key. *)
(***************************************************************************)
OneMailPerApproval ==
    \A t \in Tokens, m \in Messages : mails[t][m] > 1 => t \in lost

(***************************************************************************)
(* Even then arq's max_tries bounds the copies of one approval: send_email *)
(* runs at most that many times for one job.                               *)
(***************************************************************************)
CopiesBoundedByTries ==
    \A t \in Tokens, m \in Messages : mails[t][m] <= MaxTries

(***************************************************************************)
(* No outcome is recorded that did not happen: a message or a recipient    *)
(* marked SENT and a lead marked as contacted rest on a hand-off of that   *)
(* message, for that recipient, to that lead.                              *)
(***************************************************************************)
Mailed(m) == \E t \in Tokens : mails[t][m] > 0
OutcomesAreBacked ==
    /\ \A m \in Messages : message[m].status = "SENT" => Mailed(m)
    /\ \A r \in Recipients : recipient[r].status = "SENT" =>
          \E t \in Tokens : /\ ticket[t] # None
                            /\ ticket[t].rec = r
                            /\ \E m \in Messages : mails[t][m] > 0
    /\ \A l \in Leads : lead[l].contacted =>
          \E m \in Messages : message[m].lead = l /\ Mailed(m)

(***************************************************************************)
(* No mail is forgotten unless its outcome was lost: once the provider has *)
(* a message, its lead is marked as contacted or a worker holds the        *)
(* provider's answer and is about to mark it.                              *)
(***************************************************************************)
MailIsRecorded ==
    \A t \in Tokens \ lost, m \in Messages :
        mails[t][m] > 0 =>
            \/ lead[message[m].lead].contacted
            \/ \E id \in JobIds : /\ job[id].st = "accepted"
                                  /\ job[id].ticket = t

(***************************************************************************)
(* While an address stays suppressed, the mails it has got plus the sends  *)
(* already past the check never grow: at most those sends still reach it,  *)
(* whatever is approved, queued or retried afterwards.                     *)
(***************************************************************************)
PastCheck(l) ==
    {id \in JobIds : /\ job[id].st = "cleared"
                     /\ message[job[id].msg].lead = l}
SuppressionClosesGate ==
    [][\A l \in suppressed \cap suppressed' : PastCheck(l)' \subseteq PastCheck(l)]_vars

(***************************************************************************)
(* Every send that reaches the queue with a message is decided: the        *)
(* message ends SENT or FAILED, unless the worker was stopped MaxTries     *)
(* times while it ran the job (send_email always commits one of the two).  *)
(***************************************************************************)
SendIsDecided ==
    \A id \in JobIds, m \in Messages :
        (job[id].st = "queued" /\ job[id].msg = m) ~>
            \/ message[m].status \in {"SENT", "FAILED"}
            \/ job[id].st = "queued" /\ job[id].try = MaxTries

(***************************************************************************)
(* Outreach implements MailContract: tickets are the approvals, a check is *)
(* in force while a send_email task is between its check and the provider. *)
(***************************************************************************)
ClearedTickets == {job[id].ticket : id \in {i \in JobIds : job[i].st = "cleared"}}
Contract == INSTANCE MailContract
                WITH grant <- ticket, cleared <- ClearedTickets, mailed <- mails
MailsKeepContract == Contract!Spec

-----------------------------------------------------------------------------
(* The inductive invariant behind the properties *)

IsSend(id) == id.fn = "send_email"
LiveSend(id) == IsSend(id) /\ job[id].st \notin {"absent", "kept"}
SendCallsLeft == {call \in outbox : IsSend(call.id)}

\* Ticket t stands for the approval of m for r.
Grants(t, r, m) ==
    /\ t \in Tokens
    /\ ticket[t] # None
    /\ ticket[t].rec = r
    /\ ticket[t].msg = m

\* Every send that waits or runs carries the ticket of its own approval, and
\* every job is in a state of its own task.
SendsAreGranted ==
    /\ \A call \in SendCallsLeft : Grants(call.ticket, call.id.rec, call.msg)
    /\ \A id \in JobIds :
          /\ LiveSend(id) => Grants(job[id].ticket, id.rec, job[id].msg)
          /\ job[id].st \in {"cleared", "accepted", "refused"} =>
                IsSend(id) /\ job[id].msg # None
          /\ job[id].st \in {"drafting", "drafted", "settled"} => ~IsSend(id)

\* No two sends share a ticket.
TicketsAreUsedOnce ==
    /\ \A call, other \in SendCallsLeft :
          call.ticket = other.ticket => call = other
    /\ \A call \in SendCallsLeft, id \in JobIds :
          LiveSend(id) => job[id].ticket # call.ticket
    /\ \A id, other \in JobIds :
          LiveSend(id) /\ LiveSend(other) /\ job[id].ticket = job[other].ticket
             => id = other

\* Mails and losses belong to approvals that were enqueued.
MailsAreGranted ==
    /\ \A t \in Tokens, m \in Messages :
          mails[t][m] > 0 => ticket[t] # None /\ ticket[t].msg = m
    /\ \A t \in lost : ticket[t] # None
    /\ \A call \in SendCallsLeft :
          /\ call.ticket \notin lost
          /\ \A m \in Messages : mails[call.ticket][m] = 0

\* How many mails the ticket of a live send may have had: none at all before
\* its hand-off, unless one was lost, and never more than it had tries.
MailsFitTheJob ==
    \A id \in JobIds, m \in Messages :
        LiveSend(id) =>
            /\ job[id].st # "accepted" /\ job[id].ticket \notin lost
                  => mails[job[id].ticket][m] = 0
            /\ mails[job[id].ticket][m] <= job[id].try
            /\ job[id].st = "cleared" => mails[job[id].ticket][m] < job[id].try

\* A message belongs to the lead of every recipient, approval request and
\* ticket that refers to it, and to none while it is unused.
MessagesAreAddressed ==
    /\ \A m \in Messages : message[m].status = "NONE" <=> message[m].lead = None
    /\ \A r \in Recipients :
          recipient[r].msg # None => message[recipient[r].msg].lead = LeadOf(r)
    /\ \A q \in approvals : \A i \in q.items :
          i.msg # None => message[i.msg].lead = LeadOf(i.rec)
    /\ \A t \in Tokens :
          ticket[t] # None /\ ticket[t].msg # None =>
             message[ticket[t].msg].lead = LeadOf(ticket[t].rec)

MailInvariant ==
    /\ SendsAreGranted
    /\ TicketsAreUsedOnce
    /\ MailsAreGranted
    /\ MailsFitTheJob
    /\ MessagesAreAddressed
    /\ OneMailPerApproval
    /\ CopiesBoundedByTries

=============================================================================
