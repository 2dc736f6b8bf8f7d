------------------------------ MODULE Dispatch ------------------------------
(***************************************************************************)
(* Campaigns of the TypeScript service: NestJS request handlers            *)
(* (apps/api/src) and BullMQ processors (apps/worker/src) over one         *)
(* Postgres database and one Redis.  No transaction spans two statements:  *)
(* every awaited Prisma, Redis or provider call is a point where the other *)
(* handlers and jobs run, so an action here is one call, or several        *)
(* consecutive ones when what they read cannot change in between.          *)
(* Tables, relations and status members are those the services name.       *)
(***************************************************************************)
EXTENDS Naturals, FiniteSets, Sequences, SequencesExt

CONSTANTS
    Leads,        \* lead rows; a lead stands for its unique normalizedEmail
    Campaigns,    \* campaign ids that can ever be created
    Enrolled,     \* campaigns that exist, with every lead PENDING, at the start
    Messages,     \* emailMessage ids that can ever be created
    Handlers,     \* requests the API serves at one time
    Stamps,       \* values of Date.now() in regeneration job ids
    None,         \* undefined, or no value
    MaxStalled,   \* BullMQ's maxStalledCount
    Menu,         \* the operations people use in an instance
    MaxRequests,  \* bound: requests in one behaviour
    MaxFaults     \* bound: crashes in one behaviour

ASSUME EnrolledExist == Enrolled \subseteq Campaigns
ASSUME BoundsAreNumbers == {MaxStalled, MaxRequests, MaxFaults} \subseteq Nat
ASSUME NoneIsNoValue == None \notin Leads \cup Campaigns \cup Messages \cup Stamps

VARIABLES
    lead,       \* lead -> its row, or None once deleted
    listed,     \* leads whose address is in suppressionEntry
    campaign,   \* campaign -> status, or "absent"
    recipient,  \* <<campaign, lead>> -> status, or "absent"
    drafts,     \* recipient -> its emailMessages, oldest first
    message,    \* message -> status, or "absent"
    handler,    \* handler -> the request it serves and how far it got
    job,        \* job id -> what Redis and the worker know of the job
    (***********************************************************************)
    (* History: nothing in the code reads these.                           *)
    (***********************************************************************)
    granted,    \* recipient -> queue.add calls of approvals that took effect
    handed,     \* message -> hand-offs the provider accepted
    mailed,     \* recipient -> hand-offs the provider accepted from its runs
    unlearnt,   \* recipient -> hand-offs of runs that never recorded them
    exposed,    \* lead -> sends past their check whenever it was listed
    late,       \* lead -> hand-offs made while it was listed
    reviewed,   \* messages that were the newest draft when one approved
    before,     \* campaign -> campaigns created before its request came in
    open,       \* campaigns whose leads the service chose by itself
    excused,    \* campaigns left GENERATING by people, crashes or a failed re-run
    dropped,    \* recipients whose approval died with the API
    answered,   \* recipients one of whose send jobs ran to its end
    requests, faults

rowVars == <<lead, listed, campaign, recipient, drafts, message>>
mailHistory == <<granted, handed, mailed, unlearnt, exposed, late, reviewed>>
campaignHistory == <<before, open, excused, dropped, answered>>
history == <<mailHistory, campaignHistory>>
bounds == <<requests, faults>>
vars == <<rowVars, handler, job, history, bounds>>

-----------------------------------------------------------------------------
(* Values *)

CrmStatus == {"IMPORTED", "CONTACTED", "REPLIED", "SUPPRESSED"}
ValidationStatus == {"VALID", "INVALID", "SUPPRESSED"}
CampaignStatus == {"absent", "DRAFT", "GENERATING", "READY_FOR_REVIEW",
                   "RUNNING", "PAUSED", "CANCELLED"}
RecipientStatus == {"absent", "PENDING", "READY_FOR_REVIEW", "APPROVED",
                    "CANCELLED", "SENT", "SUPPRESSED"}
EmailStatus == {"absent", "DRAFT", "APPROVED", "SENT", "FAILED"}

LeadRow == [crm : CrmStatus, valid : ValidationStatus, contacted : BOOLEAN]
Recipients == Campaigns \X Leads

JobIds == [kind : {"ai-gen", "send"}, of : Recipients, stamp : {None}]
            \cup [kind : {"ai-gen-regen"}, of : Recipients, stamp : Stamps]
GenerationIds == {j \in JobIds : j.kind # "send"}
SendId(r) == [kind |-> "send", of |-> r, stamp |-> None]
\* data: the emailMessageId the job carries; msg: the message a run has loaded.
NoJob == [state |-> "absent", at |-> "start", data |-> None, msg |-> None,
          stalls |-> 0]

\* of: the campaign or recipient in hand; all: the leads a request names.
Idle == [at |-> "idle", op |-> None, of |-> None, msg |-> None, all |-> {}, todo |-> {}]

Present == {r \in Recipients : recipient[r] # "absent"}
Pending(c) == {r \in Present : r[1] = c /\ recipient[r] = "PENDING"}
IdsOf(r) == ToSet(drafts[r])

TypeOK ==
    /\ lead \in [Leads -> LeadRow \cup {None}]
    /\ listed \subseteq Leads
    /\ campaign \in [Campaigns -> CampaignStatus]
    /\ recipient \in [Recipients -> RecipientStatus]
    /\ \A r \in Recipients : drafts[r] \in Seq(Messages)
    /\ message \in [Messages -> EmailStatus]
    /\ \A h \in Handlers : handler[h].todo \subseteq Recipients \cup Leads
    /\ job \in [JobIds -> [state : {"absent", "waiting", "active", "failed"},
                           at : {"start", "draft", "mark", "count", "release",
                                 "send", "refuse", "suppress", "refused",
                                 "record", "attribute", "contact", "done"},
                           data : Messages \cup {None},
                           msg : Messages \cup {None},
                           stalls : 0 .. MaxStalled + 1]]
    /\ reviewed \subseteq Messages

Init ==
    /\ lead = [l \in Leads |-> [crm |-> "IMPORTED", valid |-> "VALID",
                                contacted |-> FALSE]]
    /\ listed = {}
    /\ campaign = [c \in Campaigns |-> IF c \in Enrolled THEN "DRAFT" ELSE "absent"]
    /\ recipient = [r \in Recipients |->
                       IF r[1] \in Enrolled THEN "PENDING" ELSE "absent"]
    /\ drafts = [r \in Recipients |-> <<>>]
    /\ message = [m \in Messages |-> "absent"]
    /\ handler = [h \in Handlers |-> Idle]
    /\ job = [j \in JobIds |-> NoJob]
    /\ granted = [r \in Recipients |-> 0]
    /\ handed = [m \in Messages |-> 0]
    /\ mailed = [r \in Recipients |-> 0]
    /\ unlearnt = [r \in Recipients |-> 0]
    /\ exposed = [l \in Leads |-> 0]
    /\ late = [l \in Leads |-> 0]
    /\ reviewed = {}
    /\ before = [c \in Campaigns |-> {}]
    /\ open = {}
    /\ excused = {}
    /\ dropped = {}
    /\ answered = {}
    /\ requests = 0
    /\ faults = 0

-----------------------------------------------------------------------------
(* BullMQ.  An add under the id of a job that is still there, failed jobs  *)
(* included, is ignored; a completed job is removed; no processor asks for *)
(* attempts, so a job that throws stays failed.                            *)

Added(id, m) ==
    IF job[id].state = "absent"
    THEN [job EXCEPT ![id] = [NoJob EXCEPT !.state = "waiting", !.data = m]]
    ELSE job

Advance(j, step) == job' = [job EXCEPT ![j].state = "active", ![j].at = step]
Fail(j) == job' = [job EXCEPT ![j].state = "failed", ![j].at = "start"]
At(j, step) == job[j].state = "active" /\ job[j].at = step

(* A request comes in: an idle handler starts on it. *)
Ask(op) == op \in Menu /\ requests < MaxRequests
             /\ requests' = requests + 1 /\ UNCHANGED faults

Serve(h, op, at, of, todo) ==
    /\ handler[h] = Idle
    /\ handler' = [handler EXCEPT ![h] =
           [Idle EXCEPT !.at = at, !.op = op, !.of = of, !.todo = todo,
                        !.all = IF op = "suppress" THEN todo ELSE {}]]

OnStep(h, at) == handler[h].at = at
Goto(h, at) == handler' = [handler EXCEPT ![h].at = at]
Return(h) == handler' = [handler EXCEPT ![h] = Idle]


-----------------------------------------------------------------------------
(* campaigns.service *)

Uncontacted == {l \in Leads : /\ lead[l] # None
                              /\ lead[l].valid = "VALID"
                              /\ lead[l].crm = "IMPORTED"
                              /\ ~lead[l].contacted}
EnrolledLeads == {r[2] : r \in Present}

\* Mutant: leads enrolled elsewhere are taken again.
TargetsEnrolledElsewhere(by, named) ==
    CASE by = "ids"  -> named
      [] by = "list" -> named \cap Uncontacted
      [] by = "open" -> Uncontacted

\* Lead ids of the request, leads of its lists, or the leads not enrolled yet.
Targets(by, named) ==
    CASE by = "ids"  -> named
      [] by = "list" -> named \cap Uncontacted
      [] by = "open" -> Uncontacted \ EnrolledLeads

Exists(c) == campaign[c] # "absent"
Creating(c) == \E h \in Handlers : handler[h].op = "create" /\ handler[h].of = c

ResolveTargets(h, c, by, named) ==
    /\ Ask("create")
    /\ ~Exists(c) /\ ~Creating(c)
    /\ Serve(h, "create", "verify", c, Targets(by, named))
    /\ before' = [before EXCEPT ![c] =
                     {d \in Campaigns : Exists(d) /\ ~Creating(d)}]
    /\ open' = IF by = "open" THEN open \cup {c} ELSE open \ {c}
    /\ UNCHANGED <<rowVars, job, mailHistory, excused, dropped, answered>>

CreateCampaign(h) ==
    /\ OnStep(h, "verify")
    /\ campaign' = [campaign EXCEPT ![handler[h].of] = "DRAFT"]
    /\ handler' = [handler EXCEPT ![h].at = "enrol", ![h].todo = @ \cap Uncontacted]
    /\ UNCHANGED <<lead, listed, recipient, drafts, message, job, history, bounds>>

\* One statement: a lead deleted since breaks its foreign key for all of them.
EnrolTargets(h) ==
    /\ OnStep(h, "enrol")
    /\ LET targets == handler[h].todo
           rows == IF \E l \in targets : lead[l] = None THEN {}
                   ELSE {handler[h].of} \X targets
       IN  recipient' = [r \in Recipients |->
                            IF r \in rows THEN "PENDING" ELSE recipient[r]]
    /\ Return(h)
    /\ UNCHANGED <<lead, listed, campaign, drafts, message, job, history, bounds>>

\* Campaigns are in AI mode; a manual one refuses the request.
TriggerGeneration(h, c) ==
    /\ Ask("generate")
    /\ Exists(c)
    /\ campaign' = [campaign EXCEPT ![c] = "GENERATING"]
    /\ Serve(h, "generate", "select", c, {})
    /\ excused' = excused \ {c}
    /\ UNCHANGED <<lead, listed, recipient, drafts, message, job,
                   mailHistory, before, open, dropped, answered>>

SelectPending(h) ==
    /\ OnStep(h, "select")
    /\ LET c == handler[h].of
       IN  IF Pending(c) = {}
           THEN Return(h) /\ excused' = excused \cup {c}
           ELSE /\ handler' = [handler EXCEPT ![h].at = "enqueue",
                                              ![h].todo = Pending(c)]
                /\ UNCHANGED excused
    /\ UNCHANGED <<rowVars, job, mailHistory, before, open, dropped, answered, bounds>>

EnqueueGeneration(h, r) ==
    /\ OnStep(h, "enqueue")
    /\ r \in handler[h].todo
    /\ job' = Added([kind |-> "ai-gen", of |-> r, stamp |-> None], None)
    /\ IF handler[h].todo = {r} THEN Return(h)
       ELSE handler' = [handler EXCEPT ![h].todo = @ \ {r}]
    /\ UNCHANGED <<rowVars, history, bounds>>

\* START and RESUME, PAUSE, CANCEL: from any status.
HandleStatusAction(c, status) ==
    /\ Ask("status")
    /\ Exists(c)
    /\ campaign' = [campaign EXCEPT ![c] = status]
    /\ UNCHANGED <<lead, listed, recipient, drafts, message, handler, job, history>>

-----------------------------------------------------------------------------
(* approval.service *)

Newest(r) == IF drafts[r] = <<>> THEN None ELSE Last(drafts[r])

\* emailMessages[0] of a relation read without an order is any of its rows.
FirstOf(r) == IF drafts[r] = <<>> THEN {None} ELSE IdsOf(r)

NewDraft(r, m) ==
    /\ message[m] = "absent"
    /\ message' = [message EXCEPT ![m] = "DRAFT"]
    /\ drafts' = [drafts EXCEPT ![r] = Append(@, m)]

\* Editing rewrites the text of a message, or makes the first one.
EditDraft(r, m) ==
    /\ Ask("edit")
    /\ r \in Present /\ drafts[r] = <<>>
    /\ NewDraft(r, m)
    /\ UNCHANGED <<lead, listed, campaign, recipient, handler, job, history>>

\* The queue people act on lists the recipients READY_FOR_REVIEW; a page gone
\* stale, or a client of the API, names any.
Nameable(r) == \/ recipient[r] = "READY_FOR_REVIEW"
               \/ "unlisted" \in Menu /\ r \in Present

\* One recipient, or the recipients of a bulk request.
Decide(h, action, rs) ==
    /\ Ask(action)
    /\ rs # {} /\ \A r \in rs : Nameable(r)
    /\ Serve(h, action, "next", None, rs)
    /\ reviewed' = IF action = "APPROVE"
                   THEN reviewed \cup ({Newest(r) : r \in rs} \ {None})
                   ELSE reviewed
    /\ UNCHANGED <<rowVars, job, granted, handed, mailed, unlearnt, exposed, late,
                   campaignHistory>>

Taking(h, action, r) ==
    /\ OnStep(h, "next") /\ handler[h].op = action
    /\ r \in handler[h].todo

\* What follows handleAction in the loop of bulkAction.
AfterAction(h, todo) ==
    handler' = [handler EXCEPT ![h] =
                   IF todo = {} THEN Idle
                   ELSE [@ EXCEPT !.at = "next", !.of = None, !.msg = None,
                                  !.todo = todo]]

Working(h, at, r, m) ==
    handler' = [handler EXCEPT ![h].at = at, ![h].of = r, ![h].msg = m,
                               ![h].todo = @ \ {r}]

SetRecipient(r, status) == recipient' = [recipient EXCEPT ![r] = status]

\* A PENDING recipient taken out of generation by hand.
Excuse(r) ==
    excused' = IF recipient[r] = "PENDING" THEN excused \cup {r[1]} ELSE excused

\* A suppressed address makes handleAction throw; bulkAction goes on.
CheckBeforeApproval(h, r) ==
    /\ Taking(h, "APPROVE", r)
    /\ IF r[2] \in listed
       THEN AfterAction(h, handler[h].todo \ {r})
       ELSE \E m \in FirstOf(r) : Working(h, "approve", r, m)
    /\ UNCHANGED <<rowVars, job, history, bounds>>

\* Mutant: without a draft there is nothing to queue.
MarkApprovedDraftOnly(h) ==
    /\ OnStep(h, "approve")
    /\ SetRecipient(handler[h].of, "APPROVED")
    /\ Excuse(handler[h].of)
    /\ IF handler[h].msg = None THEN AfterAction(h, handler[h].todo)
       ELSE Goto(h, "approveDraft")
    /\ UNCHANGED <<lead, listed, campaign, drafts, message, job,
                   mailHistory, before, open, dropped, answered, bounds>>

MarkApproved(h) ==
    /\ OnStep(h, "approve")
    /\ SetRecipient(handler[h].of, "APPROVED")
    /\ Excuse(handler[h].of)
    /\ Goto(h, IF handler[h].msg = None THEN "dispatch" ELSE "approveDraft")
    /\ UNCHANGED <<lead, listed, campaign, drafts, message, job,
                   mailHistory, before, open, dropped, answered, bounds>>

\* Mutant: the recipient's status is written on the message.
ApproveDraftWrongEnum(h) ==
    /\ OnStep(h, "approveDraft")
    /\ message' = [message EXCEPT ![handler[h].msg] = "READY_FOR_REVIEW"]
    /\ Goto(h, "dispatch")
    /\ UNCHANGED <<lead, listed, campaign, recipient, drafts, job, history, bounds>>

ApproveDraft(h) ==
    /\ OnStep(h, "approveDraft")
    /\ message' = [message EXCEPT ![handler[h].msg] = "APPROVED"]
    /\ Goto(h, "dispatch")
    /\ UNCHANGED <<lead, listed, campaign, recipient, drafts, job, history, bounds>>

EnqueueSend(h) ==
    /\ OnStep(h, "dispatch")
    /\ LET r == handler[h].of
       IN  /\ job' = Added(SendId(r), handler[h].msg)
           /\ granted' = [granted EXCEPT ![r] =
                             @ + IF job' = job THEN 0 ELSE 1]
    /\ AfterAction(h, handler[h].todo)
    /\ UNCHANGED <<rowVars, handed, mailed, unlearnt, exposed, late, reviewed,
                   campaignHistory, bounds>>

Regenerate(h, r) ==
    /\ Taking(h, "REGENERATE", r)
    /\ SetRecipient(r, "PENDING")
    /\ Working(h, "regenerate", r, None)
    /\ UNCHANGED <<lead, listed, campaign, drafts, message, job, history, bounds>>

EnqueueRegeneration(h, now) ==
    /\ OnStep(h, "regenerate")
    /\ job' = Added([kind |-> "ai-gen-regen", of |-> handler[h].of, stamp |-> now],
                    None)
    /\ AfterAction(h, handler[h].todo)
    /\ UNCHANGED <<rowVars, history, bounds>>

Skip(h, r) ==
    /\ Taking(h, "SKIP", r)
    /\ SetRecipient(r, "CANCELLED")
    /\ Excuse(r)
    /\ AfterAction(h, handler[h].todo \ {r})
    /\ UNCHANGED <<lead, listed, campaign, drafts, message, job,
                   mailHistory, before, open, dropped, answered, bounds>>

-----------------------------------------------------------------------------
(* Suppression: approval SUPPRESS, suppression.service, leads.service *)

SendsPastCheck(l) ==
    {j \in JobIds : j.kind = "send" /\ j.of[2] = l /\ At(j, "send")}

List(l) ==
    /\ listed' = listed \cup {l}
    /\ exposed' = [exposed EXCEPT ![l] =
           @ + IF l \in listed THEN 0 ELSE Cardinality(SendsPastCheck(l))]
    /\ UNCHANGED <<granted, handed, mailed, unlearnt, late, reviewed>>

SuppressedRow(l) ==
    IF lead[l] = None THEN None
    ELSE [lead[l] EXCEPT !.crm = "SUPPRESSED", !.valid = "SUPPRESSED"]

SuppressRecipient(h, r) ==
    /\ Taking(h, "SUPPRESS", r)
    /\ List(r[2])
    /\ Working(h, "suppressLead", r, None)
    /\ UNCHANGED <<lead, campaign, recipient, drafts, message, job,
                   campaignHistory, bounds>>

SuppressLeadOf(h) ==
    /\ OnStep(h, "suppressLead")
    /\ LET l == handler[h].of[2] IN lead' = [lead EXCEPT ![l] = SuppressedRow(l)]
    /\ Goto(h, "suppressRecipient")
    /\ UNCHANGED <<listed, campaign, recipient, drafts, message, job, history, bounds>>

CloseRecipient(h) ==
    /\ OnStep(h, "suppressRecipient")
    /\ SetRecipient(handler[h].of, "SUPPRESSED")
    /\ Excuse(handler[h].of)
    /\ AfterAction(h, handler[h].todo)
    /\ UNCHANGED <<lead, listed, campaign, drafts, message, job,
                   mailHistory, before, open, dropped, answered, bounds>>

\* addSuppression names one address, the bulk action of leads several.
AskSuppression(h, ls) ==
    /\ Ask("suppress")
    /\ ls # {}
    /\ Serve(h, "suppress", "list", None, ls)
    /\ UNCHANGED <<rowVars, job, history>>

UpsertEntry(h, l) ==
    /\ OnStep(h, "list")
    /\ l \in handler[h].todo
    /\ List(l)
    /\ handler' = [handler EXCEPT ![h].todo = @ \ {l},
                       ![h].at = IF handler[h].todo = {l} THEN "markLeads" ELSE @]
    /\ UNCHANGED <<lead, campaign, recipient, drafts, message, job,
                   campaignHistory, bounds>>

MarkLeadsSuppressed(h) ==
    /\ OnStep(h, "markLeads")
    /\ lead' = [l \in Leads |-> IF l \in handler[h].all THEN SuppressedRow(l)
                                ELSE lead[l]]
    /\ Return(h)
    /\ UNCHANGED <<listed, campaign, recipient, drafts, message, job, history, bounds>>

\* Only the entry goes: the lead row stays SUPPRESSED.
RemoveSuppression(l) ==
    /\ Ask("unlist")
    /\ l \in listed
    /\ listed' = listed \ {l}
    /\ UNCHANGED <<lead, campaign, recipient, drafts, message, handler, job, history>>

\* updateLead and the bulk UPDATE_CRM_STATUS write any stage over any other.
UpdateLeads(ls, stage) ==
    /\ Ask("update")
    /\ ls # {}
    /\ lead' = [l \in Leads |->
                   IF l \in ls /\ lead[l] # None
                   THEN [lead[l] EXCEPT !.crm = stage] ELSE lead[l]]
    /\ UNCHANGED <<listed, campaign, recipient, drafts, message, handler, job, history>>

\* One deleteMany, refused as a whole when a campaign row names one of them.
DeleteLeads(ls) ==
    /\ Ask("delete")
    /\ ls # {} /\ ls \cap EnrolledLeads = {}
    /\ lead' = [l \in Leads |-> IF l \in ls THEN None ELSE lead[l]]
    /\ UNCHANGED <<listed, campaign, recipient, drafts, message, handler, job, history>>

-----------------------------------------------------------------------------
(* ai-generation.processor *)

StartGeneration(j) ==
    /\ job[j].state = "waiting"
    /\ Advance(j, "draft")
    /\ UNCHANGED <<rowVars, handler, history, bounds>>

\* The recipient stays as it is; in the re-run of a stalled job that may be
\* READY_FOR_REVIEW with the campaign still to be released.
GenerationFails(j) ==
    /\ At(j, "draft")
    /\ Fail(j)
    /\ excused' = IF job[j].stalls > 0 THEN excused \cup {j.of[1]} ELSE excused
    /\ UNCHANGED <<rowVars, handler, mailHistory, before, open, dropped, answered, bounds>>

\* A draft is added each time: an earlier one of the recipient stays.
WriteDraft(j, m) ==
    /\ At(j, "draft")
    /\ NewDraft(j.of, m)
    /\ Advance(j, "mark")
    /\ UNCHANGED <<lead, listed, campaign, recipient, handler, history, bounds>>

MarkReady(j) ==
    /\ At(j, "mark")
    /\ SetRecipient(j.of, "READY_FOR_REVIEW")
    /\ Advance(j, "count")
    /\ UNCHANGED <<lead, listed, campaign, drafts, message, handler, history, bounds>>

\* Mutant: the count is taken as if the job's own recipient were still in it.
CountPendingOffByOne(j) ==
    /\ At(j, "count")
    /\ Advance(j, IF Cardinality(Pending(j.of[1])) = 1 THEN "release" ELSE "done")
    /\ UNCHANGED <<rowVars, handler, history, bounds>>

\* Mutant: the count is never acted on.
CountPendingOnly(j) ==
    /\ At(j, "count")
    /\ Advance(j, "done")
    /\ UNCHANGED <<rowVars, handler, history, bounds>>

CountPending(j) ==
    /\ At(j, "count")
    /\ Advance(j, IF Pending(j.of[1]) = {} THEN "release" ELSE "done")
    /\ UNCHANGED <<rowVars, handler, history, bounds>>

ReleaseCampaign(j) ==
    /\ At(j, "release")
    /\ campaign' = [campaign EXCEPT ![j.of[1]] = "READY_FOR_REVIEW"]
    /\ Advance(j, "done")
    /\ UNCHANGED <<lead, listed, recipient, drafts, message, handler, history, bounds>>

Ended(j) == At(j, "done") \/ (j.kind = "send" /\ At(j, "refused"))

\* Mutant: a finished job goes back to the queue.
CompleteUnacknowledged(j) ==
    /\ Ended(j)
    /\ job' = [job EXCEPT ![j].state = "waiting", ![j].at = "start"]
    /\ answered' = IF j.kind = "send" THEN answered \cup {j.of} ELSE answered
    /\ UNCHANGED <<rowVars, handler, mailHistory, before, open, excused, dropped, bounds>>

\* BullMQ removes the job some time after the processor returned.
Complete(j) ==
    /\ Ended(j)
    /\ job' = [job EXCEPT ![j] = NoJob]
    /\ answered' = IF j.kind = "send" THEN answered \cup {j.of} ELSE answered
    /\ UNCHANGED <<rowVars, handler, mailHistory, before, open, excused, dropped, bounds>>

-----------------------------------------------------------------------------
(* email-send.processor *)

\* The message named by the job, else the newest of the recipient.
Loaded(j) == IF job[j].data # None THEN job[j].data ELSE Newest(j.of)

\* Mutant: the suppression list is not consulted.
StartSendUnchecked(j) ==
    /\ job[j].state = "waiting"
    /\ IF Loaded(j) = None THEN Fail(j)
       ELSE job' = [job EXCEPT ![j].state = "active", ![j].msg = Loaded(j),
                               ![j].at = "send"]
    /\ UNCHANGED <<rowVars, handler, history, bounds>>

StartSend(j) ==
    /\ job[j].state = "waiting"
    /\ IF Loaded(j) = None THEN Fail(j)
       ELSE job' = [job EXCEPT ![j].state = "active", ![j].msg = Loaded(j),
                       ![j].at = IF j.of[2] \in listed THEN "refuse" ELSE "send"]
    /\ UNCHANGED <<rowVars, handler, history, bounds>>

RefuseSend(j) ==
    /\ At(j, "refuse")
    /\ message' = [message EXCEPT ![job[j].msg] = "FAILED"]
    /\ Advance(j, "suppress")
    /\ UNCHANGED <<lead, listed, campaign, recipient, drafts, handler, history, bounds>>

SuppressTarget(j) ==
    /\ At(j, "suppress")
    /\ SetRecipient(j.of, "SUPPRESSED")
    /\ Excuse(j.of)
    /\ Advance(j, "refused")
    /\ UNCHANGED <<lead, listed, campaign, drafts, message, handler,
                   mailHistory, before, open, dropped, answered, bounds>>

Handing(j) ==
    /\ At(j, "send")
    /\ handed' = [handed EXCEPT ![job[j].msg] = @ + 1]
    /\ mailed' = [mailed EXCEPT ![j.of] = @ + 1]
    /\ late' = [late EXCEPT ![j.of[2]] = @ + IF j.of[2] \in listed THEN 1 ELSE 0]
    /\ UNCHANGED <<rowVars, handler, granted, exposed, reviewed, campaignHistory, bounds>>

HandOff(j) ==
    /\ Handing(j)
    /\ Advance(j, "record")
    /\ UNCHANGED unlearnt

\* Accepted by the provider, an error to the caller.
HandOffTimesOut(j) ==
    /\ Handing(j)
    /\ Fail(j)
    /\ unlearnt' = [unlearnt EXCEPT ![j.of] = @ + 1]

\* Mutant: the provider's error is logged and the job goes on.
HandOffRefusedLogged(j) ==
    /\ At(j, "send")
    /\ Advance(j, "record")
    /\ UNCHANGED <<rowVars, handler, history, bounds>>

HandOffRefused(j) ==
    /\ At(j, "send")
    /\ Fail(j)
    /\ UNCHANGED <<rowVars, handler, history, bounds>>

RecordSent(j) ==
    /\ At(j, "record")
    /\ message' = [message EXCEPT ![job[j].msg] = "SENT"]
    /\ Advance(j, "attribute")
    /\ UNCHANGED <<lead, listed, campaign, recipient, drafts, handler, history, bounds>>

\* Mutant: the recipient is not marked.
AttributeSentToNobody(j) ==
    /\ At(j, "attribute")
    /\ Advance(j, "contact")
    /\ UNCHANGED <<rowVars, handler, history, bounds>>

AttributeSent(j) ==
    /\ At(j, "attribute")
    /\ SetRecipient(j.of, "SENT")
    /\ Excuse(j.of)
    /\ Advance(j, "contact")
    /\ UNCHANGED <<lead, listed, campaign, drafts, message, handler,
                   mailHistory, before, open, dropped, answered, bounds>>

\* Unconditional: over SUPPRESSED or any other stage reached meanwhile.
MarkContacted(j) ==
    /\ At(j, "contact")
    /\ lead' = [lead EXCEPT ![j.of[2]].crm = "CONTACTED", ![j.of[2]].contacted = TRUE]
    /\ Advance(j, "done")
    /\ UNCHANGED <<listed, campaign, recipient, drafts, message, handler, history, bounds>>

-----------------------------------------------------------------------------
(* Crashes *)

Active == {j \in JobIds : job[j].state = "active"}
\* Past their hand-off, and never known to be complete.
Unrecorded == {j \in Active : /\ j.kind = "send"
                              /\ job[j].at \in {"record", "attribute", "contact", "done"}}

\* The worker dies: its locks expire and BullMQ puts its jobs back to waiting,
\* or fails those that stalled too often.
WorkerCrash ==
    /\ Active # {}
    /\ faults < MaxFaults /\ faults' = faults + 1
    /\ job' = [j \in JobIds |->
                  IF j \notin Active THEN job[j]
                  ELSE [job[j] EXCEPT !.at = "start", !.msg = None, !.stalls = @ + 1,
                            !.state = IF job[j].stalls < MaxStalled
                                      THEN "waiting" ELSE "failed"]]
    /\ unlearnt' = [r \in Recipients |->
                       unlearnt[r] + Cardinality({j \in Unrecorded : j.of = r})]
    /\ excused' = excused \cup {j.of[1] : j \in {k \in Active \cap GenerationIds :
                                                   job[k].stalls = MaxStalled}}
    /\ UNCHANGED <<rowVars, handler, granted, handed, mailed, exposed, late, reviewed,
                   before, open, dropped, answered, requests>>

\* The API dies between two statements of its requests.
ApiCrash ==
    /\ \E h \in Handlers : handler[h] # Idle
    /\ faults < MaxFaults /\ faults' = faults + 1
    /\ handler' = [h \in Handlers |-> Idle]
    /\ dropped' = dropped \cup {handler[h].of : h \in
                     {k \in Handlers : handler[k].at \in {"approveDraft", "dispatch"}}}
    /\ excused' = excused \cup {handler[h].of : h \in
                     {k \in Handlers : handler[k].op = "generate"}}
    /\ UNCHANGED <<rowVars, job, mailHistory, before, open, answered, requests>>

-----------------------------------------------------------------------------
(* Specification *)

\* Ids or lists of leads, or neither: then the service chooses.
CreateInputs == {<<"open", {}>>}
                  \cup {"ids", "list"} \X (SUBSET Leads \ {{}})
StatusActions == {"RUNNING", "PAUSED", "CANCELLED"}
ApprovalActions == {"APPROVE", "REGENERATE", "SKIP", "SUPPRESS"}
StageInputs == {"IMPORTED", "REPLIED"}

CampaignRequest ==
    \E c \in Campaigns :
        \/ \E h \in Handlers, in \in CreateInputs : ResolveTargets(h, c, in[1], in[2])
        \/ \E h \in Handlers : TriggerGeneration(h, c)
        \/ \E s \in StatusActions : HandleStatusAction(c, s)

ApprovalRequest ==
    \/ \E r \in Recipients, m \in Messages : EditDraft(r, m)
    \/ \E h \in Handlers, action \in ApprovalActions, rs \in SUBSET Recipients :
          Decide(h, action, rs)

LeadRequest ==
    \E ls \in SUBSET Leads :
        \/ \E h \in Handlers : AskSuppression(h, ls)
        \/ \E s \in StageInputs : UpdateLeads(ls, s)
        \/ DeleteLeads(ls)

SuppressionRequest ==
    \/ \E h \in Handlers, l \in Leads : AskSuppression(h, {l})
    \/ \E l \in Leads : RemoveSuppression(l)

HandlerStep(h) ==
    \/ CreateCampaign(h) \/ EnrolTargets(h)
    \/ SelectPending(h)
    \/ MarkApproved(h) \/ ApproveDraft(h) \/ EnqueueSend(h)
    \/ SuppressLeadOf(h) \/ CloseRecipient(h) \/ MarkLeadsSuppressed(h)
    \/ \E r \in Recipients : \/ EnqueueGeneration(h, r)
                             \/ CheckBeforeApproval(h, r)
                             \/ Regenerate(h, r)
                             \/ Skip(h, r)
                             \/ SuppressRecipient(h, r)
    \/ \E l \in Leads : UpsertEntry(h, l)
    \/ \E now \in Stamps : EnqueueRegeneration(h, now)

GenerationStep(j) ==
    \/ StartGeneration(j) \/ GenerationFails(j) \/ MarkReady(j)
    \/ CountPending(j) \/ ReleaseCampaign(j)
    \/ \E m \in Messages : WriteDraft(j, m)

SendStep(j) ==
    \/ StartSend(j) \/ RefuseSend(j) \/ SuppressTarget(j)
    \/ HandOff(j) \/ HandOffTimesOut(j) \/ HandOffRefused(j)
    \/ RecordSent(j) \/ AttributeSent(j) \/ MarkContacted(j)

JobStep(j) ==
    \/ j \in GenerationIds /\ GenerationStep(j)
    \/ j \notin GenerationIds /\ SendStep(j)
    \/ Complete(j)

Next ==
    \/ CampaignRequest \/ ApprovalRequest \/ LeadRequest \/ SuppressionRequest
    \/ \E h \in Handlers : HandlerStep(h)
    \/ \E j \in JobIds : JobStep(j)
    \/ WorkerCrash \/ ApiCrash

\* A live server goes on with its requests and a live worker with its jobs;
\* nobody has to ask for anything, and nothing has to fail.
Fairness == /\ WF_vars(\E h \in Handlers : HandlerStep(h))
            /\ WF_vars(\E j \in JobIds : JobStep(j))

Spec == Init /\ [][Next]_vars
FairSpec == Spec /\ Fairness

-----------------------------------------------------------------------------
(* Properties *)

\* Every mail of a recipient is covered by an approval that queued a job or by
\* a hand-off whose run was cut before it could record it: repeated approvals
\* and bulk requests never mail more often (approval.service:147, the job id).
MailsAreGranted == \A r \in Recipients : mailed[r] <= granted[r] + unlearnt[r]

\* After an address is listed only sends already past their check reach it,
\* each once: a re-run checks again (email-send.processor:74).
LateMailsAreBounded == \A l \in Leads : late[l] <= exposed[l]

\* Every mail has a check of its own, made while its address was not listed, and
\* every check an approval not yet spent or a mail no run recorded: requests,
\* job ids, stalls and crashes implement SendContract (email-send.processor:62-142).
Cleared == {r \in Recipients : At(SendId(r), "send")}
Contract == INSTANCE SendContract WITH cleared <- Cleared, lost <- unlearnt
SendsKeepContract == Contract!Spec

\* An APPROVED recipient has a request about to queue its send, or a job, or a
\* job of it that ended, unless the API died in the request: the add that is
\* ignored never loses an approval (approval.service:133-157).
ApprovalIsNotDropped ==
    \A r \in Recipients :
        recipient[r] = "APPROVED" =>
            \/ \E h \in Handlers : /\ handler[h].of = r
                                   /\ handler[h].at \in {"approveDraft", "dispatch"}
            \/ job[SendId(r)].state # "absent"
            \/ r \in dropped \cup answered

\* A campaign whose leads the service chose shares none with a campaign whose
\* creation had ended before it was asked for (campaigns.service:110-125).
OpenCampaignsTakeFreshLeads ==
    \A c \in open, d \in Campaigns :
        d \in before[c] =>
            \A l \in Leads : ~ {<<c, l>>, <<d, l>>} \subseteq Present

Quiet(c) == /\ \A j \in GenerationIds :
                  j.of[1] = c => job[j].state \in {"absent", "failed"}
            /\ \A h \in Handlers : ~(handler[h].op = "generate" /\ handler[h].of = c)

\* The last draft of a campaign releases it, whichever job writes it: it is not
\* left GENERATING with nothing to do, unless there was nothing to generate or
\* people took the last recipient out by hand (ai-generation.processor:104).
LastDraftReleasesCampaign ==
    \A c \in Campaigns :
        campaign[c] = "GENERATING" /\ Pending(c) = {} /\ Quiet(c) => c \in excused

\* A recipient or message recorded SENT, and a lead recorded as contacted, rest
\* on a mail the provider took (email-send.processor:150-175).
OutcomesAreBacked ==
    /\ \A r \in Recipients :
          recipient[r] = "SENT" => \E m \in IdsOf(r) : handed[m] > 0
    /\ \A m \in Messages : message[m] = "SENT" => handed[m] > 0
    /\ \A l \in Leads : lead[l] # None /\ lead[l].contacted =>
          \E c \in Campaigns, m \in Messages : m \in IdsOf(<<c, l>>) /\ handed[m] > 0

\* A queued send ends: its outcome is written or its job has failed, whatever
\* is asked meanwhile.
SendIsSettled ==
    \A r \in Recipients :
        job[SendId(r)].state = "waiting" ~>
            \/ recipient[r] \in {"SENT", "SUPPRESSED"}
            \/ job[SendId(r)].state = "failed"

\* A campaign does not stay GENERATING unless a job failed, the API died or
\* people left it so.
GenerationEnds ==
    \A c \in Campaigns :
        campaign[c] = "GENERATING" ~>
            \/ campaign[c] # "GENERATING" \/ c \in excused \/ faults > 0
            \/ \E j \in GenerationIds : j.of[1] = c /\ job[j].state = "failed"

\* SECURITY.md:34, outreach "cannot be sent without explicit human review and
\* approval": what is mailed was the draft the approval page showed.
MailedIsReviewed == \A m \in Messages : handed[m] > 0 => m \in reviewed

=============================================================================
