--------------------------- MODULE OutreachProofs ---------------------------
(***************************************************************************)
(* Proofs about Outreach, for every number of leads, campaigns, messages,  *)
(* requests and crashes. TypeOK /\ MailInvariant is inductive: the typing  *)
(* of a step needs the addressing of messages, and the counting of mails   *)
(* needs the tickets of all sends that wait or run.                        *)
(***************************************************************************)
EXTENDS Outreach, TLAPS

\* The bounds on what people do and on what breaks, after a step.
BoundsKept == requests' \in 0..MaxRequests /\ faults' \in 0..MaxFaults

-----------------------------------------------------------------------------
(* Types of the expressions that several actions assign *)

\* The initial state is typed.
LEMMA InitType == Init => TypeOK
<1> SUFFICES ASSUME Init PROVE TypeOK
  OBVIOUS
<1> USE DEF Init
<1>1. lead \in [Leads -> LeadRow] /\ suppressed \subseteq Leads
  BY DEF LeadRow, CrmStatus
<1>2. campaign \in [Campaigns -> CampaignStatus]
  BY DEF CampaignStatus
<1>3. recipient \in [Recipients -> RecipientRow]
  BY DEF RecipientRow, RecipientStatus
<1>4. message \in [Messages -> MessageRow]
  BY DEF MessageRow, MessageStatus
<1>5. job \in [JobIds -> JobRow]
  BY TriesArePositive DEF JobRow, NoJob, JobState, MessageStatus
<1>6. ticket \in [Tokens -> Grant \cup {None}] /\ mails \in [Tokens -> [Messages -> Nat]]
  OBVIOUS
<1>7. requests \in 0..MaxRequests /\ faults \in 0..MaxFaults
  BY BoundsAreNumbers
<1> QED
  BY <1>1, <1>2, <1>3, <1>4, <1>5, <1>6, <1>7 DEF TypeOK

\* A job that ends leaves a job row.
LEMMA FinishedType ==
    ASSUME job \in [JobIds -> JobRow], NEW id \in JobIds
    PROVE  Finished(id) \in [JobIds -> JobRow]
<1>1. [NoJob EXCEPT !.st = IF id.tok = None THEN "kept" ELSE "absent"] \in JobRow
  BY TriesArePositive DEF NoJob, JobRow, JobState, MessageStatus
<1> QED
  BY <1>1 DEF Finished

\* A job that only changes its state stays a job row.
LEMMA StateType ==
    ASSUME job \in [JobIds -> JobRow], NEW id \in JobIds, NEW s \in JobState
    PROVE  [job EXCEPT ![id].st = s] \in [JobIds -> JobRow]
<1>1. [job[id] EXCEPT !.st = s] \in JobRow
  BY DEF JobRow
<1> QED
  BY <1>1

\* A job that starts counts one try more, at most max_tries.
LEMMA StartType ==
    ASSUME job \in [JobIds -> JobRow], NEW id \in JobIds, NEW s \in JobState,
           job[id].try < MaxTries,
           NEW v \in MessageStatus \cup RecipientStatus,
           NEW w \in CrmStatus \cup {"NONE"}
    PROVE  /\ [job EXCEPT ![id].st = s, ![id].try = @ + 1,
                          ![id].seen = v] \in [JobIds -> JobRow]
           /\ [job EXCEPT ![id].st = s, ![id].try = @ + 1,
                          ![id].seen = v, ![id].seenCrm = w] \in [JobIds -> JobRow]
<1>1. job[id].try + 1 \in 0..MaxTries
  BY TriesArePositive DEF JobRow
<1>2. [job[id] EXCEPT !.st = s, !.try = @ + 1, !.seen = v] \in JobRow
  BY <1>1 DEF JobRow
<1>3. [job[id] EXCEPT !.st = s, !.try = @ + 1, !.seen = v, !.seenCrm = w] \in JobRow
  BY <1>1 DEF JobRow
<1> QED
  BY <1>2, <1>3

\* A job that is queued is a job row.
LEMMA QueuedType ==
    ASSUME NEW m \in Messages \cup {None}, NEW t \in Tokens \cup {None},
           NEW n \in 0..MaxTries
    PROVE  /\ [NoJob EXCEPT !.st = "queued", !.msg = m, !.ticket = t] \in JobRow
           /\ [NoJob EXCEPT !.st = "queued", !.msg = m, !.ticket = t,
                            !.try = n] \in JobRow
<1>1. 0 \in 0..MaxTries
  BY TriesArePositive
<1>2. [NoJob EXCEPT !.st = "queued", !.msg = m, !.ticket = t] \in JobRow
  BY <1>1 DEF NoJob, JobRow, JobState, MessageStatus
<1>3. [NoJob EXCEPT !.st = "queued", !.msg = m, !.ticket = t, !.try = n] \in JobRow
  BY DEF NoJob, JobRow, JobState, MessageStatus
<1> QED
  BY <1>2, <1>3

\* The message of a started send belongs to a lead; its ticket is a token.
LEMMA SendingType ==
    ASSUME TypeOK, MailInvariant, NEW id \in JobIds, LiveSend(id)
    PROVE  /\ job[id].ticket \in Tokens
           /\ job[id].msg # None =>
                 /\ job[id].msg \in Messages
                 /\ message[job[id].msg].lead = LeadOf(id.rec)
                 /\ message[job[id].msg].lead \in Leads
                 /\ message[job[id].msg].status # "NONE"
<1>1. Grants(job[id].ticket, id.rec, job[id].msg)
  BY DEF MailInvariant, SendsAreGranted
<1>2. job[id].msg \in Messages \cup {None} /\ id.rec \in Recipients
  BY DEF TypeOK, JobRow, JobIds
<1>3. LeadOf(id.rec) \in Leads
  BY <1>2 DEF Recipients, LeadOf
<1>4. ASSUME job[id].msg # None
      PROVE  message[job[id].msg].lead = LeadOf(id.rec)
  BY <1>1, <1>4 DEF MailInvariant, MessagesAreAddressed, Grants
<1> QED
  BY <1>1, <1>2, <1>3, <1>4, NoneIsNoValue DEF Grants, MailInvariant, MessagesAreAddressed

-----------------------------------------------------------------------------
(* Every step keeps the types *)

\* Requests to the campaign service keep the types.
LEMMA CampaignRequestType ==
    ASSUME TypeOK, BoundsKept, CampaignRequest
    PROVE  TypeOK'
<1> USE DEF BoundsKept
<1>1. ASSUME NEW c \in Campaigns, NEW S \in SUBSET Leads, CreateCampaign(c, S)
      PROVE  TypeOK'
  BY <1>1 DEF CreateCampaign, TypeOK, WithRecipients, historyVars, recoveryVars,
              requestVars, CampaignStatus, RecipientRow, RecipientStatus
<1>2. ASSUME NEW c \in Campaigns, NEW l \in Leads, AddToCampaign(c, l)
      PROVE  TypeOK'
  BY <1>2 DEF AddToCampaign, TypeOK, WithRecipients, historyVars, recoveryVars,
              requestVars, RecipientRow, RecipientStatus
<1>3. ASSUME NEW c \in Campaigns, NEW status \in StatusInputs,
             HandleStatusAction(c, status)
      PROVE  TypeOK'
  BY <1>3, InputsAreValues DEF HandleStatusAction, TypeOK, historyVars,
              recoveryVars, requestVars, CampaignStatus
<1>4. ASSUME NEW c \in Campaigns, DeleteCampaign(c)
      PROVE  TypeOK'
  BY <1>4 DEF DeleteCampaign, TypeOK, historyVars, recoveryVars, requestVars,
              CampaignStatus, RecipientRow, RecipientStatus
<1>5. ASSUME NEW c \in Campaigns, TriggerGeneration(c)
      PROVE  TypeOK'
  BY <1>5 DEF TriggerGeneration, TypeOK, historyVars, recoveryVars, CampaignStatus
<1> QED
  BY <1>1, <1>2, <1>3, <1>4, <1>5 DEF CampaignRequest

\* What an approval request has loaded is typed.
LEMMA LoadedType ==
    ASSUME TypeOK, NEW r \in Recipients
    PROVE  Loaded(r) \in Item
<1>1. recipient[r] \in RecipientRow
  BY DEF TypeOK
<1>2. recipient[r].msg # None => message[recipient[r].msg] \in MessageRow
  BY <1>1 DEF TypeOK, RecipientRow
<1> QED
  BY <1>1, <1>2 DEF Loaded, Item, RecipientRow, MessageRow, MessageStatus

\* Suppressing a lead keeps lead rows lead rows.
LEMMA SuppressedLeadType ==
    ASSUME lead \in [Leads -> LeadRow], NEW l \in Leads
    PROVE  SuppressedLead(l) \in [Leads -> LeadRow]
<1>1. [lead[l] EXCEPT !.crm = "SUPPRESSED", !.valid = FALSE] \in LeadRow
  BY DEF LeadRow, CrmStatus
<1> QED
  BY <1>1 DEF SuppressedLead

\* Requests to the approval service keep the types.
LEMMA ApprovalRequestType ==
    ASSUME TypeOK, BoundsKept, ApprovalRequest
    PROVE  TypeOK'
<1> USE DEF BoundsKept
<1>1. ASSUME NEW r \in Recipients, NEW m \in Messages, EditDraft(r, m)
      PROVE  TypeOK'
  <2>1. [status |-> "DRAFT", lead |-> LeadOf(r)] \in MessageRow
    BY DEF MessageRow, MessageStatus, Recipients, LeadOf
  <2>2. [recipient[r] EXCEPT !.msg = m] \in RecipientRow
    BY DEF TypeOK, RecipientRow
  <2> QED
    BY <1>1, <2>1, <2>2 DEF EditDraft, TypeOK, historyVars, recoveryVars, requestVars
<1>2. ASSUME NEW r \in Recipients, LoadApproval(r)
      PROVE  TypeOK'
  <2>1. [op |-> "APPROVE", campaign |-> None, items |-> {Loaded(r)},
         no |-> requests] \in Approval
    BY LoadedType DEF Approval, TypeOK
  <2> QED
    BY <1>2, <2>1 DEF LoadApproval, TypeOK, rowVars, historyVars, recoveryVars
<1>3. ASSUME NEW r \in Recipients, Regenerate(r)
      PROVE  TypeOK'
  <2>1. [recipient[r] EXCEPT !.status = "PENDING"] \in RecipientRow
    BY DEF TypeOK, RecipientRow, RecipientStatus
  <2>2. [by |-> "api", id |-> GenerateId(r, None), msg |-> None, ticket |-> None] \in Call
    BY DEF Call, GenerateId, JobIds, Functions
  <2> QED
    BY <1>3, <2>1, <2>2 DEF Regenerate, TypeOK, historyVars, recoveryVars, requestVars
<1>4. ASSUME NEW r \in Recipients, Skip(r)
      PROVE  TypeOK'
  BY <1>4 DEF Skip, TypeOK, historyVars, recoveryVars, requestVars, RecipientRow,
              RecipientStatus
<1>5. ASSUME NEW r \in Recipients, SuppressFromQueue(r)
      PROVE  TypeOK'
  <2>1. LeadOf(r) \in Leads
    BY DEF Recipients, LeadOf
  <2>2. [recipient[r] EXCEPT !.status = "SUPPRESSED"] \in RecipientRow
    BY DEF TypeOK, RecipientRow, RecipientStatus
  <2> QED
    BY <1>5, <2>1, <2>2, SuppressedLeadType
    DEF SuppressFromQueue, TypeOK, historyVars, recoveryVars, requestVars
<1>6. ASSUME NEW scope \in Campaigns \cup {None}, LoadApproveAll(scope)
      PROVE  TypeOK'
  <2> DEFINE selected == {r \in Recipients :
                            /\ recipient[r].status \in {"READY_FOR_REVIEW", "PENDING"}
                            /\ scope \in {None, CampaignOf(r)}}
  <2>1. {Loaded(r) : r \in selected} \in SUBSET Item
    BY LoadedType
  <2>2. [op |-> "APPROVE_ALL", campaign |-> scope,
         items |-> {Loaded(r) : r \in selected}, no |-> requests] \in Approval
    BY <2>1 DEF Approval, TypeOK
  <2> QED
    BY <1>6, <2>2 DEF LoadApproveAll, TypeOK, rowVars, historyVars, recoveryVars
<1> QED
  BY <1>1, <1>2, <1>3, <1>4, <1>5, <1>6 DEF ApprovalRequest

\* Requests about leads keep the types.
LEMMA LeadRequestType ==
    ASSUME TypeOK, BoundsKept, LeadRequest
    PROVE  TypeOK'
<1> USE DEF BoundsKept
<1>1. ASSUME NEW l \in Leads, AddSuppression(l)
      PROVE  TypeOK'
  BY <1>1, SuppressedLeadType
  DEF AddSuppression, TypeOK, historyVars, recoveryVars, requestVars
<1>2. ASSUME NEW l \in Leads, RemoveSuppression(l)
      PROVE  TypeOK'
  BY <1>2 DEF RemoveSuppression, TypeOK, historyVars, recoveryVars, requestVars
<1>3. ASSUME NEW l \in Leads, NEW stage \in StageInputs, UpdateLeadStage(l, stage)
      PROVE  TypeOK'
  <2>1. [lead[l] EXCEPT !.crm = stage] \in LeadRow
    BY InputsAreValues DEF TypeOK, LeadRow, CrmStatus
  <2> QED
    BY <1>3, <2>1 DEF UpdateLeadStage, TypeOK, historyVars, recoveryVars, requestVars
<1> QED
  BY <1>1, <1>2, <1>3 DEF LeadRequest

\* The calls that enqueue the drafting of some recipients are typed.
LEMMA GenerateCallsType ==
    ASSUME NEW by \in {"api", "worker"}, NEW R \in SUBSET Recipients,
           NEW f \in [R -> Tokens]
    PROVE  GenerateCalls(by, f) \subseteq Call
BY DEF GenerateCalls, GenerateId, Call, JobIds, Functions

\* The rest of a request keeps the types.
LEMMA ContinueRequestType ==
    ASSUME TypeOK, BoundsKept, ContinueRequest
    PROVE  TypeOK'
<1> USE DEF BoundsKept
<1>1. ASSUME NEW c \in Campaigns, SelectPending(c)
      PROVE  TypeOK'
  <2> DEFINE attached == IF RecipientsOf(c) = {}
                         THEN WithRecipients(c, {l \in Leads : Uncontacted(l)})
                         ELSE recipient
             pending == {r \in Recipients : /\ CampaignOf(r) = c
                                            /\ attached[r].status = "PENDING"}
             clean == {r \in pending : /\ ~lead[LeadOf(r)].contacted
                                       /\ lead[LeadOf(r)].crm = "IMPORTED"}
  <2>1. attached \in [Recipients -> RecipientRow]
    BY DEF TypeOK, WithRecipients, RecipientRow, RecipientStatus
  <2>2. recipient' = [r \in Recipients |->
                        IF r \in pending \ clean
                        THEN [attached[r] EXCEPT !.status = "SKIPPED"]
                        ELSE attached[r]]
    BY <1>1 DEF SelectPending
  <2> HIDE DEF attached
  <2>3. recipient' \in [Recipients -> RecipientRow]
    BY <2>1, <2>2 DEF RecipientRow, RecipientStatus
  <2>4. PICK f \in [clean -> Tokens] : outbox' = outbox \cup GenerateCalls("api", f)
    BY <1>1 DEF SelectPending, attached
  <2>5. outbox' \subseteq Call
    BY <2>4, GenerateCallsType, clean \in SUBSET Recipients DEF TypeOK
  <2> QED
    BY <1>1, <2>3, <2>5 DEF SelectPending, TypeOK, historyVars, recoveryVars
<1>2. ASSUME NEW c \in Campaigns, StaleTrigger(c)
      PROVE  TypeOK'
  BY <1>2 DEF StaleTrigger, TypeOK, rowVars, historyVars, recoveryVars
<1>3. ASSUME NEW q \in approvals, CommitApproval(q)
      PROVE  TypeOK'
  <2>1. q.items \subseteq Item
    BY DEF TypeOK, Approval
  <2>2. recipient' \in [Recipients -> RecipientRow]
    BY <1>3 DEF CommitApproval, TypeOK, RecipientRow, RecipientStatus
  <2>3. message' \in [Messages -> MessageRow]
    BY <1>3 DEF CommitApproval, TypeOK, MessageRow, MessageStatus
  <2>4. campaign' \in [Campaigns -> CampaignStatus]
    BY <1>3 DEF CommitApproval, TypeOK, CampaignStatus
  <2>5. PICK f \in [q.items -> {t \in Tokens : ticket[t] = None}] :
          /\ \A i, j \in q.items : f[i] = f[j] => i = j
          /\ ticket' = [t \in Tokens |->
                IF \E i \in q.items : f[i] = t
                THEN LET i == CHOOSE i \in q.items : f[i] = t
                     IN  [rec |-> i.rec, msg |-> i.msg]
                ELSE ticket[t]]
          /\ outbox' = outbox \cup SendCalls(q, f)
    BY <1>3 DEF CommitApproval
  <2>6. ticket' \in [Tokens -> Grant \cup {None}]
    BY <2>1, <2>5 DEF TypeOK, Grant, Item
  <2>7. SendCalls(q, f) \subseteq Call
    BY <2>1 DEF SendCalls, SendId, Call, JobIds, Functions, Item
  <2> QED
    BY <1>3, <2>2, <2>3, <2>4, <2>5, <2>6, <2>7
    DEF CommitApproval, TypeOK, recoveryVars
<1>4. ASSUME NEW q \in approvals, StaleApproval(q)
      PROVE  TypeOK'
  BY <1>4 DEF StaleApproval, TypeOK, rowVars, historyVars, recoveryVars
<1> QED
  BY <1>1, <1>2, <1>3, <1>4 DEF ContinueRequest

\* A recipient whose status is set stays a recipient row.
LEMMA RecipientSetToType ==
    ASSUME recipient \in [Recipients -> RecipientRow], NEW r \in Recipients,
           NEW status \in RecipientStatus
    PROVE  RecipientSetTo(r, status) \in [Recipients -> RecipientRow]
<1>1. [recipient[r] EXCEPT !.status = IF @ = "NONE" THEN @ ELSE status] \in RecipientRow
  BY DEF RecipientRow
<1> QED
  BY <1>1 DEF RecipientSetTo

\* A message whose status is written back stays a message row.
LEMMA FlushType ==
    ASSUME message \in [Messages -> MessageRow], NEW m \in Messages, NEW seen,
           NEW status \in MessageStatus
    PROVE  [message EXCEPT ![m].status = Flush(@, seen, status)]
              \in [Messages -> MessageRow]
<1>1. [message[m] EXCEPT !.status = Flush(@, seen, status)] \in MessageRow
  BY DEF MessageRow, Flush
<1> QED
  BY <1>1

\* A hand-off counts one mail more.
LEMMA HandOffType ==
    ASSUME TypeOK, NEW id \in JobIds, HandOff(id)
    PROVE  mails' \in [Tokens -> [Messages -> Nat]]
<1> DEFINE t == job[id].ticket
           m == job[id].msg
<1>1. mails \in [Tokens -> [Messages -> Nat]]
  BY DEF TypeOK
<1>2. mails' = [mails EXCEPT ![t][m] = @ + 1]
  BY DEF HandOff
<1> HIDE DEF t, m
<1>3. ASSUME t \in Tokens
      PROVE  [mails[t] EXCEPT ![m] = @ + 1] \in [Messages -> Nat]
  <2> DEFINE g == mails[t]
             n == g[m] + 1
  <2>1. g \in [Messages -> Nat]
    BY <1>1, <1>3
  <2>2. m \in Messages => n \in Nat
    BY <2>1
  <2> HIDE DEF g, n
  <2>3. [g EXCEPT ![m] = n] \in [Messages -> Nat]
    BY <2>1, <2>2
  <2> QED
    BY <2>3 DEF g, n
<1> QED
  BY <1>1, <1>2, <1>3

\* The steps of send_email keep the types.
LEMMA SendStepType ==
    ASSUME TypeOK, MailInvariant, BoundsKept, NEW id \in JobIds, SendStep(id)
    PROVE  TypeOK'
<1> USE DEF BoundsKept, historyVars, recoveryVars, requestVars
<1>1. job \in [JobIds -> JobRow] /\ id.rec \in Recipients
  BY DEF TypeOK, JobIds
<1>2. CASE GiveUp(id)
  BY <1>1, <1>2, FinishedType DEF GiveUp, TypeOK, rowVars
<1>3. CASE SendWithoutMessage(id)
  BY <1>1, <1>3, FinishedType DEF SendWithoutMessage, TypeOK, rowVars
<1>4. CASE RefuseSuppressed(id)
  <2>1. job[id].msg \in Messages
    BY <1>1, <1>4 DEF RefuseSuppressed, JobRow
  <2>2. [message[job[id].msg] EXCEPT !.status = "FAILED"] \in MessageRow
    BY <2>1 DEF TypeOK, MessageRow, MessageStatus
  <2>3. RecipientSetTo(id.rec, "SUPPRESSED") \in [Recipients -> RecipientRow]
    BY <1>1, RecipientSetToType DEF TypeOK, RecipientStatus
  <2> QED
    BY <1>1, <1>4, <2>2, <2>3, FinishedType DEF RefuseSuppressed, TypeOK
<1>5. CASE ClearForSending(id)
  <2>1. LiveSend(id)
    BY <1>5 DEF ClearForSending, CanStart, LiveSend, IsSend
  <2>2. message[job[id].msg].status \in MessageStatus \cup RecipientStatus
    BY <1>5, <2>1, SendingType DEF ClearForSending, TypeOK, MessageRow
  <2>3. lead[message[job[id].msg].lead].crm \in CrmStatus \cup {"NONE"}
    BY <1>5, <2>1, SendingType DEF ClearForSending, TypeOK, LeadRow
  <2>4. job' \in [JobIds -> JobRow]
    BY <1>1, <1>5, <2>2, <2>3, StartType
    DEF ClearForSending, CanStart, JobState, Running
  <2> QED
    BY <1>5, <2>4 DEF ClearForSending, TypeOK, rowVars
<1>6. CASE ProviderAccepts(id)
  <2>1. job' \in [JobIds -> JobRow]
    BY <1>1, <1>6, StateType DEF ProviderAccepts, JobState, Running
  <2> QED
    BY <1>6, <2>1, HandOffType DEF ProviderAccepts, TypeOK, rowVars
<1>7. CASE ProviderTimesOut(id)
  <2>1. job' \in [JobIds -> JobRow]
    BY <1>1, <1>7, StateType DEF ProviderTimesOut, JobState, Running
  <2>2. job[id].ticket \in Tokens
    BY <1>7, SendingType DEF ProviderTimesOut, MailInvariant, SendsAreGranted, LiveSend
  <2> QED
    BY <1>7, <2>1, <2>2, HandOffType DEF ProviderTimesOut, TypeOK, rowVars
<1>8. CASE ProviderRefuses(id)
  <2>1. job' \in [JobIds -> JobRow]
    BY <1>1, <1>8, StateType DEF ProviderRefuses, JobState, Running
  <2> QED
    BY <1>8, <2>1 DEF ProviderRefuses, TypeOK, rowVars
<1>9. CASE CommitSent(id)
  <2> DEFINE m == job[id].msg
             l == message[m].lead
  <2>1. LiveSend(id) /\ m # None
    BY <1>9 DEF CommitSent, MailInvariant, SendsAreGranted, LiveSend
  <2>2. m \in Messages /\ l \in Leads
    BY <2>1, SendingType
  <2>3. message' \in [Messages -> MessageRow]
    BY <1>9, <2>2, FlushType DEF CommitSent, TypeOK, MessageStatus
  <2>4. [lead[l] EXCEPT !.crm = Flush(@, job[id].seenCrm, "CONTACTED"),
                        !.contacted = TRUE] \in LeadRow
    <3>1. lead[l] \in LeadRow
      BY <2>2 DEF TypeOK
    <3> HIDE DEF l
    <3> QED
      BY <3>1 DEF LeadRow, Flush, CrmStatus
  <2>5. lead' \in [Leads -> LeadRow]
    BY <1>9, <2>4 DEF CommitSent, TypeOK
  <2>6. RecipientSetTo(id.rec, "SENT") \in [Recipients -> RecipientRow]
    BY <1>1, RecipientSetToType DEF TypeOK, RecipientStatus
  <2> QED
    BY <1>1, <1>9, <2>3, <2>5, <2>6, FinishedType DEF CommitSent, TypeOK
<1>10. CASE CommitFailed(id)
  <2>1. job[id].msg \in Messages
    BY <1>1, <1>10 DEF CommitFailed, MailInvariant, SendsAreGranted, JobRow
  <2>2. message' \in [Messages -> MessageRow]
    BY <1>10, <2>1, FlushType DEF CommitFailed, TypeOK, MessageStatus
  <2>3. RecipientSetTo(id.rec, "FAILED") \in [Recipients -> RecipientRow]
    BY <1>1, RecipientSetToType DEF TypeOK, RecipientStatus
  <2> QED
    BY <1>1, <1>10, <2>2, <2>3, FinishedType DEF CommitFailed, TypeOK
<1> QED
  BY <1>2, <1>3, <1>4, <1>5, <1>6, <1>7, <1>8, <1>9, <1>10 DEF SendStep

\* The steps of generate_outreach keep the types.
LEMMA DraftStepType ==
    ASSUME TypeOK, BoundsKept, NEW id \in JobIds, DraftStep(id)
    PROVE  TypeOK'
<1> USE DEF BoundsKept, historyVars, recoveryVars, requestVars
<1>1. job \in [JobIds -> JobRow] /\ id.rec \in Recipients
  BY DEF TypeOK, JobIds
<1>2. CASE StartDrafting(id)
  <2>1. recipient[id.rec].status \in MessageStatus \cup RecipientStatus
    BY <1>1 DEF TypeOK, RecipientRow
  <2>2. job' \in [JobIds -> JobRow]
    BY <1>1, <1>2, <2>1, StartType DEF StartDrafting, CanStart, JobState, Running
  <2> QED
    BY <1>2, <2>2 DEF StartDrafting, TypeOK, rowVars
<1>3. CASE RecipientGone(id)
  BY <1>1, <1>3, FinishedType DEF RecipientGone, TypeOK, rowVars
<1>4. ASSUME NEW m \in Messages, CommitDraft(id, m)
      PROVE  TypeOK'
  <2>1. [status |-> "DRAFT", lead |-> LeadOf(id.rec)] \in MessageRow
    BY <1>1 DEF MessageRow, MessageStatus, Recipients, LeadOf
  <2>2. [status |-> Flush(recipient[id.rec].status, job[id].seen, "READY_FOR_REVIEW"),
         msg |-> m] \in RecipientRow
    BY <1>1 DEF TypeOK, RecipientRow, RecipientStatus, Flush
  <2>3. job' \in [JobIds -> JobRow]
    BY <1>1, <1>4, StateType DEF CommitDraft, JobState, Running
  <2> QED
    BY <1>4, <2>1, <2>2, <2>3 DEF CommitDraft, TypeOK
<1>5. CASE CountPending(id)
  <2>1. job' \in [JobIds -> JobRow]
    BY <1>1, <1>5, StateType, FinishedType DEF CountPending, JobState, Running
  <2> QED
    BY <1>5, <2>1 DEF CountPending, TypeOK, rowVars
<1>6. CASE CommitReady(id)
  <2>1. campaign' \in [Campaigns -> CampaignStatus]
    BY <1>6 DEF CommitReady, TypeOK, CampaignStatus
  <2> QED
    BY <1>1, <1>6, <2>1, FinishedType DEF CommitReady, TypeOK
<1> QED
  BY <1>2, <1>3, <1>4, <1>5, <1>6 DEF DraftStep

\* The recovery at start-up keeps the types.
LEMMA RecoveryStepType ==
    ASSUME TypeOK, BoundsKept, RecoveryStep
    PROVE  TypeOK'
<1> USE DEF BoundsKept, historyVars, requestVars
<1>1. CASE SelectStuckCampaigns
  BY <1>1 DEF SelectStuckCampaigns, TypeOK, rowVars
<1>2. ASSUME NEW c \in Campaigns, RecoverCampaign(c)
      PROVE  TypeOK'
  <2> DEFINE valid == {l \in Leads : lead[l].valid}
             empty == RecipientsOf(c) = {}
             attached == IF empty THEN WithRecipients(c, valid) ELSE recipient
             pending == {r \in Recipients : /\ CampaignOf(r) = c
                                            /\ attached[r].status = "PENDING"}
  <2>1. attached \in [Recipients -> RecipientRow]
    BY DEF TypeOK, WithRecipients, RecipientRow, RecipientStatus
  <2>2. PICK f \in [pending -> Tokens] : outbox' = outbox \cup GenerateCalls("worker", f)
    BY <1>2 DEF RecoverCampaign
  <2>3. outbox' \subseteq Call
    BY <2>2, GenerateCallsType, pending \in SUBSET Recipients DEF TypeOK
  <2>4. campaign' \in [Campaigns -> CampaignStatus]
    BY <1>2 DEF RecoverCampaign, TypeOK, CampaignStatus
  <2> QED
    BY <1>2, <2>1, <2>3, <2>4 DEF RecoverCampaign, TypeOK
<1>3. CASE StaleRecovery
  BY <1>3 DEF StaleRecovery, TypeOK, rowVars
<1> QED
  BY <1>1, <1>2, <1>3 DEF RecoveryStep

\* Crashes and Redis errors keep the types.
LEMMA FaultType ==
    ASSUME TypeOK, MailInvariant, BoundsKept,
           ApiCrash \/ WorkerCrash \/ \E call \in outbox : EnqueueFails(call)
    PROVE  TypeOK'
<1> USE DEF BoundsKept, historyVars, requestVars, recoveryVars
<1>1. CASE ApiCrash
  BY <1>1 DEF ApiCrash, TypeOK, rowVars
<1>2. CASE WorkerCrash
  <2>1. ASSUME NEW id \in JobIds
        PROVE  [NoJob EXCEPT !.st = "queued", !.msg = job[id].msg,
                             !.ticket = job[id].ticket, !.try = job[id].try] \in JobRow
    <3>1. /\ job[id].msg \in Messages \cup {None}
          /\ job[id].ticket \in Tokens \cup {None}
          /\ job[id].try \in 0..MaxTries
      BY DEF TypeOK, JobRow
    <3> QED
      BY <3>1, QueuedType
  <2>2. job' \in [JobIds -> JobRow]
    BY <1>2, <2>1 DEF WorkerCrash, TypeOK
  <2>3. \A id \in JobIds : job[id].st = "accepted" => job[id].ticket \in Tokens
    BY SendingType DEF MailInvariant, SendsAreGranted, LiveSend
  <2>4. lost' \subseteq Tokens
    BY <1>2, <2>3 DEF WorkerCrash, TypeOK
  <2> QED
    BY <1>2, <2>2, <2>4 DEF WorkerCrash, TypeOK, rowVars
<1>3. ASSUME NEW call \in outbox, EnqueueFails(call)
      PROVE  TypeOK'
  BY <1>3 DEF EnqueueFails, TypeOK, rowVars
<1> QED
  BY <1>1, <1>2, <1>3

\* Every step keeps the types.
LEMMA TypeStep ==
    ASSUME TypeOK, MailInvariant, [Next]_vars
    PROVE  TypeOK'
<1>1. CASE UNCHANGED vars
  BY <1>1 DEF vars, systemVars, rowVars, requestVars, recoveryVars, historyVars, TypeOK
<1>2. CASE Request /\ UNCHANGED faults
  <2>1. BoundsKept
    BY <1>2, BoundsAreNumbers DEF BoundsKept, Request, TypeOK
  <2> QED
    BY <1>2, <2>1, CampaignRequestType, ApprovalRequestType, LeadRequestType DEF Request
<1>3. CASE Fault /\ UNCHANGED requests
  <2>1. BoundsKept
    BY <1>3, BoundsAreNumbers DEF BoundsKept, Fault, TypeOK
  <2> QED
    BY <1>3, <2>1, FaultType DEF Fault
<1>4. CASE SystemStep /\ UNCHANGED <<requests, faults>>
  <2>1. BoundsKept
    BY <1>4 DEF BoundsKept, TypeOK
  <2>2. ASSUME NEW call \in outbox, Enqueue(call)
        PROVE  TypeOK'
    <3>1. /\ call.msg \in Messages \cup {None}
          /\ call.ticket \in Tokens \cup {None}
      BY DEF TypeOK, Call
    <3>2. [NoJob EXCEPT !.st = "queued", !.msg = call.msg,
                        !.ticket = call.ticket] \in JobRow
      <4>1. 0 \in 0..MaxTries
        BY TriesArePositive
      <4> QED
        BY <3>1, <4>1, QueuedType
    <3>3. job' \in [JobIds -> JobRow]
      BY <2>2, <3>2 DEF Enqueue, TypeOK
    <3> QED
      BY <2>1, <2>2, <3>3 DEF Enqueue, TypeOK, BoundsKept, rowVars, requestVars,
                              recoveryVars, historyVars
  <2>3. ASSUME NEW id \in JobIds, ExpireResult(id)
        PROVE  TypeOK'
    <3>1. NoJob \in JobRow
      BY TriesArePositive DEF NoJob, JobRow, JobState, MessageStatus
    <3> QED
      BY <2>1, <2>3, <3>1 DEF ExpireResult, TypeOK, BoundsKept, rowVars, requestVars,
                              recoveryVars, historyVars
  <2> QED
    BY <1>4, <2>1, <2>2, <2>3, ContinueRequestType, SendStepType, DraftStepType,
       RecoveryStepType DEF SystemStep
<1> QED
  BY <1>1, <1>2, <1>3, <1>4 DEF Next

-----------------------------------------------------------------------------
(* Steps that neither approve, enqueue a send, mail nor restart a send *)

SendingStates == {"cleared", "accepted", "refused"}

\* The job of id goes on without a mail: it is left alone, it drafts, it ends,
\* it passes the check or the provider refuses it.
QuietJob(id) ==
    \/ job'[id] = job[id]
    \/ /\ job'[id].st \notin SendingStates
       /\ IsSend(id) => job'[id].st \in {"absent", "kept"}
    \/ /\ LiveSend(id)
       /\ job'[id].ticket = job[id].ticket
       /\ job'[id].msg = job[id].msg
       /\ job[id].msg # None
       /\ \/ /\ job[id].st = "queued"
             /\ job'[id].st = "cleared"
             /\ job'[id].try = job[id].try + 1
             /\ message[job[id].msg].lead \notin suppressed
          \/ /\ job[id].st = "cleared"
             /\ job'[id].st = "refused"
             /\ job'[id].try = job[id].try

QuietStep ==
    /\ UNCHANGED historyVars
    /\ \A call \in outbox' : IsSend(call.id) => call \in outbox
    /\ \A id \in JobIds : QuietJob(id)

\* After a quiet step a live send was live before, with the same ticket.
LEMMA QuietSend ==
    ASSUME QuietStep, NEW id \in JobIds, LiveSend(id)'
    PROVE  /\ LiveSend(id)
           /\ job'[id].ticket = job[id].ticket
           /\ job'[id].msg = job[id].msg
BY DEF QuietStep, QuietJob, LiveSend, SendingStates

\* A quiet step keeps everything MailInvariant says of tickets and mails.
LEMMA QuietMail ==
    ASSUME TypeOK, MailInvariant, QuietStep
    PROVE  /\ SendsAreGranted'
           /\ TicketsAreUsedOnce'
           /\ MailsAreGranted'
           /\ MailsFitTheJob'
           /\ OneMailPerApproval'
           /\ CopiesBoundedByTries'
<1>1. /\ ticket' = ticket
      /\ mails' = mails
      /\ lost' = lost
      /\ SendCallsLeft' \subseteq SendCallsLeft
  BY DEF QuietStep, historyVars, SendCallsLeft
<1>2. SendsAreGranted'
  <2>1. ASSUME NEW id \in JobIds
        PROVE  /\ job'[id].st \in SendingStates => IsSend(id) /\ job'[id].msg # None
               /\ job'[id].st \in {"drafting", "drafted", "settled"} => ~IsSend(id)
    <3>1. QuietJob(id)
      BY DEF QuietStep
    <3>2. /\ job[id].st \in SendingStates => IsSend(id) /\ job[id].msg # None
          /\ job[id].st \in {"drafting", "drafted", "settled"} => ~IsSend(id)
      BY DEF MailInvariant, SendsAreGranted, SendingStates
    <3> QED
      BY <3>1, <3>2 DEF QuietJob, LiveSend
  <2>2. ASSUME NEW id \in JobIds, LiveSend(id)'
        PROVE  Grants(job[id].ticket, id.rec, job[id].msg)'
    <3>1. Grants(job[id].ticket, id.rec, job[id].msg)
      BY <2>2, QuietSend DEF MailInvariant, SendsAreGranted
    <3> QED
      BY <1>1, <2>2, <3>1, QuietSend DEF Grants
  <2>3. ASSUME NEW call \in SendCallsLeft'
        PROVE  Grants(call.ticket, call.id.rec, call.msg)'
    BY <1>1 DEF MailInvariant, SendsAreGranted, Grants
  <2> QED
    BY <2>1, <2>2, <2>3 DEF SendsAreGranted, SendingStates
<1>3. TicketsAreUsedOnce'
  BY <1>1, QuietSend DEF MailInvariant, TicketsAreUsedOnce
<1>4. MailsAreGranted'
  BY <1>1 DEF MailInvariant, MailsAreGranted
<1>5. MailsFitTheJob'
  <2> SUFFICES ASSUME NEW id \in JobIds, NEW m \in Messages, LiveSend(id)'
               PROVE  /\ job'[id].st # "accepted" /\ job'[id].ticket \notin lost
                            => mails[job'[id].ticket][m] = 0
                      /\ mails[job'[id].ticket][m] <= job'[id].try
                      /\ job'[id].st = "cleared" => mails[job'[id].ticket][m] < job'[id].try
    BY <1>1 DEF MailsFitTheJob
  <2>1. /\ LiveSend(id)
        /\ job'[id].ticket = job[id].ticket
    BY QuietSend
  <2>2. /\ job[id].st # "accepted" /\ job[id].ticket \notin lost
              => mails[job[id].ticket][m] = 0
        /\ mails[job[id].ticket][m] <= job[id].try
        /\ job[id].st = "cleared" => mails[job[id].ticket][m] < job[id].try
    BY <2>1 DEF MailInvariant, MailsFitTheJob
  <2>3. mails[job[id].ticket][m] \in Nat /\ job[id].try \in Nat
    BY <2>1, SendingType DEF TypeOK, JobRow
  <2>4. \/ job'[id].st = job[id].st /\ job'[id].try = job[id].try
        \/ /\ job[id].st = "queued"
           /\ job'[id].st = "cleared"
           /\ job'[id].try = job[id].try + 1
        \/ /\ job[id].st = "cleared"
           /\ job'[id].st = "refused"
           /\ job'[id].try = job[id].try
    BY DEF QuietStep, QuietJob, LiveSend
  <2> HIDE DEF QuietStep, LiveSend
  <2> QED
    BY <2>1, <2>2, <2>3, <2>4
<1>6. OneMailPerApproval' /\ CopiesBoundedByTries'
  BY <1>1 DEF MailInvariant, OneMailPerApproval, CopiesBoundedByTries
<1> QED
  BY <1>2, <1>3, <1>4, <1>5, <1>6

\* Who a message belongs to does not change, and whatever comes to refer to a
\* message refers to one of its lead.
AddressedStep ==
    /\ \A m \in Messages :
          /\ message[m].lead # None => message'[m].lead = message[m].lead
          /\ message'[m].status = "NONE" <=> message'[m].lead = None
    /\ \A r \in Recipients :
          recipient'[r].msg # None =>
             \/ recipient'[r].msg = recipient[r].msg
             \/ message'[recipient'[r].msg].lead = LeadOf(r)
    /\ \A q \in approvals' :
          \/ q \in approvals
          \/ \A i \in q.items : i.msg # None => message'[i.msg].lead = LeadOf(i.rec)
    /\ \A t \in Tokens :
          ticket'[t] # None /\ ticket'[t].msg # None =>
             \/ ticket'[t] = ticket[t]
             \/ message'[ticket'[t].msg].lead = LeadOf(ticket'[t].rec)

\* Such a step keeps every message addressed.
LEMMA AddressedMail ==
    ASSUME TypeOK, MailInvariant, AddressedStep
    PROVE  MessagesAreAddressed'
<1>1. MessagesAreAddressed
  BY DEF MailInvariant
<1>2. ASSUME NEW m \in Messages, NEW l \in Leads, message[m].lead = l
      PROVE  message'[m].lead = l
  BY <1>2, NoneIsNoValue DEF AddressedStep
<1>3. ASSUME NEW r \in Recipients
      PROVE  LeadOf(r) \in Leads
  BY DEF Recipients, LeadOf
<1>4. ASSUME NEW r \in Recipients, recipient'[r].msg # None
      PROVE  message'[recipient'[r].msg].lead = LeadOf(r)
  BY <1>1, <1>2, <1>3, <1>4
  DEF AddressedStep, MessagesAreAddressed, TypeOK, RecipientRow
<1>5. ASSUME NEW q \in approvals', NEW i \in q.items, i.msg # None
      PROVE  message'[i.msg].lead = LeadOf(i.rec)
  <2>1. CASE q \in approvals
    <3>1. i.rec \in Recipients /\ i.msg \in Messages
      BY <1>5, <2>1 DEF TypeOK, Approval, Item
    <3> QED
      BY <1>1, <1>2, <1>3, <1>5, <2>1, <3>1 DEF MessagesAreAddressed
  <2>2. CASE q \notin approvals
    BY <1>5, <2>2 DEF AddressedStep
  <2> QED
    BY <2>1, <2>2
<1>6. ASSUME NEW t \in Tokens, ticket'[t] # None, ticket'[t].msg # None
      PROVE  message'[ticket'[t].msg].lead = LeadOf(ticket'[t].rec)
  <2>1. CASE ticket'[t] = ticket[t]
    <3>1. ticket[t].rec \in Recipients /\ ticket[t].msg \in Messages
      BY <1>6, <2>1 DEF TypeOK, Grant
    <3> QED
      BY <1>1, <1>2, <1>3, <1>6, <2>1, <3>1 DEF MessagesAreAddressed
  <2>2. CASE ticket'[t] # ticket[t]
    BY <1>6, <2>2 DEF AddressedStep
  <2> QED
    BY <2>1, <2>2
<1> QED
  BY <1>4, <1>5, <1>6 DEF AddressedStep, MessagesAreAddressed

\* A step is addressed if messages stay as they are and no reference is new.
LEMMA SameMessages ==
    ASSUME MailInvariant, message' = message, ticket' = ticket,
           approvals' \subseteq approvals,
           \A r \in Recipients : recipient'[r].msg \in {None, recipient[r].msg}
    PROVE  AddressedStep
BY DEF AddressedStep, MailInvariant, MessagesAreAddressed

\* The calls for drafting are no sends.
LEMMA GenerateIsNoSend ==
    ASSUME NEW by, NEW f, NEW call \in GenerateCalls(by, f)
    PROVE  ~IsSend(call.id)
BY DEF GenerateCalls, GenerateId, IsSend

\* Requests to the campaign service are quiet.
LEMMA CampaignRequestIsQuiet ==
    ASSUME TypeOK, MailInvariant, CampaignRequest
    PROVE  QuietStep /\ AddressedStep
<1> USE SameMessages DEF QuietStep, QuietJob, historyVars, requestVars
<1>1. ASSUME NEW c \in Campaigns, NEW S \in SUBSET Leads, CreateCampaign(c, S)
      PROVE  QuietStep /\ AddressedStep
  BY <1>1 DEF CreateCampaign, WithRecipients
<1>2. ASSUME NEW c \in Campaigns, NEW l \in Leads, AddToCampaign(c, l)
      PROVE  QuietStep /\ AddressedStep
  BY <1>2 DEF AddToCampaign, WithRecipients
<1>3. ASSUME NEW c \in Campaigns, NEW status \in StatusInputs,
             HandleStatusAction(c, status)
      PROVE  QuietStep /\ AddressedStep
  BY <1>3 DEF HandleStatusAction
<1>4. ASSUME NEW c \in Campaigns, DeleteCampaign(c)
      PROVE  QuietStep /\ AddressedStep
  BY <1>4 DEF DeleteCampaign
<1>5. ASSUME NEW c \in Campaigns, TriggerGeneration(c)
      PROVE  QuietStep /\ AddressedStep
  BY <1>5 DEF TriggerGeneration
<1> QED
  BY <1>1, <1>2, <1>3, <1>4, <1>5 DEF CampaignRequest

\* Requests to the approval service are quiet until they commit.
LEMMA ApprovalRequestIsQuiet ==
    ASSUME TypeOK, MailInvariant, ApprovalRequest
    PROVE  QuietStep /\ AddressedStep
<1> USE DEF QuietStep, QuietJob, historyVars, requestVars
<1>1. MessagesAreAddressed
  BY DEF MailInvariant
<1>2. ASSUME NEW r \in Recipients, NEW m \in Messages, EditDraft(r, m)
      PROVE  QuietStep /\ AddressedStep
  <2>1. LeadOf(r) # None
    BY NoneIsNoValue DEF Recipients, LeadOf
  <2>2. AddressedStep
    BY <1>1, <1>2, <2>1
    DEF EditDraft, Unused, AddressedStep, MessagesAreAddressed, TypeOK, MessageRow,
        RecipientRow
  <2> QED
    BY <1>2, <2>2 DEF EditDraft
<1>3. ASSUME NEW r \in Recipients, NEW i \in {Loaded(r)}, i.msg # None
      PROVE  message[i.msg].lead = LeadOf(i.rec)
  BY <1>1, <1>3 DEF Loaded, MessagesAreAddressed
<1>4. ASSUME NEW r \in Recipients, LoadApproval(r)
      PROVE  QuietStep /\ AddressedStep
  BY <1>1, <1>3, <1>4 DEF LoadApproval, AddressedStep, MessagesAreAddressed, rowVars
<1>5. ASSUME NEW r \in Recipients, Regenerate(r)
      PROVE  QuietStep /\ AddressedStep
  BY <1>5, SameMessages DEF Regenerate, GenerateId, IsSend, TypeOK, RecipientRow
<1>6. ASSUME NEW r \in Recipients, Skip(r)
      PROVE  QuietStep /\ AddressedStep
  BY <1>6, SameMessages DEF Skip, TypeOK, RecipientRow
<1>7. ASSUME NEW r \in Recipients, SuppressFromQueue(r)
      PROVE  QuietStep /\ AddressedStep
  BY <1>7, SameMessages DEF SuppressFromQueue, TypeOK, RecipientRow
<1>8. ASSUME NEW scope \in Campaigns \cup {None}, LoadApproveAll(scope)
      PROVE  QuietStep /\ AddressedStep
  <2>1. ASSUME NEW q \in approvals' \ approvals, NEW i \in q.items, i.msg # None
        PROVE  message[i.msg].lead = LeadOf(i.rec)
    <3>1. PICK r \in Recipients : i = Loaded(r)
      BY <1>8, <2>1 DEF LoadApproveAll
    <3> QED
      BY <1>3, <2>1, <3>1
  <2> QED
    BY <1>1, <1>8, <2>1 DEF LoadApproveAll, AddressedStep, MessagesAreAddressed, rowVars
<1> QED
  BY <1>2, <1>4, <1>5, <1>6, <1>7, <1>8 DEF ApprovalRequest

\* Requests about leads are quiet.
LEMMA LeadRequestIsQuiet ==
    ASSUME MailInvariant, LeadRequest
    PROVE  QuietStep /\ AddressedStep
BY SameMessages
DEF LeadRequest, AddSuppression, RemoveSuppression, UpdateLeadStage, QuietStep,
    QuietJob, historyVars, requestVars

\* The rest of trigger_ai_generation is quiet, and so is a failed approval.
LEMMA ContinueRequestIsQuiet ==
    ASSUME TypeOK, MailInvariant,
           \/ \E c \in Campaigns : SelectPending(c) \/ StaleTrigger(c)
           \/ \E q \in approvals : StaleApproval(q)
    PROVE  QuietStep /\ AddressedStep
<1> USE DEF QuietStep, QuietJob, historyVars
<1>1. ASSUME NEW c \in Campaigns, SelectPending(c)
      PROVE  QuietStep /\ AddressedStep
  <2> DEFINE attached == IF RecipientsOf(c) = {}
                         THEN WithRecipients(c, {l \in Leads : Uncontacted(l)})
                         ELSE recipient
             pending == {r \in Recipients : /\ CampaignOf(r) = c
                                            /\ attached[r].status = "PENDING"}
             clean == {r \in pending : /\ ~lead[LeadOf(r)].contacted
                                       /\ lead[LeadOf(r)].crm = "IMPORTED"}
  <2>1. \A call \in outbox' : IsSend(call.id) => call \in outbox
    <3>1. PICK f \in [clean -> Tokens] : outbox' = outbox \cup GenerateCalls("api", f)
      BY <1>1 DEF SelectPending
    <3> HIDE DEF clean
    <3> QED
      BY <3>1, GenerateIsNoSend
  <2>2. \A r \in Recipients : recipient'[r].msg \in {None, recipient[r].msg}
    <3>1. attached \in [Recipients -> RecipientRow]
      BY DEF TypeOK, WithRecipients, RecipientRow, RecipientStatus
    <3>2. \A r \in Recipients : attached[r].msg \in {None, recipient[r].msg}
      BY DEF WithRecipients
    <3>3. recipient' = [r \in Recipients |->
                          IF r \in pending \ clean
                          THEN [attached[r] EXCEPT !.status = "SKIPPED"]
                          ELSE attached[r]]
      BY <1>1 DEF SelectPending
    <3> HIDE DEF attached
    <3> QED
      BY <3>1, <3>2, <3>3 DEF RecipientRow
  <2> QED
    BY <1>1, <2>1, <2>2, SameMessages DEF SelectPending
<1>2. ASSUME NEW c \in Campaigns, StaleTrigger(c)
      PROVE  QuietStep /\ AddressedStep
  BY <1>2, SameMessages DEF StaleTrigger, rowVars
<1>3. ASSUME NEW q \in approvals, StaleApproval(q)
      PROVE  QuietStep /\ AddressedStep
  BY <1>3, SameMessages DEF StaleApproval, rowVars
<1> QED
  BY <1>1, <1>2, <1>3

\* A job that ends or drafts is quiet.
LEMMA FinishedIsQuiet ==
    ASSUME TypeOK, NEW id \in JobIds, job' = Finished(id)
    PROVE  \A other \in JobIds : QuietJob(other)
BY DEF Finished, NoJob, QuietJob, SendingStates, TypeOK

\* The steps of generate_outreach are quiet.
LEMMA DraftStepIsQuiet ==
    ASSUME TypeOK, MailInvariant, NEW id \in JobIds, DraftStep(id)
    PROVE  QuietStep /\ AddressedStep
<1> USE DEF QuietStep, historyVars, requestVars
<1>2. CASE StartDrafting(id)
  <2>1. \A other \in JobIds : QuietJob(other)
    BY <1>2 DEF StartDrafting, CanStart, QuietJob, IsSend, SendingStates, TypeOK, JobRow
  <2> QED
    BY <1>2, <2>1, SameMessages DEF StartDrafting, rowVars
<1>3. CASE RecipientGone(id)
  BY <1>3, FinishedIsQuiet, SameMessages DEF RecipientGone, rowVars
<1>4. ASSUME NEW m \in Messages, CommitDraft(id, m)
      PROVE  QuietStep /\ AddressedStep
  <2>1. ~IsSend(id)
    BY <1>4 DEF CommitDraft, MailInvariant, SendsAreGranted
  <2>2. \A other \in JobIds : QuietJob(other)
    BY <1>4, <2>1 DEF CommitDraft, QuietJob, SendingStates, TypeOK, JobRow
  <2>3. LeadOf(id.rec) # None
    BY NoneIsNoValue DEF JobIds, Recipients, LeadOf
  <2>4. AddressedStep
    BY <1>4, <2>3
    DEF CommitDraft, Unused, AddressedStep, MailInvariant, MessagesAreAddressed,
        TypeOK, MessageRow, RecipientRow
  <2> QED
    BY <1>4, <2>2, <2>4 DEF CommitDraft
<1>5. CASE CountPending(id)
  <2>1. ~IsSend(id)
    BY <1>5 DEF CountPending, MailInvariant, SendsAreGranted
  <2>2. job' = [job EXCEPT ![id].st = "settled"] => \A other \in JobIds : QuietJob(other)
    BY <2>1 DEF QuietJob, SendingStates, TypeOK, JobRow
  <2> QED
    BY <1>5, <2>2, FinishedIsQuiet, SameMessages DEF CountPending, rowVars
<1>6. CASE CommitReady(id)
  BY <1>6, FinishedIsQuiet, SameMessages DEF CommitReady
<1> QED
  BY <1>2, <1>3, <1>4, <1>5, <1>6 DEF DraftStep

\* The steps of send_email that mail nothing are quiet.
LEMMA SendStepIsQuiet ==
    ASSUME TypeOK, MailInvariant, NEW id \in JobIds, SendStep(id),
           ~ProviderAccepts(id), ~ProviderTimesOut(id)
    PROVE  QuietStep /\ AddressedStep
<1> USE DEF QuietStep, historyVars, requestVars
<1>1. LiveSend(id) /\ job[id].msg # None =>
         /\ job[id].msg \in Messages
         /\ message[job[id].msg].lead # None
         /\ message[job[id].msg].status # "NONE"
  BY SendingType, NoneIsNoValue
<1>2. ASSUME NEW status \in RecipientStatus, NEW r \in Recipients
      PROVE  RecipientSetTo(id.rec, status)[r].msg = recipient[r].msg
  BY DEF RecipientSetTo, TypeOK, RecipientRow
<1>3. ASSUME NEW m \in Messages, NEW seen, NEW status \in MessageStatus \ {"NONE"},
             message[m].status # "NONE",
             message' = [message EXCEPT ![m].status = Flush(@, seen, status)],
             \A r \in Recipients : recipient'[r].msg = recipient[r].msg,
             UNCHANGED <<ticket, approvals>>
      PROVE  AddressedStep
  BY <1>3 DEF AddressedStep, MailInvariant, MessagesAreAddressed, Flush, TypeOK, MessageRow
<1>4. CASE GiveUp(id)
  BY <1>4, FinishedIsQuiet, SameMessages DEF GiveUp, rowVars
<1>5. CASE SendWithoutMessage(id)
  BY <1>5, FinishedIsQuiet, SameMessages DEF SendWithoutMessage, rowVars
<1>6. CASE RefuseSuppressed(id)
  <2>1. job[id].msg \in Messages /\ message[job[id].msg].status # "NONE"
    BY <1>1, <1>6 DEF RefuseSuppressed, CanStart, LiveSend, IsSend
  <2>2. \A r \in Recipients : recipient'[r].msg = recipient[r].msg
    BY <1>2, <1>6 DEF RefuseSuppressed, RecipientStatus
  <2>3. AddressedStep
    BY <1>6, <2>1, <2>2
    DEF RefuseSuppressed, AddressedStep, MailInvariant, MessagesAreAddressed, TypeOK,
        MessageRow
  <2> QED
    BY <1>6, <2>3, FinishedIsQuiet DEF RefuseSuppressed
<1>7. CASE ClearForSending(id)
  <2>1. \A other \in JobIds : QuietJob(other)
    BY <1>7 DEF ClearForSending, CanStart, QuietJob, LiveSend, IsSend, TypeOK, JobRow
  <2> QED
    BY <1>7, <2>1, SameMessages DEF ClearForSending, rowVars
<1>8. CASE ProviderRefuses(id)
  <2>1. LiveSend(id) /\ job[id].msg # None
    BY <1>8 DEF ProviderRefuses, LiveSend, MailInvariant, SendsAreGranted
  <2>2. \A other \in JobIds : QuietJob(other)
    BY <1>8, <2>1 DEF ProviderRefuses, QuietJob, TypeOK, JobRow
  <2> QED
    BY <1>8, <2>2, SameMessages DEF ProviderRefuses, rowVars
<1>9. CASE CommitSent(id)
  <2>1. job[id].msg \in Messages /\ message[job[id].msg].status # "NONE"
    BY <1>1, <1>9 DEF CommitSent, LiveSend, MailInvariant, SendsAreGranted
  <2>2. \A r \in Recipients : recipient'[r].msg = recipient[r].msg
    BY <1>2, <1>9 DEF CommitSent, RecipientStatus
  <2>3. AddressedStep
    <3>1. /\ message' = [message EXCEPT ![job[id].msg].status =
                                       Flush(@, job[id].seen, "SENT")]
          /\ UNCHANGED <<ticket, approvals>>
      BY <1>9 DEF CommitSent
    <3>2. "SENT" \in MessageStatus \ {"NONE"}
      BY DEF MessageStatus
    <3> QED
      BY <1>3, <2>1, <2>2, <3>1, <3>2
  <2> QED
    BY <1>9, <2>3, FinishedIsQuiet DEF CommitSent
<1>10. CASE CommitFailed(id)
  <2>1. job[id].msg \in Messages /\ message[job[id].msg].status # "NONE"
    BY <1>1, <1>10 DEF CommitFailed, LiveSend, MailInvariant, SendsAreGranted
  <2>2. \A r \in Recipients : recipient'[r].msg = recipient[r].msg
    BY <1>2, <1>10 DEF CommitFailed, RecipientStatus
  <2>3. AddressedStep
    <3>1. /\ message' = [message EXCEPT ![job[id].msg].status =
                                       Flush(@, job[id].seen, "FAILED")]
          /\ UNCHANGED <<ticket, approvals>>
      BY <1>10 DEF CommitFailed
    <3>2. "FAILED" \in MessageStatus \ {"NONE"}
      BY DEF MessageStatus
    <3> QED
      BY <1>3, <2>1, <2>2, <3>1, <3>2
  <2> QED
    BY <1>10, <2>3, FinishedIsQuiet DEF CommitFailed
<1> QED
  BY <1>4, <1>5, <1>6, <1>7, <1>8, <1>9, <1>10 DEF SendStep

\* The recovery at start-up, a crash of the API, a Redis error and the end of a
\* kept result are quiet.
LEMMA OtherStepIsQuiet ==
    ASSUME TypeOK, MailInvariant,
           \/ RecoveryStep
           \/ ApiCrash
           \/ \E call \in outbox : EnqueueFails(call)
           \/ \E id \in JobIds : ExpireResult(id)
    PROVE  QuietStep /\ AddressedStep
<1> USE DEF QuietStep, historyVars, requestVars
<1>1. CASE SelectStuckCampaigns
  BY <1>1, SameMessages DEF SelectStuckCampaigns, rowVars, QuietJob
<1>2. ASSUME NEW c \in Campaigns, RecoverCampaign(c)
      PROVE  QuietStep /\ AddressedStep
  <2> DEFINE attached == IF RecipientsOf(c) = {}
                         THEN WithRecipients(c, {l \in Leads : lead[l].valid})
                         ELSE recipient
             pending == {r \in Recipients : /\ CampaignOf(r) = c
                                            /\ attached[r].status = "PENDING"}
  <2>1. PICK f \in [pending -> Tokens] : outbox' = outbox \cup GenerateCalls("worker", f)
    BY <1>2 DEF RecoverCampaign
  <2>2. \A r \in Recipients : recipient'[r].msg \in {None, recipient[r].msg}
    BY <1>2 DEF RecoverCampaign, WithRecipients
  <2>3. AddressedStep
    BY <1>2, <2>2, SameMessages DEF RecoverCampaign
  <2> HIDE DEF pending
  <2> QED
    BY <1>2, <2>1, <2>3, GenerateIsNoSend DEF RecoverCampaign, QuietJob
<1>3. CASE StaleRecovery
  BY <1>3, SameMessages DEF StaleRecovery, rowVars, QuietJob
<1>4. CASE ApiCrash
  BY <1>4, SameMessages DEF ApiCrash, rowVars, QuietJob
<1>5. ASSUME NEW call \in outbox, EnqueueFails(call)
      PROVE  QuietStep /\ AddressedStep
  BY <1>5, SameMessages DEF EnqueueFails, rowVars, QuietJob
<1>6. ASSUME NEW id \in JobIds, ExpireResult(id)
      PROVE  QuietStep /\ AddressedStep
  <2>1. \A other \in JobIds : QuietJob(other)
    BY <1>6 DEF ExpireResult, QuietJob, NoJob, SendingStates, TypeOK
  <2> QED
    BY <1>6, <2>1, SameMessages DEF ExpireResult, rowVars
<1> QED
  BY <1>1, <1>2, <1>3, <1>4, <1>5, <1>6 DEF RecoveryStep

-----------------------------------------------------------------------------
(* Steps that approve, enqueue, mail or restart a send *)

\* The commit of an approval gives each of its sends a ticket of its own.
LEMMA CommitApprovalStep ==
    ASSUME TypeOK, MailInvariant, NEW q \in approvals, CommitApproval(q)
    PROVE  MailInvariant'
<1>1. q.items \subseteq Item
  BY DEF TypeOK, Approval
<1>2. PICK f \in [q.items -> {t \in Tokens : ticket[t] = None}] :
        /\ \A i, j \in q.items : f[i] = f[j] => i = j
        /\ ticket' = [t \in Tokens |->
              IF \E i \in q.items : f[i] = t
              THEN LET i == CHOOSE i \in q.items : f[i] = t
                   IN  [rec |-> i.rec, msg |-> i.msg]
              ELSE ticket[t]]
        /\ outbox' = outbox \cup SendCalls(q, f)
  BY DEF CommitApproval
<1>3. /\ UNCHANGED <<job, mails, lost>>
      /\ approvals' = approvals \ {q}
  BY DEF CommitApproval
<1>4. ASSUME NEW i \in q.items
      PROVE  /\ f[i] \in Tokens
             /\ ticket[f[i]] = None
             /\ ticket'[f[i]] = [rec |-> i.rec, msg |-> i.msg]
  BY <1>2
<1>5. ASSUME NEW t \in Tokens, \A i \in q.items : f[i] # t
      PROVE  ticket'[t] = ticket[t]
  BY <1>2, <1>5
<1>6. ASSUME NEW t \in Tokens, ticket[t] # None
      PROVE  ticket'[t] = ticket[t]
  BY <1>4, <1>5, <1>6
<1>7. ASSUME NEW t, NEW r, NEW m, Grants(t, r, m)
      PROVE  Grants(t, r, m)'
  BY <1>6, <1>7 DEF Grants
<1>8. ASSUME NEW call \in SendCallsLeft'
      PROVE  \/ call \in SendCallsLeft
             \/ \E i \in q.items : /\ call.ticket = f[i]
                                   /\ call = [by |-> "api",
                                              id |-> SendId(i.rec,
                                                        IF q.op = "APPROVE" THEN None ELSE f[i]),
                                              msg |-> i.msg, ticket |-> f[i]]
                                   /\ call.id.rec = i.rec
                                   /\ call.msg = i.msg
  BY <1>2 DEF SendCallsLeft, SendCalls, SendId
<1>9. SendsAreGranted'
  <2>1. ASSUME NEW call \in SendCallsLeft'
        PROVE  Grants(call.ticket, call.id.rec, call.msg)'
    <3>1. CASE call \in SendCallsLeft
      BY <1>7, <3>1 DEF MailInvariant, SendsAreGranted
    <3>2. CASE call \notin SendCallsLeft
      <4>1. PICK i \in q.items : /\ call.ticket = f[i]
                                 /\ call.id.rec = i.rec
                                 /\ call.msg = i.msg
        BY <1>8, <3>2
      <4>2. [rec |-> i.rec, msg |-> i.msg] \in Grant
        BY <1>1 DEF Grant, Item
      <4> QED
        BY <1>4, <4>1, <4>2, NoneIsNoGrant DEF Grants
    <3> QED
      BY <3>1, <3>2
  <2>2. ASSUME NEW id \in JobIds, LiveSend(id)
        PROVE  Grants(job[id].ticket, id.rec, job[id].msg)'
    BY <1>3, <1>7, <2>2 DEF MailInvariant, SendsAreGranted
  <2> QED
    BY <1>3, <2>1, <2>2 DEF MailInvariant, SendsAreGranted, LiveSend
<1>10. TicketsAreUsedOnce'
  <2>1. ASSUME NEW call \in SendCallsLeft, NEW i \in q.items
        PROVE  call.ticket # f[i]
    BY <1>4 DEF MailInvariant, SendsAreGranted, Grants
  <2>2. ASSUME NEW id \in JobIds, LiveSend(id), NEW i \in q.items
        PROVE  job[id].ticket # f[i]
    BY <1>4, <2>2 DEF MailInvariant, SendsAreGranted, Grants
  <2>3. ASSUME NEW call \in SendCallsLeft', NEW other \in SendCallsLeft',
               call.ticket = other.ticket
        PROVE  call = other
    <3>1. CASE call \in SendCallsLeft /\ other \in SendCallsLeft
      BY <2>3, <3>1 DEF MailInvariant, TicketsAreUsedOnce
    <3>2. CASE call \notin SendCallsLeft /\ other \notin SendCallsLeft
      BY <1>2, <1>8, <2>3, <3>2
    <3>3. CASE call \in SendCallsLeft <=> other \notin SendCallsLeft
      BY <1>8, <2>1, <2>3, <3>3
    <3> QED
      BY <3>1, <3>2, <3>3
  <2>4. ASSUME NEW call \in SendCallsLeft', NEW id \in JobIds, LiveSend(id)
        PROVE  job[id].ticket # call.ticket
    BY <1>8, <2>2, <2>4 DEF MailInvariant, TicketsAreUsedOnce
  <2> QED
    BY <1>3, <2>3, <2>4 DEF MailInvariant, TicketsAreUsedOnce, LiveSend
<1>11. MailsAreGranted'
  <2>1. ASSUME NEW i \in q.items
        PROVE  /\ f[i] \notin lost
               /\ \A m \in Messages : mails[f[i]][m] = 0
    <3>1. \A m \in Messages : mails[f[i]][m] \in Nat
      BY <1>4 DEF TypeOK
    <3> QED
      BY <1>4, <3>1 DEF MailInvariant, MailsAreGranted
  <2>2. ASSUME NEW call \in SendCallsLeft'
        PROVE  /\ call.ticket \notin lost
               /\ \A m \in Messages : mails[call.ticket][m] = 0
    BY <1>8, <2>1 DEF MailInvariant, MailsAreGranted
  <2>3. \A t \in lost : t \in Tokens
    BY DEF TypeOK
  <2> QED
    BY <1>3, <1>6, <2>2, <2>3 DEF MailInvariant, MailsAreGranted
<1>12. MailsFitTheJob' /\ OneMailPerApproval' /\ CopiesBoundedByTries'
  BY <1>3 DEF MailInvariant, MailsFitTheJob, LiveSend, OneMailPerApproval,
              CopiesBoundedByTries
<1>13. AddressedStep
  <2>1. ASSUME NEW i \in q.items, i.msg # None
        PROVE  /\ i.msg \in Messages
               /\ message[i.msg].lead = LeadOf(i.rec)
               /\ message[i.msg].status # "NONE"
    <3>1. i.msg \in Messages /\ i.rec \in Recipients
      BY <1>1, <2>1 DEF Item
    <3>2. LeadOf(i.rec) # None
      BY <3>1, NoneIsNoValue DEF Recipients, LeadOf
    <3> QED
      BY <2>1, <3>1, <3>2 DEF MailInvariant, MessagesAreAddressed
  <2>2. ASSUME NEW m \in Messages
        PROVE  /\ message'[m].lead = message[m].lead
               /\ message'[m].status = "NONE" <=> message[m].status = "NONE"
    <3>1. CASE \E i \in q.items : i.msg = m
      BY <2>1, <3>1, NoneIsNoValue DEF CommitApproval, TypeOK, MessageRow
    <3>2. CASE \A i \in q.items : i.msg # m
      BY <3>2 DEF CommitApproval
    <3> QED
      BY <3>1, <3>2
  <2>3. \A r \in Recipients : recipient'[r].msg = recipient[r].msg
    BY DEF CommitApproval, TypeOK, RecipientRow
  <2>4. ASSUME NEW t \in Tokens, ticket'[t] # ticket[t], ticket'[t].msg # None
        PROVE  message'[ticket'[t].msg].lead = LeadOf(ticket'[t].rec)
    <3>1. PICK i \in q.items : f[i] = t
      BY <1>5, <2>4
    <3>2. ticket'[t] = [rec |-> i.rec, msg |-> i.msg]
      BY <1>4, <3>1
    <3> QED
      BY <2>1, <2>2, <2>4, <3>2
  <2> QED
    BY <1>3, <2>2, <2>3, <2>4 DEF AddressedStep, MailInvariant, MessagesAreAddressed
<1> QED
  BY <1>9, <1>10, <1>11, <1>12, <1>13, AddressedMail DEF MailInvariant

\* enqueue_job hands the ticket of a call to the job, or drops the call.
LEMMA EnqueueStep ==
    ASSUME TypeOK, MailInvariant, NEW call \in outbox, Enqueue(call)
    PROVE  MailInvariant'
<1>1. /\ UNCHANGED <<ticket, mails, lost>>
      /\ SendCallsLeft' = SendCallsLeft \ {call}
      /\ call.id \in JobIds
  BY DEF Enqueue, historyVars, SendCallsLeft, TypeOK, Call
<1>2. ASSUME NEW id \in JobIds
      PROVE  \/ job'[id] = job[id]
             \/ /\ id = call.id
                /\ job'[id].st = "queued"
                /\ job'[id].msg = call.msg
                /\ job'[id].ticket = call.ticket
                /\ job'[id].try = 0
  BY <1>1 DEF Enqueue, NoJob, TypeOK
<1>3. ASSUME NEW id \in JobIds, LiveSend(id)', ~LiveSend(id)
      PROVE  /\ id = call.id
             /\ call \in SendCallsLeft
             /\ job'[id].st = "queued"
             /\ job'[id].msg = call.msg
             /\ job'[id].ticket = call.ticket
             /\ job'[id].try = 0
  BY <1>2, <1>3 DEF LiveSend, SendCallsLeft
<1>4. ASSUME NEW id \in JobIds, LiveSend(id)
      PROVE  job'[id] = job[id]
  BY <1>4 DEF Enqueue, LiveSend, TypeOK
<1>5. SendsAreGranted'
  <2>1. ASSUME NEW id \in JobIds, LiveSend(id)'
        PROVE  Grants(job[id].ticket, id.rec, job[id].msg)'
    BY <1>1, <1>3, <1>4, <2>1 DEF MailInvariant, SendsAreGranted, Grants
  <2>2. ASSUME NEW id \in JobIds
        PROVE  /\ job'[id].st \in {"cleared", "accepted", "refused"} =>
                     IsSend(id) /\ job'[id].msg # None
               /\ job'[id].st \in {"drafting", "drafted", "settled"} => ~IsSend(id)
    BY <1>2 DEF MailInvariant, SendsAreGranted
  <2> QED
    BY <1>1, <2>1, <2>2 DEF MailInvariant, SendsAreGranted, Grants
<1>6. TicketsAreUsedOnce'
  <2>1. ASSUME NEW id \in JobIds, NEW other \in JobIds, LiveSend(id)', LiveSend(other)',
               job'[id].ticket = job'[other].ticket
        PROVE  id = other
    BY <1>3, <1>4, <2>1 DEF MailInvariant, TicketsAreUsedOnce
  <2>2. ASSUME NEW c \in SendCallsLeft', NEW id \in JobIds, LiveSend(id)'
        PROVE  job'[id].ticket # c.ticket
    BY <1>1, <1>3, <1>4, <2>2 DEF MailInvariant, TicketsAreUsedOnce
  <2> QED
    BY <1>1, <2>1, <2>2 DEF MailInvariant, TicketsAreUsedOnce
<1>7. MailsAreGranted'
  BY <1>1 DEF MailInvariant, MailsAreGranted
<1>8. MailsFitTheJob'
  <2>1. ASSUME NEW id \in JobIds, NEW m \in Messages, LiveSend(id)', ~LiveSend(id)
        PROVE  /\ mails[job'[id].ticket][m] = 0
               /\ job'[id].st = "queued"
               /\ job'[id].try = 0
    BY <1>3, <2>1 DEF MailInvariant, MailsAreGranted
  <2>2. ASSUME NEW id \in JobIds, NEW m \in Messages, LiveSend(id)
        PROVE  /\ job'[id].st # "accepted" /\ job'[id].ticket \notin lost
                     => mails[job'[id].ticket][m] = 0
               /\ mails[job'[id].ticket][m] <= job'[id].try
               /\ job'[id].st = "cleared" => mails[job'[id].ticket][m] < job'[id].try
    BY <1>4, <2>2 DEF MailInvariant, MailsFitTheJob
  <2>3. 0 <= 0
    OBVIOUS
  <2> QED
    BY <1>1, <2>1, <2>2, <2>3 DEF MailsFitTheJob
<1>9. OneMailPerApproval' /\ CopiesBoundedByTries'
  BY <1>1 DEF MailInvariant, OneMailPerApproval, CopiesBoundedByTries
<1>10. AddressedStep
  BY SameMessages DEF Enqueue, rowVars, historyVars, requestVars
<1> QED
  BY <1>5, <1>6, <1>7, <1>8, <1>9, <1>10, AddressedMail DEF MailInvariant

\* The provider gets a message for a ticket that had none, or has lost one.
LEMMA HandOffStep ==
    ASSUME TypeOK, MailInvariant, NEW id \in JobIds,
           ProviderAccepts(id) \/ ProviderTimesOut(id)
    PROVE  MailInvariant'
<1> DEFINE t == job[id].ticket
           m == job[id].msg
<1>1. /\ job[id].st = "cleared"
      /\ mails' = [mails EXCEPT ![t][m] = @ + 1]
      /\ UNCHANGED <<ticket, outbox, message, recipient, approvals>>
  BY DEF ProviderAccepts, ProviderTimesOut, HandOff, rowVars, requestVars
<1>2. /\ LiveSend(id)
      /\ t \in Tokens
      /\ m \in Messages
      /\ Grants(t, id.rec, m)
  BY <1>1, SendingType DEF LiveSend, MailInvariant, SendsAreGranted
<1>3. \/ job' = [job EXCEPT ![id].st = "accepted"] /\ lost' = lost
      \/ job' = [job EXCEPT ![id].st = "refused"] /\ lost' = lost \cup {t}
  BY DEF ProviderAccepts, ProviderTimesOut
<1>4. ASSUME NEW other \in JobIds
      PROVE  /\ job'[other].ticket = job[other].ticket
             /\ job'[other].msg = job[other].msg
             /\ job'[other].try = job[other].try
             /\ other # id => job'[other].st = job[other].st
             /\ LiveSend(other)' <=> LiveSend(other)
  BY <1>2, <1>3 DEF TypeOK, JobRow, LiveSend
<1>5. \/ job'[id].st = "accepted" /\ lost' = lost
      \/ job'[id].st = "refused" /\ lost' = lost \cup {t}
  BY <1>3 DEF TypeOK, JobRow
<1>6. /\ mails[t][m] \in Nat
      /\ mails'[t][m] = mails[t][m] + 1
      /\ \A u \in Tokens, n \in Messages :
            u # t \/ n # m => mails'[u][n] = mails[u][n]
      /\ \A u \in Tokens, n \in Messages : mails[u][n] \in Nat
  BY <1>1, <1>2 DEF TypeOK
<1>7. /\ job[id].try \in Nat
      /\ job[id].try <= MaxTries
      /\ mails[t][m] < job[id].try
      /\ t \notin lost => mails[t][m] = 0
  <2>1. job[id].try \in 0..MaxTries
    BY DEF TypeOK, JobRow
  <2> QED
    BY <1>1, <1>2, <2>1, TriesArePositive DEF MailInvariant, MailsFitTheJob
<1> HIDE DEF t, m
<1>8. SendsAreGranted'
  <2>1. job'[id].st \in {"cleared", "accepted", "refused"} => IsSend(id) /\ job'[id].msg # None
    BY <1>1, <1>4 DEF MailInvariant, SendsAreGranted
  <2>2. ASSUME NEW other \in JobIds
        PROVE  /\ job'[other].st \in {"cleared", "accepted", "refused"} =>
                     IsSend(other) /\ job'[other].msg # None
               /\ job'[other].st \in {"drafting", "drafted", "settled"} => ~IsSend(other)
    BY <1>4, <1>5, <2>1 DEF MailInvariant, SendsAreGranted
  <2>3. ASSUME NEW other \in JobIds, LiveSend(other)'
        PROVE  Grants(job[other].ticket, other.rec, job[other].msg)'
    BY <1>1, <1>4, <2>3 DEF MailInvariant, SendsAreGranted, Grants
  <2> QED
    BY <1>1, <2>2, <2>3 DEF MailInvariant, SendsAreGranted, SendCallsLeft, Grants
<1>9. TicketsAreUsedOnce'
  BY <1>1, <1>4 DEF MailInvariant, TicketsAreUsedOnce, SendCallsLeft
<1>10. MailsAreGranted'
  <2>1. ASSUME NEW call \in SendCallsLeft
        PROVE  call.ticket # t /\ call.ticket \in Tokens
    BY <1>2, <2>1 DEF MailInvariant, TicketsAreUsedOnce, SendsAreGranted, Grants, t
  <2>2. ASSUME NEW call \in SendCallsLeft
        PROVE  call.ticket \notin lost' /\ \A n \in Messages : mails'[call.ticket][n] = 0
    BY <1>5, <1>6, <2>1 DEF MailInvariant, MailsAreGranted
  <2>3. ASSUME NEW u \in Tokens, NEW n \in Messages, mails'[u][n] > 0
        PROVE  ticket[u] # None /\ ticket[u].msg = n
    BY <1>2, <1>6, <2>3 DEF MailInvariant, MailsAreGranted, Grants
  <2>4. \A u \in lost' : ticket[u] # None
    BY <1>2, <1>5 DEF MailInvariant, MailsAreGranted, Grants
  <2> QED
    BY <1>1, <2>2, <2>3, <2>4 DEF MailsAreGranted, SendCallsLeft
<1>11. MailsFitTheJob'
  <2> SUFFICES ASSUME NEW other \in JobIds, NEW n \in Messages, LiveSend(other)'
               PROVE  /\ job'[other].st # "accepted" /\ job'[other].ticket \notin lost'
                            => mails'[job'[other].ticket][n] = 0
                      /\ mails'[job'[other].ticket][n] <= job'[other].try
                      /\ job'[other].st = "cleared" =>
                            mails'[job'[other].ticket][n] < job'[other].try
    BY DEF MailsFitTheJob
  <2>1. LiveSend(other) /\ job[other].ticket \in Tokens
    BY <1>4, SendingType
  <2>2. /\ job[other].st # "accepted" /\ job[other].ticket \notin lost
              => mails[job[other].ticket][n] = 0
        /\ mails[job[other].ticket][n] <= job[other].try
        /\ job[other].st = "cleared" => mails[job[other].ticket][n] < job[other].try
    BY <2>1 DEF MailInvariant, MailsFitTheJob
  <2>3. CASE other # id
    <3>1. job[other].ticket # t
      BY <1>2, <2>1, <2>3 DEF MailInvariant, TicketsAreUsedOnce, t
    <3>2. mails'[job[other].ticket][n] = mails[job[other].ticket][n]
      BY <1>6, <2>1, <3>1
    <3> QED
      BY <1>4, <1>5, <2>2, <2>3, <3>1, <3>2
  <2>4. CASE other = id
    <3>1. job'[id].ticket = t /\ job'[id].try = job[id].try
      BY <1>4 DEF t
    <3>2. mails'[t][n] <= job[id].try
      <4>1. CASE n = m
        BY <1>6, <1>7, <4>1
      <4>2. CASE n # m
        BY <1>2, <1>6, <2>2, <2>4, <4>2 DEF t
      <4> QED
        BY <4>1, <4>2
    <3> QED
      BY <1>5, <2>4, <3>1, <3>2
  <2> QED
    BY <2>3, <2>4
<1>12. OneMailPerApproval' /\ CopiesBoundedByTries'
  <2>1. ASSUME NEW u \in Tokens, NEW n \in Messages
        PROVE  /\ mails'[u][n] > 1 => u \in lost'
               /\ mails'[u][n] <= MaxTries
    <3>1. CASE u = t /\ n = m
      BY <1>5, <1>6, <1>7, <3>1, TriesArePositive
    <3>2. CASE u # t \/ n # m
      BY <1>5, <1>6, <3>2 DEF MailInvariant, OneMailPerApproval, CopiesBoundedByTries
    <3> QED
      BY <3>1, <3>2
  <2> QED
    BY <2>1 DEF OneMailPerApproval, CopiesBoundedByTries
<1>13. AddressedStep
  BY <1>1, SameMessages
<1> QED
  BY <1>8, <1>9, <1>10, <1>11, <1>12, <1>13, AddressedMail DEF MailInvariant

\* A stopped worker leaves its running jobs to be run again; the mail of an
\* accepted one is lost.
LEMMA WorkerCrashStep ==
    ASSUME TypeOK, MailInvariant, WorkerCrash
    PROVE  MailInvariant'
<1>1. /\ UNCHANGED <<ticket, mails>>
      /\ SendCallsLeft' \subseteq SendCallsLeft
  BY DEF WorkerCrash, SendCallsLeft
<1>2. ASSUME NEW id \in JobIds
      PROVE  /\ job'[id].msg = job[id].msg
             /\ job'[id].ticket = job[id].ticket
             /\ job'[id].try = job[id].try
             /\ job'[id].st = IF job[id].st \in Running THEN "queued" ELSE job[id].st
             /\ LiveSend(id)' <=> LiveSend(id)
  BY DEF WorkerCrash, NoJob, LiveSend, Running
<1>3. /\ lost \subseteq lost'
      /\ \A id \in JobIds : job[id].st = "accepted" => job[id].ticket \in lost'
      /\ \A t \in lost' : t \in lost \/ \E id \in JobIds :
                                 job[id].st = "accepted" /\ job[id].ticket = t
  BY DEF WorkerCrash
<1>4. \A id \in JobIds : job[id].st = "accepted" => LiveSend(id)
  BY DEF MailInvariant, SendsAreGranted, LiveSend
<1>5. SendsAreGranted'
  BY <1>1, <1>2 DEF MailInvariant, SendsAreGranted, Grants, Running
<1>6. TicketsAreUsedOnce'
  BY <1>1, <1>2 DEF MailInvariant, TicketsAreUsedOnce
<1>7. MailsAreGranted'
  <2>1. ASSUME NEW t \in lost'
        PROVE  ticket[t] # None
    BY <1>3, <1>4 DEF MailInvariant, MailsAreGranted, SendsAreGranted, Grants
  <2>2. ASSUME NEW call \in SendCallsLeft
        PROVE  call.ticket \notin lost'
    BY <1>3, <1>4 DEF MailInvariant, MailsAreGranted, TicketsAreUsedOnce
  <2> QED
    BY <1>1, <2>1, <2>2 DEF MailInvariant, MailsAreGranted
<1>8. MailsFitTheJob'
  BY <1>1, <1>2, <1>3 DEF MailInvariant, MailsFitTheJob, Running
<1>9. OneMailPerApproval' /\ CopiesBoundedByTries'
  BY <1>1, <1>3 DEF MailInvariant, OneMailPerApproval, CopiesBoundedByTries
<1>10. AddressedStep
  BY SameMessages DEF WorkerCrash, rowVars, requestVars
<1> QED
  BY <1>5, <1>6, <1>7, <1>8, <1>9, <1>10, AddressedMail DEF MailInvariant

-----------------------------------------------------------------------------
(* The invariant *)

\* Nothing is mailed, approved or enqueued at first.
LEMMA InitMail == Init => MailInvariant
<1> SUFFICES ASSUME Init PROVE MailInvariant
  OBVIOUS
<1> USE DEF Init
<1>1. SendsAreGranted /\ TicketsAreUsedOnce
  BY DEF SendsAreGranted, TicketsAreUsedOnce, SendCallsLeft, LiveSend, NoJob
<1>2. MailsAreGranted /\ MailsFitTheJob
  BY DEF MailsAreGranted, MailsFitTheJob, SendCallsLeft, LiveSend, NoJob
<1>3. MessagesAreAddressed
  BY DEF MessagesAreAddressed
<1>4. OneMailPerApproval /\ CopiesBoundedByTries
  BY TriesArePositive DEF OneMailPerApproval, CopiesBoundedByTries
<1> QED
  BY <1>1, <1>2, <1>3, <1>4 DEF MailInvariant

\* Every step is quiet or one of those above.
LEMMA StepKinds ==
    ASSUME TypeOK, MailInvariant, [Next]_vars
    PROVE  \/ QuietStep /\ AddressedStep
           \/ \E q \in approvals : CommitApproval(q)
           \/ \E call \in outbox : Enqueue(call)
           \/ \E id \in JobIds : ProviderAccepts(id) \/ ProviderTimesOut(id)
           \/ WorkerCrash
<1>1. CASE UNCHANGED vars
  <2>1. QuietStep
    BY <1>1 DEF vars, systemVars, historyVars, QuietStep, QuietJob
  <2>2. AddressedStep
    BY <1>1, SameMessages DEF vars, systemVars, rowVars, requestVars, historyVars
  <2> QED
    BY <2>1, <2>2
<1>2. CASE Request /\ UNCHANGED faults
  BY <1>2, CampaignRequestIsQuiet, ApprovalRequestIsQuiet, LeadRequestIsQuiet DEF Request
<1>3. CASE Fault /\ UNCHANGED requests
  BY <1>3, OtherStepIsQuiet DEF Fault
<1>4. CASE SystemStep /\ UNCHANGED <<requests, faults>>
  <2>1. CASE ContinueRequest
    BY <2>1, ContinueRequestIsQuiet DEF ContinueRequest
  <2>2. ASSUME NEW id \in JobIds, SendStep(id) \/ DraftStep(id) \/ ExpireResult(id),
               ~ProviderAccepts(id), ~ProviderTimesOut(id)
        PROVE  QuietStep /\ AddressedStep
    BY <2>2, SendStepIsQuiet, DraftStepIsQuiet, OtherStepIsQuiet
  <2>3. CASE RecoveryStep
    BY <2>3, OtherStepIsQuiet
  <2> QED
    BY <1>4, <2>1, <2>2, <2>3 DEF SystemStep
<1> QED
  BY <1>1, <1>2, <1>3, <1>4 DEF Next

\* Every step keeps the invariant.
LEMMA MailStep ==
    ASSUME TypeOK, MailInvariant, [Next]_vars
    PROVE  MailInvariant'
<1>1. CASE QuietStep /\ AddressedStep
  BY <1>1, QuietMail, AddressedMail DEF MailInvariant
<1> QED
  BY <1>1, StepKinds, CommitApprovalStep, EnqueueStep, HandOffStep, WorkerCrashStep

(***************************************************************************)
(* The rows, jobs and requests of outreach are typed, and every send that  *)
(* waits or runs has the ticket of its own approval, in every reachable    *)
(* state: the inductive invariant.                                         *)
(***************************************************************************)
THEOREM Invariance == Spec => [](TypeOK /\ MailInvariant)
<1>1. Init => TypeOK /\ MailInvariant
  BY InitType, InitMail
<1>2. TypeOK /\ MailInvariant /\ [Next]_vars => TypeOK' /\ MailInvariant'
  BY TypeStep, MailStep
<1> QED
  BY <1>1, <1>2, PTL DEF Spec

-----------------------------------------------------------------------------
(* The properties *)

\* Every reachable state is typed.
THEOREM TypeCorrect == Spec => []TypeOK
BY Invariance, PTL

(***************************************************************************)
(* The provider is handed only what a person approved, for the lead of the *)
(* recipient approved: send_email mails the message id its approval put    *)
(* into the job, however approvals, drafts and restarts interleave.        *)
(***************************************************************************)
THEOREM OnlyApprovedIsMailed == Spec => []MailedOnlyAsApproved
<1>1. TypeOK /\ MailInvariant => MailedOnlyAsApproved
  BY NoneIsNoValue
  DEF TypeOK, MailInvariant, MailsAreGranted, MessagesAreAddressed, MailedOnlyAsApproved
<1> QED
  BY <1>1, Invariance, PTL

(***************************************************************************)
(* A second mail for one approval needs a mail whose outcome the worker    *)
(* never learnt.                                                           *)
(***************************************************************************)
THEOREM ApprovalMailsOnce == Spec => []OneMailPerApproval
<1>1. MailInvariant => OneMailPerApproval
  BY DEF MailInvariant
<1> QED
  BY <1>1, Invariance, PTL

\* arq's max_tries bounds the copies of one approval, crashes or not.
THEOREM CopiesAreBounded == Spec => []CopiesBoundedByTries
<1>1. MailInvariant => CopiesBoundedByTries
  BY DEF MailInvariant
<1> QED
  BY <1>1, Invariance, PTL

\* No step gives the message of a send past the check another lead, and a send
\* gets past the check only if its lead is not suppressed.
LEMMA GateStep ==
    ASSUME TypeOK, MailInvariant, [Next]_vars, NEW id \in JobIds,
           job'[id].st = "cleared"
    PROVE  /\ job'[id].msg = job[id].msg
           /\ message'[job[id].msg].lead = message[job[id].msg].lead
           /\ \/ job[id].st = "cleared"
              \/ message[job[id].msg].lead \notin suppressed
<1>1. LiveSend(id) /\ job[id].msg # None =>
         /\ job[id].msg \in Messages
         /\ message[job[id].msg].lead # None
  BY SendingType, NoneIsNoValue
<1>2. job[id].st = "cleared" => LiveSend(id) /\ job[id].msg # None
  BY DEF MailInvariant, SendsAreGranted, LiveSend
<1>3. CASE QuietStep /\ AddressedStep
  <2>1. /\ LiveSend(id) /\ job[id].msg # None
        /\ job'[id].msg = job[id].msg
        /\ \/ job[id].st = "cleared"
           \/ message[job[id].msg].lead \notin suppressed
    BY <1>2, <1>3 DEF QuietStep, QuietJob, SendingStates
  <2> QED
    BY <1>1, <1>3, <2>1 DEF AddressedStep
<1>4. ASSUME NEW q \in approvals, CommitApproval(q)
      PROVE  /\ job' = job
             /\ \A m \in Messages : message'[m].lead = message[m].lead
  BY <1>4 DEF CommitApproval, TypeOK, MessageRow
<1>5. ASSUME NEW call \in outbox, Enqueue(call)
      PROVE  job'[id] = job[id] /\ message' = message
  BY <1>5 DEF Enqueue, NoJob, TypeOK, rowVars
<1>6. ASSUME NEW other \in JobIds, ProviderAccepts(other) \/ ProviderTimesOut(other)
      PROVE  job'[id] = job[id] /\ message' = message
  BY <1>6 DEF ProviderAccepts, ProviderTimesOut, TypeOK, JobRow, rowVars
<1>7. CASE WorkerCrash
  BY <1>7 DEF WorkerCrash, NoJob, Running
<1> QED
  BY <1>1, <1>2, <1>3, <1>4, <1>5, <1>6, <1>7, StepKinds

(***************************************************************************)
(* While an address stays suppressed no further send gets past the check   *)
(* of send_email, whoever approves, enqueues, retries or restarts it.      *)
(***************************************************************************)
THEOREM GateStaysClosed == Spec => SuppressionClosesGate
<1>1. ASSUME TypeOK, MailInvariant, [Next]_vars
      PROVE  \A l \in suppressed \cap suppressed' : PastCheck(l)' \subseteq PastCheck(l)
  <2> SUFFICES ASSUME NEW l \in suppressed, NEW id \in PastCheck(l)'
               PROVE  id \in PastCheck(l)
    OBVIOUS
  <2>1. id \in JobIds /\ job'[id].st = "cleared" /\ message'[job'[id].msg].lead = l
    BY DEF PastCheck
  <2> QED
    BY <1>1, <2>1, GateStep DEF PastCheck
<1> QED
  BY <1>1, Invariance, PTL DEF Spec, SuppressionClosesGate

=============================================================================
