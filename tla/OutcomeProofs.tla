--------------------------- MODULE OutcomeProofs ---------------------------
(***************************************************************************)
(* Outreach keeps MailContract, and what it records of a mail is true and  *)
(* complete: proofs for every number of leads, campaigns, messages,        *)
(* requests and crashes. They rest on OutreachProofs!Invariance and on one *)
(* fact more: a job that holds the provider's answer has had its mail.     *)
(***************************************************************************)
EXTENDS OutreachProofs

-----------------------------------------------------------------------------
(* How jobs move *)

\* A step moves one job at most, and then leaves the suppression list alone,
\* unless the worker stops.
OneJobMoves(id) ==
    /\ suppressed' = suppressed
    /\ \A other \in JobIds : other # id => job'[other] = job[other]

LEMMA SendStepMovesOne ==
    ASSUME TypeOK, NEW id \in JobIds, SendStep(id)
    PROVE  /\ OneJobMoves(id)
           /\ \/ job[id].st # "accepted"
              \/ CommitSent(id)
<1> USE DEF OneJobMoves, TypeOK, rowVars, Finished
<1>1. CASE GiveUp(id)
  BY <1>1 DEF GiveUp
<1>2. CASE SendWithoutMessage(id)
  BY <1>2 DEF SendWithoutMessage, CanStart
<1>3. CASE RefuseSuppressed(id)
  BY <1>3 DEF RefuseSuppressed, CanStart
<1>4. CASE ClearForSending(id)
  BY <1>4 DEF ClearForSending, CanStart
<1>5. CASE ProviderAccepts(id)
  BY <1>5 DEF ProviderAccepts
<1>6. CASE ProviderTimesOut(id)
  BY <1>6 DEF ProviderTimesOut
<1>7. CASE ProviderRefuses(id)
  BY <1>7 DEF ProviderRefuses
<1>8. CASE CommitSent(id)
  BY <1>8 DEF CommitSent
<1>9. CASE CommitFailed(id)
  BY <1>9 DEF CommitFailed
<1> QED
  BY <1>1, <1>2, <1>3, <1>4, <1>5, <1>6, <1>7, <1>8, <1>9 DEF SendStep

LEMMA DraftStepMovesOne ==
    ASSUME TypeOK, NEW id \in JobIds, DraftStep(id)
    PROVE  OneJobMoves(id) /\ job[id].st # "accepted"
<1> USE DEF OneJobMoves, TypeOK, rowVars, Finished
<1>1. CASE StartDrafting(id)
  BY <1>1 DEF StartDrafting, CanStart
<1>2. CASE RecipientGone(id)
  BY <1>2 DEF RecipientGone, CanStart
<1>3. ASSUME NEW m \in Messages, CommitDraft(id, m)
      PROVE  OneJobMoves(id) /\ job[id].st # "accepted"
  BY <1>3 DEF CommitDraft
<1>4. CASE CountPending(id)
  BY <1>4 DEF CountPending
<1>5. CASE CommitReady(id)
  BY <1>5 DEF CommitReady
<1> QED
  BY <1>1, <1>2, <1>3, <1>4, <1>5 DEF DraftStep

\* A job that holds the provider's answer keeps it until its commit or until the
\* worker stops.
LEMMA JobsMoveOneByOne ==
    ASSUME TypeOK, [Next]_vars
    PROVE  \/ WorkerCrash
           \/ UNCHANGED job
           \/ \E id \in JobIds : /\ OneJobMoves(id)
                                 /\ job[id].st # "accepted" \/ CommitSent(id)
<1>1. CASE UNCHANGED vars
  BY <1>1 DEF vars, systemVars
<1>2. CASE Request
  <2>1. CampaignRequest => UNCHANGED job
    BY DEF CampaignRequest, CreateCampaign, AddToCampaign, HandleStatusAction,
           DeleteCampaign, TriggerGeneration
  <2>2. ApprovalRequest => UNCHANGED job
    BY DEF ApprovalRequest, EditDraft, LoadApproval, Regenerate, Skip,
           SuppressFromQueue, LoadApproveAll
  <2>3. LeadRequest => UNCHANGED job
    BY DEF LeadRequest, AddSuppression, RemoveSuppression, UpdateLeadStage
  <2> QED
    BY <1>2, <2>1, <2>2, <2>3 DEF Request
<1>3. CASE Fault
  BY <1>3 DEF Fault, ApiCrash, EnqueueFails
<1>4. CASE SystemStep
  <2>1. CASE ContinueRequest
    BY <2>1 DEF ContinueRequest, SelectPending, StaleTrigger, CommitApproval,
                StaleApproval
  <2>2. ASSUME NEW call \in outbox, Enqueue(call)
        PROVE  \/ UNCHANGED job
               \/ call.id \in JobIds /\ OneJobMoves(call.id) /\ job[call.id].st # "accepted"
    <3>1. call.id \in JobIds
      BY DEF TypeOK, Call
    <3> QED
      BY <2>2, <3>1 DEF Enqueue, OneJobMoves, TypeOK, rowVars
  <2>3. ASSUME NEW id \in JobIds, SendStep(id) \/ DraftStep(id) \/ ExpireResult(id)
        PROVE  OneJobMoves(id) /\ (job[id].st # "accepted" \/ CommitSent(id))
    BY <2>3, SendStepMovesOne, DraftStepMovesOne
       DEF ExpireResult, OneJobMoves, TypeOK, rowVars
  <2>4. CASE RecoveryStep
    BY <2>4 DEF RecoveryStep, SelectStuckCampaigns, RecoverCampaign, StaleRecovery
  <2> QED
    BY <1>4, <2>1, <2>2, <2>3, <2>4 DEF SystemStep
<1> QED
  BY <1>1, <1>2, <1>3, <1>4 DEF Next

-----------------------------------------------------------------------------
(* Mails only become more *)

\* Approvals stay, mails and losses do not become fewer, and whoever a message
\* belongs to it goes on belonging to.
HistoryGrows ==
    /\ \A t \in Tokens : ticket[t] # None => ticket'[t] = ticket[t]
    /\ \A t \in Tokens, m \in Messages : mails[t][m] > 0 => mails'[t][m] > 0
    /\ lost \subseteq lost'
    /\ \A m \in Messages : message[m].lead # None => message'[m].lead = message[m].lead

LEMMA HistoryStep ==
    ASSUME TypeOK, MailInvariant, [Next]_vars
    PROVE  HistoryGrows
<1>1. CASE QuietStep /\ AddressedStep
  BY <1>1 DEF QuietStep, AddressedStep, historyVars, HistoryGrows
<1>2. ASSUME NEW q \in approvals, CommitApproval(q)
      PROVE  HistoryGrows
  <2>1. PICK f \in [q.items -> {t \in Tokens : ticket[t] = None}] :
          ticket' = [t \in Tokens |->
              IF \E i \in q.items : f[i] = t
              THEN LET i == CHOOSE i \in q.items : f[i] = t
                   IN  [rec |-> i.rec, msg |-> i.msg]
              ELSE ticket[t]]
    BY <1>2 DEF CommitApproval
  <2>2. \A t \in Tokens : ticket[t] # None => ticket'[t] = ticket[t]
    BY <2>1
  <2>3. \A m \in Messages : message'[m].lead = message[m].lead
    BY <1>2 DEF CommitApproval, TypeOK, MessageRow
  <2> QED
    BY <1>2, <2>2, <2>3 DEF CommitApproval, HistoryGrows
<1>3. ASSUME NEW call \in outbox, Enqueue(call)
      PROVE  HistoryGrows
  BY <1>3 DEF Enqueue, rowVars, historyVars, HistoryGrows
<1>4. ASSUME NEW id \in JobIds, ProviderAccepts(id) \/ ProviderTimesOut(id)
      PROVE  HistoryGrows
  <2>1. \A t \in Tokens, m \in Messages : mails[t][m] > 0 => mails'[t][m] > 0
    <3> SUFFICES ASSUME NEW t \in Tokens, NEW m \in Messages, mails[t][m] > 0
                 PROVE  mails'[t][m] > 0
      OBVIOUS
    <3>1. mails[t][m] \in Nat
      BY DEF TypeOK
    <3>2. mails'[t][m] = mails[t][m] \/ mails'[t][m] = mails[t][m] + 1
      <4> DEFINE u == job[id].ticket
                 n == job[id].msg
      <4>1. mails' = [mails EXCEPT ![u][n] = @ + 1]
        BY <1>4 DEF ProviderAccepts, ProviderTimesOut, HandOff
      <4>2. mails \in [Tokens -> [Messages -> Nat]]
        BY DEF TypeOK
      <4> HIDE DEF u, n
      <4>3. CASE t = u
        BY <4>1, <4>2, <4>3
      <4>4. CASE t # u
        BY <4>1, <4>2, <4>4
      <4> QED
        BY <4>3, <4>4
    <3> QED
      BY <3>1, <3>2
  <2> QED
    BY <1>4, <2>1 DEF ProviderAccepts, ProviderTimesOut, rowVars, HistoryGrows
<1>5. CASE WorkerCrash
  BY <1>5 DEF WorkerCrash, rowVars, HistoryGrows
<1> QED
  BY <1>1, <1>2, <1>3, <1>4, <1>5, StepKinds

\* A job that holds the provider's answer has had its mail.
AcceptedIsMailed ==
    \A id \in JobIds : job[id].st = "accepted" => mails[job[id].ticket][job[id].msg] > 0

\* Only the hand-off gives a job the provider's answer.
LEMMA AcceptedStep ==
    ASSUME TypeOK, MailInvariant, AcceptedIsMailed, [Next]_vars
    PROVE  AcceptedIsMailed'
<1> SUFFICES ASSUME NEW id \in JobIds, job'[id].st = "accepted"
             PROVE  mails'[job'[id].ticket][job'[id].msg] > 0
  BY DEF AcceptedIsMailed
<1>1. CASE job'[id] = job[id]
  <2>1. job[id].ticket \in Tokens /\ job[id].msg \in Messages
    BY <1>1, SendingType DEF MailInvariant, SendsAreGranted, LiveSend
  <2> QED
    BY <1>1, <2>1, HistoryStep DEF AcceptedIsMailed, HistoryGrows
<1>2. CASE QuietStep
  BY <1>1, <1>2 DEF QuietStep, QuietJob, SendingStates
<1>3. ASSUME NEW q \in approvals, CommitApproval(q)
      PROVE  job' = job
  BY <1>3 DEF CommitApproval
<1>4. ASSUME NEW call \in outbox, Enqueue(call)
      PROVE  job'[id] = job[id]
  BY <1>4 DEF Enqueue, NoJob, TypeOK
<1>5. ASSUME NEW k \in JobIds, ProviderAccepts(k) \/ ProviderTimesOut(k), job'[id] # job[id]
      PROVE  mails'[job'[id].ticket][job'[id].msg] > 0
  <2>1. k = id /\ job[id].st = "cleared"
    BY <1>5 DEF ProviderAccepts, ProviderTimesOut, TypeOK
  <2>2. job'[id].ticket = job[id].ticket /\ job'[id].msg = job[id].msg
    BY <1>5, <2>1 DEF ProviderAccepts, ProviderTimesOut, TypeOK, JobRow
  <2>3. job[id].ticket \in Tokens /\ job[id].msg \in Messages
    BY <2>1, SendingType DEF MailInvariant, SendsAreGranted, LiveSend
  <2>4. mails[job[id].ticket][job[id].msg] \in Nat
    BY <2>3 DEF TypeOK
  <2>5. mails'[job[id].ticket][job[id].msg] = mails[job[id].ticket][job[id].msg] + 1
    BY <1>5, <2>1, <2>3 DEF ProviderAccepts, ProviderTimesOut, HandOff, TypeOK
  <2> QED
    BY <2>2, <2>4, <2>5
<1>6. ~WorkerCrash
  BY DEF WorkerCrash, NoJob, Running
<1> QED
  BY <1>1, <1>2, <1>3, <1>4, <1>5, <1>6, StepKinds

-----------------------------------------------------------------------------
(* The refinement *)

\* The tickets of the sends past their check, and what becomes of one of them.
LEMMA ClearedTicketsAre ==
    \A t : t \in ClearedTickets <=> \E id \in JobIds : job[id].st = "cleared" /\ job[id].ticket = t
BY DEF ClearedTickets

\* The check of one send passes in the contract as well.
LEMMA ClearIsContract ==
    ASSUME TypeOK, MailInvariant, NEW id \in JobIds, LiveSend(id), OneJobMoves(id),
           UNCHANGED historyVars,
           job'[id].ticket = job[id].ticket, job[id].msg # None,
           job[id].st = "queued", job'[id].st = "cleared",
           message[job[id].msg].lead \notin suppressed
    PROVE  Contract!Clear(job[id].ticket) /\ job[id].ticket \in Tokens
<1> DEFINE t == job[id].ticket
<1>1. /\ t \in Tokens /\ ticket[t] # None
      /\ ticket[t].rec = id.rec
      /\ message[job[id].msg].lead = LeadOf(id.rec)
  BY SendingType DEF MailInvariant, SendsAreGranted, Grants
<1>2. \A other \in JobIds :
        LiveSend(other) /\ job[other].ticket = t => other = id
  BY DEF MailInvariant, TicketsAreUsedOnce
<1>3. \A other \in JobIds : job[other].st = "cleared" => LiveSend(other)
  BY DEF MailInvariant, SendsAreGranted, LiveSend
<1>4. t \notin ClearedTickets
  BY <1>2, <1>3 DEF ClearedTickets
<1>5. ClearedTickets' = ClearedTickets \cup {t}
  <2>1. ASSUME NEW u, u \in ClearedTickets' PROVE u \in ClearedTickets \cup {t}
    BY <2>1 DEF ClearedTickets, OneJobMoves
  <2>2. ASSUME NEW u, u \in ClearedTickets PROVE u \in ClearedTickets'
    BY <2>2 DEF ClearedTickets, OneJobMoves
  <2>3. t \in ClearedTickets'
    BY DEF ClearedTickets
  <2> QED
    BY <2>1, <2>2, <2>3
<1>6. t \in lost \/ \A m \in Messages : mails[t][m] = 0
  BY DEF MailInvariant, MailsFitTheJob
<1>7. ticket[t].rec[2] \notin suppressed
  BY <1>1 DEF LeadOf
<1> QED
  BY <1>1, <1>4, <1>5, <1>6, <1>7 DEF Contract!Clear, Contract!LeadOf, OneJobMoves, historyVars

\* Sends that end, or are refused by the provider, are given up.
LEMMA EndIsContract ==
    ASSUME NEW id \in JobIds, OneJobMoves(id), UNCHANGED historyVars, job'[id].st # "cleared"
    PROVE  Contract!Interrupt
<1>1. ClearedTickets' \subseteq ClearedTickets
  <2> SUFFICES ASSUME NEW u, u \in ClearedTickets' PROVE u \in ClearedTickets
    OBVIOUS
  <2> QED
    BY DEF ClearedTickets, OneJobMoves
<1> QED
  BY <1>1 DEF Contract!Interrupt, OneJobMoves, historyVars

\* The hand-off mails the ticket of its job, and ends its check.
LEMMA HandOffIsContract ==
    ASSUME TypeOK, MailInvariant, NEW id \in JobIds,
           ProviderAccepts(id) \/ ProviderTimesOut(id)
    PROVE  Contract!Mail(job[id].ticket) /\ job[id].ticket \in Tokens
<1> DEFINE t == job[id].ticket
           m == job[id].msg
<1>1. job[id].st = "cleared" /\ LiveSend(id) /\ m # None
  BY DEF ProviderAccepts, ProviderTimesOut, MailInvariant, SendsAreGranted, LiveSend
<1>2. t \in Tokens /\ m \in Messages /\ ticket[t] # None /\ ticket[t].msg = m
  BY <1>1, SendingType DEF MailInvariant, SendsAreGranted, Grants
<1>3. mails[t][m] < MaxTries
  <2>1. mails[t][m] < job[id].try
    BY <1>1, <1>2 DEF MailInvariant, MailsFitTheJob
  <2>2. mails[t][m] \in Nat /\ job[id].try \in 0..MaxTries
    BY <1>2 DEF TypeOK, JobRow
  <2> QED
    BY <2>1, <2>2, TriesArePositive
<1>4. \A other \in JobIds :
        job[other].st = "cleared" /\ job[other].ticket = t => other = id
  BY <1>1 DEF MailInvariant, TicketsAreUsedOnce, SendsAreGranted, LiveSend
<1>5. job'[id].st # "cleared" /\ \A other \in JobIds : other # id => job'[other] = job[other]
  BY DEF ProviderAccepts, ProviderTimesOut, TypeOK, JobRow
<1>6. ClearedTickets' = ClearedTickets \ {t}
  <2>1. ASSUME NEW u, u \in ClearedTickets' PROVE u \in ClearedTickets \ {t}
    BY <1>4, <1>5, <2>1 DEF ClearedTickets
  <2>2. ASSUME NEW u, u \in ClearedTickets, u # t PROVE u \in ClearedTickets'
    BY <1>5, <2>2 DEF ClearedTickets
  <2>3. t \notin ClearedTickets'
    BY <2>1
  <2> QED
    BY <2>1, <2>2, <2>3
<1>7. t \in ClearedTickets
  BY <1>1 DEF ClearedTickets
<1>8. lost' \in {lost, lost \cup {t}} /\ UNCHANGED <<ticket, suppressed>>
  BY DEF ProviderAccepts, ProviderTimesOut, rowVars
<1>9. mails' = [mails EXCEPT ![t][ticket[t].msg] = @ + 1]
  BY <1>2 DEF ProviderAccepts, ProviderTimesOut, HandOff
<1> QED
  BY <1>2, <1>3, <1>6, <1>7, <1>8, <1>9 DEF Contract!Mail

\* A stopped worker gives up the sends past their check, and loses the outcome of
\* mails that were mailed.
LEMMA CrashIsContract ==
    ASSUME TypeOK, MailInvariant, AcceptedIsMailed, WorkerCrash
    PROVE  Contract!Interrupt
<1>1. ClearedTickets' = {}
  BY DEF WorkerCrash, ClearedTickets, NoJob, Running
<1>2. ASSUME NEW t \in lost' \ lost
      PROVE  \E m \in Messages : mails[t][m] > 0
  <2>1. PICK id \in JobIds : job[id].st = "accepted" /\ job[id].ticket = t
    BY DEF WorkerCrash
  <2>2. job[id].msg \in Messages
    BY <2>1, SendingType DEF MailInvariant, SendsAreGranted, LiveSend
  <2> QED
    BY <2>1, <2>2 DEF AcceptedIsMailed
<1> QED
  BY <1>1, <1>2 DEF WorkerCrash, Contract!Interrupt, rowVars

\* People's approvals give tickets that nobody had.
LEMMA ApprovalIsContract ==
    ASSUME TypeOK, TypeOK', HistoryGrows, NEW q \in approvals, CommitApproval(q)
    PROVE  Contract!Approve
<1>1. ticket' \in [Tokens -> Contract!Grant \cup {None}]
  BY DEF TypeOK, Grant, Contract!Grant, Recipients
<1>2. ClearedTickets' = ClearedTickets
  BY DEF CommitApproval, ClearedTickets
<1> QED
  BY <1>1, <1>2 DEF CommitApproval, HistoryGrows, Contract!Approve

\* Every step of outreach is a step of the contract, or none.
LEMMA ContractStep ==
    ASSUME TypeOK, TypeOK', MailInvariant, AcceptedIsMailed, [Next]_vars
    PROVE  [Contract!Next]_(Contract!vars)
<1>1. CASE QuietStep /\ UNCHANGED job
  <2>1. ClearedTickets' = ClearedTickets
    BY <1>1 DEF ClearedTickets
  <2>2. suppressed' \subseteq Leads
    BY DEF TypeOK
  <2>3. Contract!ChangeList
    BY <1>1, <2>1, <2>2 DEF Contract!ChangeList, QuietStep, historyVars
  <2> QED
    BY <2>3 DEF Contract!Next
<1>2. ASSUME QuietStep, NEW id \in JobIds, OneJobMoves(id)
      PROVE  [Contract!Next]_(Contract!vars)
  <2>1. UNCHANGED historyVars /\ QuietJob(id)
    BY <1>2 DEF QuietStep
  <2>2. CASE job'[id].st # "cleared"
    BY <1>2, <2>1, <2>2, EndIsContract DEF Contract!Next
  <2>3. CASE job'[id] = job[id]
    <3>1. ClearedTickets' = ClearedTickets
      BY <1>2, <2>3 DEF ClearedTickets, OneJobMoves
    <3> QED
      BY <1>2, <2>1, <3>1 DEF Contract!vars, OneJobMoves, historyVars
  <2>4. CASE job'[id].st = "cleared" /\ job'[id] # job[id]
    <3>1. /\ LiveSend(id) /\ job[id].st = "queued"
          /\ job'[id].ticket = job[id].ticket /\ job[id].msg # None
          /\ message[job[id].msg].lead \notin suppressed
      BY <2>1, <2>4 DEF QuietJob, SendingStates
    <3> QED
      BY <1>2, <2>1, <2>4, <3>1, ClearIsContract DEF Contract!Next
  <2> QED
    BY <2>2, <2>3, <2>4
<1>3. CASE QuietStep /\ AddressedStep /\ ~WorkerCrash
  BY <1>1, <1>2, <1>3, JobsMoveOneByOne
<1>4. ASSUME NEW q \in approvals, CommitApproval(q)
      PROVE  [Contract!Next]_(Contract!vars)
  BY <1>4, ApprovalIsContract, HistoryStep DEF Contract!Next
<1>5. ASSUME NEW call \in outbox, Enqueue(call)
      PROVE  [Contract!Next]_(Contract!vars)
  <2>1. \A id \in JobIds : job'[id].st = "cleared" \/ job[id].st = "cleared" => job'[id] = job[id]
    BY <1>5 DEF Enqueue, NoJob, TypeOK
  <2>2. ClearedTickets' = ClearedTickets
    BY <2>1 DEF ClearedTickets
  <2> QED
    BY <1>5, <2>2 DEF Enqueue, Contract!vars, rowVars, historyVars
<1>6. ASSUME NEW id \in JobIds, ProviderAccepts(id) \/ ProviderTimesOut(id)
      PROVE  [Contract!Next]_(Contract!vars)
  BY <1>6, HandOffIsContract DEF Contract!Next
<1>7. CASE WorkerCrash
  BY <1>7, CrashIsContract DEF Contract!Next
<1> QED
  BY <1>3, <1>4, <1>5, <1>6, <1>7, StepKinds

LEMMA ContractStarts == Init => Contract!Init /\ AcceptedIsMailed
BY DEF Init, Contract!Init, ClearedTickets, AcceptedIsMailed, NoJob

\* What the refinement and the properties below rest on.
LEMMA OutcomeInvariance == Spec => [](TypeOK /\ MailInvariant /\ AcceptedIsMailed)
<1>1. Init => AcceptedIsMailed
  BY ContractStarts
<1>2. TypeOK /\ MailInvariant /\ AcceptedIsMailed /\ [Next]_vars => AcceptedIsMailed'
  BY AcceptedStep
<1> QED
  BY <1>1, <1>2, Invariance, PTL DEF Spec

(***************************************************************************)
(* Outreach implements MailContract, for any number of approvals, tries,   *)
(* crashes and requests: each mail has an approval and a check of its own  *)
(* that passed while the address was not suppressed (email_send.py, arq's  *)
(* retries and the recovery included).                                     *)
(***************************************************************************)
THEOREM OutreachKeepsContract == Spec => MailsKeepContract
<1>1. Init => Contract!Init
  BY ContractStarts
<1>2. /\ TypeOK /\ MailInvariant /\ AcceptedIsMailed
      /\ TypeOK'
      /\ [Next]_vars
      => [Contract!Next]_(Contract!vars)
  BY ContractStep
<1> QED
  BY <1>1, <1>2, OutcomeInvariance, PTL DEF Spec, MailsKeepContract, Contract!Spec

-----------------------------------------------------------------------------
(* What is recorded of a mail *)

\* A step that records no success: none of the three rows says more of a mail
\* than it did.
RecordsNothing ==
    /\ \A l \in Leads : lead'[l].contacted = lead[l].contacted
    /\ \A m \in Messages : message'[m].status = "SENT" => message[m].status = "SENT"
    /\ \A r \in Recipients : recipient'[r].status = "SENT" => recipient[r].status = "SENT"

LEMMA RequestRecordsNothing ==
    ASSUME TypeOK, CampaignRequest \/ ApprovalRequest \/ LeadRequest
    PROVE  RecordsNothing
<1> USE DEF RecordsNothing, TypeOK, LeadRow, MessageRow, RecipientRow
<1>1. CASE CampaignRequest
  <2>1. ASSUME NEW c \in Campaigns, NEW S \in SUBSET Leads, CreateCampaign(c, S)
        PROVE  RecordsNothing
    BY <2>1 DEF CreateCampaign, WithRecipients
  <2>2. ASSUME NEW c \in Campaigns, NEW l \in Leads, AddToCampaign(c, l)
        PROVE  RecordsNothing
    BY <2>2 DEF AddToCampaign, WithRecipients
  <2>3. ASSUME NEW c \in Campaigns, DeleteCampaign(c)
        PROVE  RecordsNothing
    BY <2>3 DEF DeleteCampaign
  <2> QED
    BY <1>1, <2>1, <2>2, <2>3
       DEF CampaignRequest, HandleStatusAction, TriggerGeneration
<1>2. CASE ApprovalRequest
  <2>1. ASSUME NEW r \in Recipients, NEW m \in Messages, EditDraft(r, m)
        PROVE  RecordsNothing
    BY <2>1 DEF EditDraft
  <2>2. ASSUME NEW r \in Recipients, SuppressFromQueue(r)
        PROVE  RecordsNothing
    BY <2>2 DEF SuppressFromQueue, SuppressedLead
  <2>3. ASSUME NEW r \in Recipients, Regenerate(r) \/ Skip(r)
        PROVE  RecordsNothing
    BY <2>3 DEF Regenerate, Skip
  <2> QED
    BY <1>2, <2>1, <2>2, <2>3 DEF ApprovalRequest, LoadApproval, LoadApproveAll, rowVars
<1>3. CASE LeadRequest
  <2>1. ASSUME NEW l \in Leads, AddSuppression(l)
        PROVE  RecordsNothing
    BY <2>1 DEF AddSuppression, SuppressedLead
  <2>2. ASSUME NEW l \in Leads, RemoveSuppression(l)
        PROVE  RecordsNothing
    BY <2>2 DEF RemoveSuppression
  <2>3. ASSUME NEW l \in Leads, NEW stage \in StageInputs, UpdateLeadStage(l, stage)
        PROVE  RecordsNothing
    BY <2>3 DEF UpdateLeadStage
  <2> QED
    BY <1>3, <2>1, <2>2, <2>3 DEF LeadRequest
<1> QED
  BY <1>1, <1>2, <1>3

LEMMA ContinueRecordsNothing ==
    ASSUME TypeOK, ContinueRequest
    PROVE  RecordsNothing
<1> USE DEF RecordsNothing, TypeOK, LeadRow, MessageRow, RecipientRow
<1>1. ASSUME NEW c \in Campaigns, SelectPending(c)
      PROVE  RecordsNothing
  <2> DEFINE attached == IF RecipientsOf(c) = {}
                         THEN WithRecipients(c, {l \in Leads : Uncontacted(l)})
                         ELSE recipient
  <2>1. \A r \in Recipients : attached[r].status = "SENT" => recipient[r].status = "SENT"
    BY DEF WithRecipients
  <2>2. attached \in [Recipients -> RecipientRow]
    BY DEF WithRecipients, RecipientStatus
  <2>3. \A r \in Recipients :
          \/ recipient'[r] = attached[r]
          \/ recipient'[r] = [attached[r] EXCEPT !.status = "SKIPPED"]
    BY <1>1 DEF SelectPending
  <2> HIDE DEF attached
  <2>4. \A r \in Recipients : recipient'[r].status = "SENT" => recipient[r].status = "SENT"
    <3> SUFFICES ASSUME NEW r \in Recipients, recipient'[r].status = "SENT"
                 PROVE  recipient[r].status = "SENT"
      OBVIOUS
    <3>1. attached[r] \in RecipientRow
      BY <2>2
    <3>2. [attached[r] EXCEPT !.status = "SKIPPED"].status = "SKIPPED"
      BY <3>1
    <3> QED
      BY <2>1, <2>3, <3>2
  <2> QED
    BY <1>1, <2>4 DEF SelectPending
<1>2. ASSUME NEW q \in approvals, CommitApproval(q)
      PROVE  RecordsNothing
  BY <1>2 DEF CommitApproval
<1> QED
  BY <1>1, <1>2 DEF ContinueRequest, StaleTrigger, StaleApproval, rowVars

LEMMA SendRecordsNothing ==
    ASSUME TypeOK, MailInvariant, NEW id \in JobIds, SendStep(id), ~CommitSent(id)
    PROVE  RecordsNothing
<1> USE DEF RecordsNothing, TypeOK, LeadRow, MessageRow, RecipientRow
<1>1. CASE RefuseSuppressed(id)
  BY <1>1 DEF RefuseSuppressed, RecipientSetTo
<1>2. CASE CommitFailed(id)
  BY <1>2 DEF CommitFailed, RecipientSetTo, Flush
<1> QED
  BY <1>1, <1>2
     DEF SendStep, GiveUp, SendWithoutMessage, ClearForSending, ProviderAccepts,
         ProviderTimesOut, ProviderRefuses, rowVars

LEMMA DraftRecordsNothing ==
    ASSUME TypeOK, NEW id \in JobIds, DraftStep(id)
    PROVE  RecordsNothing
<1> USE DEF RecordsNothing, TypeOK, LeadRow, MessageRow, RecipientRow
<1>1. ASSUME NEW m \in Messages, CommitDraft(id, m)
      PROVE  RecordsNothing
  BY <1>1 DEF CommitDraft, Flush
<1> QED
  BY <1>1 DEF DraftStep, StartDrafting, RecipientGone, CountPending, CommitReady, rowVars

\* Only the commit after a success records one.
LEMMA OnlyCommitRecords ==
    ASSUME TypeOK, MailInvariant, [Next]_vars
    PROVE  \/ RecordsNothing
           \/ \E id \in JobIds : CommitSent(id)
<1>1. UNCHANGED rowVars => RecordsNothing
  BY DEF rowVars, RecordsNothing
<1>2. CASE UNCHANGED vars
  BY <1>1, <1>2 DEF vars, systemVars
<1>3. CASE Request
  BY <1>3, RequestRecordsNothing DEF Request
<1>4. CASE Fault
  BY <1>1, <1>4 DEF Fault, ApiCrash, WorkerCrash, EnqueueFails
<1>5. CASE SystemStep
  <2>1. CASE RecoveryStep
    <3>1. ASSUME NEW c \in Campaigns, RecoverCampaign(c)
          PROVE  RecordsNothing
      BY <3>1 DEF RecoverCampaign, RecordsNothing, WithRecipients, TypeOK
    <3> QED
      BY <1>1, <2>1, <3>1 DEF RecoveryStep, SelectStuckCampaigns, StaleRecovery
  <2>2. ASSUME NEW id \in JobIds, SendStep(id) \/ DraftStep(id) \/ ExpireResult(id)
        PROVE  RecordsNothing \/ CommitSent(id)
    BY <1>1, <2>2, SendRecordsNothing, DraftRecordsNothing DEF ExpireResult
  <2>3. ASSUME NEW call \in outbox, Enqueue(call)
        PROVE  RecordsNothing
    BY <1>1, <2>3 DEF Enqueue
  <2> QED
    BY <1>5, <2>1, <2>2, <2>3, ContinueRecordsNothing DEF SystemStep
<1> QED
  BY <1>2, <1>3, <1>4, <1>5 DEF Next

\* What the commit after a success records, of the job's own mail.
LEMMA CommitRecords ==
    ASSUME TypeOK, MailInvariant, NEW id \in JobIds, CommitSent(id)
    PROVE  /\ job[id].ticket \in Tokens /\ job[id].msg \in Messages
           /\ ticket[job[id].ticket].rec = id.rec /\ ticket[job[id].ticket] # None
           /\ ticket[job[id].ticket].msg = job[id].msg
           /\ message[job[id].msg].lead = LeadOf(id.rec) /\ LeadOf(id.rec) \in Leads
           /\ lead'[LeadOf(id.rec)].contacted
           /\ \A l \in Leads : l # LeadOf(id.rec) => lead'[l] = lead[l]
           /\ \A m \in Messages : m # job[id].msg => message'[m] = message[m]
           /\ \A r \in Recipients : r # id.rec => recipient'[r] = recipient[r]
<1>1. job[id].st = "accepted" /\ LiveSend(id) /\ job[id].msg # None
  BY DEF CommitSent, MailInvariant, SendsAreGranted, LiveSend
<1>2. /\ job[id].ticket \in Tokens /\ job[id].msg \in Messages
      /\ ticket[job[id].ticket].rec = id.rec /\ ticket[job[id].ticket] # None
      /\ ticket[job[id].ticket].msg = job[id].msg
      /\ message[job[id].msg].lead = LeadOf(id.rec) /\ LeadOf(id.rec) \in Leads
  BY <1>1, SendingType DEF MailInvariant, SendsAreGranted, Grants
<1>3. /\ lead'[LeadOf(id.rec)].contacted
      /\ \A l \in Leads : l # LeadOf(id.rec) => lead'[l] = lead[l]
  BY <1>2 DEF CommitSent, TypeOK, LeadRow
<1> QED
  BY <1>2, <1>3 DEF CommitSent, RecipientSetTo, TypeOK

\* What was recorded before a step is backed after it.
LEMMA BackingLasts ==
    ASSUME TypeOK, OutcomesAreBacked, HistoryGrows, RecordsNothing
    PROVE  OutcomesAreBacked'
<1>1. ASSUME NEW m \in Messages, Mailed(m)
      PROVE  Mailed(m)'
  BY <1>1 DEF Mailed, HistoryGrows
<1>2. ASSUME NEW m \in Messages, message'[m].status = "SENT"
      PROVE  Mailed(m)'
  BY <1>1, <1>2 DEF OutcomesAreBacked, RecordsNothing
<1>3. ASSUME NEW r \in Recipients, recipient'[r].status = "SENT"
      PROVE  \E t \in Tokens : /\ ticket'[t] # None /\ ticket'[t].rec = r
                               /\ \E m \in Messages : mails'[t][m] > 0
  <2>1. PICK t \in Tokens : /\ ticket[t] # None /\ ticket[t].rec = r
                            /\ \E m \in Messages : mails[t][m] > 0
    BY <1>3 DEF OutcomesAreBacked, RecordsNothing
  <2> QED
    BY <2>1 DEF HistoryGrows
<1>4. ASSUME NEW l \in Leads, lead'[l].contacted
      PROVE  \E m \in Messages : message'[m].lead = l /\ Mailed(m)'
  <2>1. PICK m \in Messages : message[m].lead = l /\ Mailed(m)
    BY <1>4 DEF OutcomesAreBacked, RecordsNothing
  <2>2. message'[m].lead = l
    BY <2>1, NoneIsNoValue DEF HistoryGrows
  <2> QED
    BY <1>1, <2>1, <2>2
<1> QED
  BY <1>2, <1>3, <1>4 DEF OutcomesAreBacked

\* The commit after a success records the mail of its own job.
LEMMA CommitIsBacked ==
    ASSUME TypeOK, MailInvariant, AcceptedIsMailed, OutcomesAreBacked, HistoryGrows,
           NEW id \in JobIds, CommitSent(id)
    PROVE  OutcomesAreBacked'
<1>0. PICK t \in Tokens, m \in Messages : t = job[id].ticket /\ m = job[id].msg
  BY CommitRecords
<1>1. mails[t][m] > 0
  BY <1>0 DEF CommitSent, AcceptedIsMailed
<1>2. mails'[t][m] > 0 /\ ticket'[t] = ticket[t] /\ message'[m].lead = message[m].lead
  BY <1>0, <1>1, CommitRecords, NoneIsNoValue DEF HistoryGrows
<1>3. ASSUME NEW n \in Messages, Mailed(n)
      PROVE  Mailed(n)'
  BY <1>3 DEF Mailed, HistoryGrows
<1>4. Mailed(m)'
  BY <1>2 DEF Mailed
<1>5. ASSUME NEW n \in Messages, message'[n].status = "SENT"
      PROVE  Mailed(n)'
  BY <1>0, <1>3, <1>4, <1>5, CommitRecords DEF OutcomesAreBacked
<1>6. ASSUME NEW r \in Recipients, recipient'[r].status = "SENT"
      PROVE  \E u \in Tokens : /\ ticket'[u] # None /\ ticket'[u].rec = r
                               /\ \E n \in Messages : mails'[u][n] > 0
  <2>1. CASE r = id.rec
    BY <1>0, <1>2, <2>1, CommitRecords
  <2>2. CASE r # id.rec
    <3>1. PICK u \in Tokens : /\ ticket[u] # None /\ ticket[u].rec = r
                              /\ \E n \in Messages : mails[u][n] > 0
      BY <1>6, <2>2, CommitRecords DEF OutcomesAreBacked
    <3> QED
      BY <3>1 DEF HistoryGrows
  <2> QED
    BY <2>1, <2>2
<1>7. ASSUME NEW l \in Leads, lead'[l].contacted
      PROVE  \E n \in Messages : message'[n].lead = l /\ Mailed(n)'
  <2>1. CASE l = LeadOf(id.rec)
    BY <1>0, <1>2, <1>4, <2>1, CommitRecords
  <2>2. CASE l # LeadOf(id.rec)
    <3>1. PICK n \in Messages : message[n].lead = l /\ Mailed(n)
      BY <1>7, <2>2, CommitRecords DEF OutcomesAreBacked
    <3>2. message'[n].lead = l
      BY <3>1, NoneIsNoValue DEF HistoryGrows
    <3> QED
      BY <1>3, <3>1, <3>2
  <2> QED
    BY <2>1, <2>2
<1> QED
  BY <1>5, <1>6, <1>7 DEF OutcomesAreBacked

LEMMA OutcomesStart == Init => OutcomesAreBacked /\ MailIsRecorded
BY DEF Init, OutcomesAreBacked, MailIsRecorded

(***************************************************************************)
(* A message or recipient recorded SENT and a lead recorded as contacted   *)
(* rest on a mail of that message, for that recipient, to that lead, for   *)
(* any number of retries, restarts and approvals (email_send.py:114-133).  *)
(***************************************************************************)
THEOREM RecordsAreBacked == Spec => []OutcomesAreBacked
<1>1. Init => OutcomesAreBacked
  BY OutcomesStart
<1>2. /\ TypeOK /\ MailInvariant /\ AcceptedIsMailed
      /\ OutcomesAreBacked /\ [Next]_vars
      => OutcomesAreBacked'
  BY HistoryStep, OnlyCommitRecords, BackingLasts, CommitIsBacked
<1> QED
  BY <1>1, <1>2, OutcomeInvariance, PTL DEF Spec

\* A mail whose outcome is not lost stays recorded, or held by its job.
LEMMA RecordedStep ==
    ASSUME TypeOK, MailInvariant, MailIsRecorded, HistoryGrows, [Next]_vars
    PROVE  MailIsRecorded'
<1> SUFFICES ASSUME NEW t \in Tokens, t \notin lost', NEW m \in Messages, mails'[t][m] > 0
             PROVE  \/ lead'[message'[m].lead].contacted
                    \/ \E id \in JobIds : job'[id].st = "accepted" /\ job'[id].ticket = t
  BY DEF MailIsRecorded
<1>1. CASE mails[t][m] > 0
  <2>1. /\ ticket[t].msg = m
        /\ message[m].lead = LeadOf(ticket[t].rec)
    BY <1>1, NoneIsNoValue DEF MailInvariant, MailsAreGranted, MessagesAreAddressed
  <2>2. message'[m].lead = message[m].lead /\ message[m].lead \in Leads
    <3>1. ticket[t] # None /\ ticket[t].rec \in Recipients
      BY <1>1 DEF MailInvariant, MailsAreGranted, TypeOK, Grant
    <3> QED
      BY <2>1, <3>1, NoneIsNoValue DEF HistoryGrows, Recipients, LeadOf
  <2>3. CASE lead[message[m].lead].contacted
    <3>1. \A l \in Leads : lead[l].contacted => lead'[l].contacted
      BY OnlyCommitRecords, CommitRecords DEF RecordsNothing
    <3> QED
      BY <2>2, <2>3, <3>1
  <2>4. ASSUME NEW id \in JobIds, job[id].st = "accepted", job[id].ticket = t
        PROVE  \/ lead'[message'[m].lead].contacted
               \/ job'[id].st = "accepted" /\ job'[id].ticket = t
    <3>1. CASE job'[id] = job[id]
      BY <2>4, <3>1
    <3>2. CASE CommitSent(id)
      BY <2>1, <2>2, <2>4, <3>2, CommitRecords
    <3>3. ~WorkerCrash
      BY <2>4 DEF WorkerCrash
    <3> QED
      BY <2>4, <3>1, <3>2, <3>3, JobsMoveOneByOne DEF OneJobMoves
  <2>5. t \notin lost
    BY DEF HistoryGrows
  <2> QED
    BY <1>1, <2>3, <2>4, <2>5 DEF MailIsRecorded
<1>2. CASE ~(mails[t][m] > 0)
  <2>1. mails'[t][m] # mails[t][m]
    BY <1>2
  <2>2. PICK id \in JobIds : ProviderAccepts(id) \/ ProviderTimesOut(id)
    BY <2>1, StepKinds DEF QuietStep, historyVars, CommitApproval, Enqueue, WorkerCrash
  <2>3. t = job[id].ticket
    BY <2>1, <2>2 DEF ProviderAccepts, ProviderTimesOut, HandOff, TypeOK
  <2>4. ProviderAccepts(id)
    BY <2>2, <2>3 DEF ProviderTimesOut
  <2>5. job'[id].st = "accepted" /\ job'[id].ticket = t
    BY <2>3, <2>4 DEF ProviderAccepts, TypeOK, JobRow
  <2> QED
    BY <2>5
<1> QED
  BY <1>1, <1>2

(***************************************************************************)
(* No mail is forgotten unless its outcome was lost: for any number of     *)
(* crashes, timeouts and retries, the lead of a message the provider has   *)
(* is marked as contacted, or its job still holds the provider's answer    *)
(* (email_send.py between its hand-off and its commit).                    *)
(***************************************************************************)
THEOREM MailsAreRecorded == Spec => []MailIsRecorded
<1>1. Init => MailIsRecorded
  BY OutcomesStart
<1>2. TypeOK /\ MailInvariant /\ MailIsRecorded /\ [Next]_vars => MailIsRecorded'
  BY HistoryStep, RecordedStep
<1> QED
  BY <1>1, <1>2, OutcomeInvariance, PTL DEF Spec

=============================================================================
