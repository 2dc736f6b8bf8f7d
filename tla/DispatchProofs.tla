--------------------------- MODULE DispatchProofs ---------------------------
(***************************************************************************)
(* Proofs about Dispatch, for every number of leads, campaigns, messages,  *)
(* handlers, requests and crashes: what reaches a listed address, and what *)
(* becomes of an approval.                                                 *)
(***************************************************************************)
EXTENDS Dispatch, FiniteSetTheorems, TLAPS

-----------------------------------------------------------------------------
(* Jobs *)

JobShape ==
    /\ job = [j \in JobIds |-> job[j]]
    /\ \A j \in JobIds : {"state", "at", "data", "msg"} \subseteq DOMAIN job[j]

LEMMA AdvanceMoves ==
    ASSUME JobShape, NEW j \in JobIds, NEW step, Advance(j, step)
    PROVE  /\ JobShape'
           /\ job'[j].state = "active" /\ job'[j].at = step
           /\ job'[j].data = job[j].data /\ job'[j].msg = job[j].msg
           /\ \A k \in JobIds : k # j => job'[k] = job[k]
<1> DEFINE new == [job[j] EXCEPT !.state = "active", !.at = step]
<1>1. /\ {"state", "at", "data", "msg"} \subseteq DOMAIN new
      /\ new.state = "active" /\ new.at = step
      /\ new.data = job[j].data /\ new.msg = job[j].msg
  BY DEF JobShape
<1>2. job' = [job EXCEPT ![j] = new]
  BY DEF Advance, JobShape
<1> HIDE DEF new
<1> QED BY <1>1, <1>2 DEF JobShape

LEMMA FailMoves ==
    ASSUME JobShape, NEW j \in JobIds, Fail(j)
    PROVE  /\ JobShape'
           /\ job'[j].state = "failed"
           /\ \A k \in JobIds : k # j => job'[k] = job[k]
<1> DEFINE new == [job[j] EXCEPT !.state = "failed", !.at = "start"]
<1>1. {"state", "at", "data", "msg"} \subseteq DOMAIN new /\ new.state = "failed"
  BY DEF JobShape
<1>2. job' = [job EXCEPT ![j] = new]
  BY DEF Fail, JobShape
<1> HIDE DEF new
<1> QED BY <1>1, <1>2 DEF JobShape

\* An add leaves a job that is there as it is, and another one waits.
LEMMA AddMoves ==
    ASSUME JobShape, NEW id, NEW m, job' = Added(id, m)
    PROVE  /\ JobShape'
           /\ id \in JobIds => job'[id].state # "absent"
           /\ \A k \in JobIds :
                 \/ job'[k] = job[k]
                 \/ k = id /\ job'[k].state = "waiting" /\ job'[k].data = m
<1> DEFINE new == [NoJob EXCEPT !.state = "waiting", !.data = m]
<1>1. /\ {"state", "at", "data", "msg"} \subseteq DOMAIN new
      /\ new.state = "waiting" /\ new.data = m
  BY DEF NoJob
<1>2. job' = IF job[id].state = "absent" THEN [job EXCEPT ![id] = new] ELSE job
  BY DEF Added
<1> HIDE DEF new
<1>3. CASE job[id].state = "absent"
  BY <1>1, <1>2, <1>3 DEF JobShape
<1>4. CASE job[id].state # "absent"
  BY <1>2, <1>4 DEF JobShape
<1> QED BY <1>3, <1>4

LEMMA CompleteMoves ==
    ASSUME JobShape, NEW j \in JobIds, Complete(j)
    PROVE  /\ JobShape'
           /\ job'[j].state = "absent"
           /\ \A k \in JobIds : k # j => job'[k] = job[k]
<1>1. {"state", "at", "data", "msg"} \subseteq DOMAIN NoJob /\ NoJob.state = "absent"
  BY DEF NoJob
<1>2. job' = [job EXCEPT ![j] = NoJob]
  BY DEF Complete
<1> QED BY <1>1, <1>2 DEF JobShape

LEMMA StartMoves ==
    ASSUME JobShape, NEW j \in JobIds, StartSend(j)
    PROVE  /\ JobShape'
           /\ \/ job'[j].state = "failed"
              \/ /\ job'[j].state = "active"
                 /\ job'[j].at \in {"refuse", "send"}
                 /\ j.of[2] \in listed => job'[j].at = "refuse"
                 /\ Loaded(j) # None /\ job'[j].msg = Loaded(j)
                 /\ job'[j].data = job[j].data
           /\ \A k \in JobIds : k # j => job'[k] = job[k]
<1> DEFINE new == [job[j] EXCEPT !.state = "active", !.msg = Loaded(j),
                         !.at = IF j.of[2] \in listed THEN "refuse" ELSE "send"]
<1>1. CASE Loaded(j) = None
  BY <1>1, FailMoves DEF StartSend
<1>2. CASE Loaded(j) # None
  <2>1. /\ {"state", "at", "data", "msg"} \subseteq DOMAIN new /\ new.state = "active"
        /\ new.at \in {"refuse", "send"} /\ (j.of[2] \in listed => new.at = "refuse")
        /\ new.msg = Loaded(j) /\ new.data = job[j].data
    BY DEF JobShape
  <2>2. job' = [job EXCEPT ![j] = new]
    BY <1>2 DEF StartSend, JobShape
  <2> HIDE DEF new
  <2> QED BY <1>2, <2>1, <2>2 DEF JobShape
<1> QED BY <1>1, <1>2

LEMMA CrashMoves ==
    ASSUME JobShape, WorkerCrash
    PROVE  /\ JobShape'
           /\ \A k \in JobIds : \/ job'[k] = job[k]
                                \/ /\ job'[k].state \in {"waiting", "failed"}
                                   /\ job'[k].data = job[k].data
                                   /\ job[k].state = "active"
<1> DEFINE after(j) == [job[j] EXCEPT !.at = "start", !.msg = None,
                           !.stalls = job[j].stalls + 1,
                           !.state = IF job[j].stalls < MaxStalled
                                     THEN "waiting" ELSE "failed"]
<1>1. \A j \in JobIds : /\ {"state", "at", "data", "msg"} \subseteq DOMAIN after(j)
                        /\ after(j).state \in {"waiting", "failed"}
                        /\ after(j).data = job[j].data
  BY DEF JobShape
<1>2. job' = [j \in JobIds |-> IF j \notin Active THEN job[j] ELSE after(j)]
  BY DEF WorkerCrash
<1> HIDE DEF after
<1> QED BY <1>1, <1>2 DEF JobShape, Active

-----------------------------------------------------------------------------
(* Mails to listed addresses *)

LateShape ==
    /\ JobShape
    /\ listed \subseteq Leads
    /\ late \in [Leads -> Nat] /\ exposed \in [Leads -> Nat]

\* Each send past its check when an address is listed may still mail it once.
SendsAreExposed ==
    \A l \in Leads :
        /\ IsFiniteSet(SendsPastCheck(l))
        /\ late[l] <= exposed[l]
        /\ l \in listed => late[l] + Cardinality(SendsPastCheck(l)) <= exposed[l]

LateInvariant == LateShape /\ SendsAreExposed

LEMMA LateStarts == Init => LateInvariant
<1> SUFFICES ASSUME Init PROVE LateInvariant
  OBVIOUS
<1>1. LateShape
  BY DEF Init, LateShape, JobShape, NoJob
<1>2. ASSUME NEW l \in Leads
      PROVE  /\ IsFiniteSet(SendsPastCheck(l))
             /\ late[l] <= exposed[l] /\ l \notin listed
  <2>1. SendsPastCheck(l) = {}
    BY DEF Init, SendsPastCheck, At, NoJob
  <2>2. late[l] = 0 /\ exposed[l] = 0 /\ l \notin listed
    BY DEF Init
  <2> QED BY <2>1, <2>2, FS_EmptySet
<1> QED BY <1>1, <1>2 DEF LateInvariant, SendsAreExposed

\* A step that mails nobody and takes no send to a listed address past its check.
LEMMA QuietStep ==
    ASSUME LateInvariant, JobShape', listed' \subseteq listed, UNCHANGED <<late, exposed>>,
           NEW j \in JobIds,
           \A k \in JobIds : k # j /\ At(k, "send")' => At(k, "send"),
           j.of[2] \in listed /\ At(j, "send")' => At(j, "send")
    PROVE  LateInvariant'
<1>1. LateShape'
  BY DEF LateInvariant, LateShape
<1>2. ASSUME NEW l \in Leads
      PROVE  /\ IsFiniteSet(SendsPastCheck(l)')
             /\ late'[l] <= exposed'[l]
             /\ l \in listed' => late'[l] + Cardinality(SendsPastCheck(l)') <= exposed'[l]
  <2> DEFINE old == SendsPastCheck(l)
             new == SendsPastCheck(l)'
  <2>1. IsFiniteSet(old) /\ IsFiniteSet(old \cup {j})
    BY FS_AddElement DEF LateInvariant, SendsAreExposed
  <2>2. new \subseteq old \cup {j}
    BY DEF SendsPastCheck
  <2>3. l \in listed => new \subseteq old
    BY DEF SendsPastCheck
  <2>4. /\ late[l] \in Nat /\ exposed[l] \in Nat /\ late[l] <= exposed[l]
        /\ l \in listed => late[l] + Cardinality(old) <= exposed[l]
    BY DEF LateInvariant, LateShape, SendsAreExposed
  <2>5. late'[l] = late[l] /\ exposed'[l] = exposed[l] /\ (l \in listed' => l \in listed)
    OBVIOUS
  <2> HIDE DEF old, new
  <2>6. IsFiniteSet(new)
    BY <2>1, <2>2, FS_Subset
  <2>7. l \in listed => Cardinality(new) <= Cardinality(old)
    BY <2>1, <2>3, FS_Subset
  <2>8. Cardinality(old) \in Nat /\ Cardinality(new) \in Nat
    BY <2>1, <2>6, FS_CardinalityType
  <2>9. l \in listed' => late'[l] + Cardinality(new) <= exposed'[l]
    BY <2>4, <2>5, <2>7, <2>8
  <2> QED BY <2>4, <2>5, <2>6, <2>9 DEF new
<1> QED BY <1>1, <1>2 DEF LateInvariant, SendsAreExposed

\* A step that takes no send past its check.
LEMMA StillStep ==
    ASSUME LateInvariant, JobShape', listed' \subseteq listed, UNCHANGED <<late, exposed>>,
           \A k \in JobIds : At(k, "send")' => At(k, "send")
    PROVE  LateInvariant'
<1>1. CASE \E j \in JobIds : TRUE
  BY <1>1, QuietStep
<1>2. CASE JobIds = {}
  <2>1. \A l : SendsPastCheck(l) = {} /\ SendsPastCheck(l)' = {}
    BY <1>2 DEF SendsPastCheck
  <2> QED BY <2>1 DEF LateInvariant, LateShape, SendsAreExposed
<1> QED BY <1>1, <1>2

\* An address is listed: the sends past their check are counted, once.
LEMMA ListStep ==
    ASSUME LateInvariant, NEW l \in Leads, List(l), UNCHANGED job
    PROVE  LateInvariant'
<1> DEFINE past == Cardinality(SendsPastCheck(l))
           added == IF l \in listed THEN 0 ELSE past
<1>1. ASSUME NEW k \in Leads
      PROVE  /\ SendsPastCheck(k)' = SendsPastCheck(k)
             /\ IsFiniteSet(SendsPastCheck(k)) /\ Cardinality(SendsPastCheck(k)) \in Nat
             /\ late[k] \in Nat /\ exposed[k] \in Nat /\ late[k] <= exposed[k]
             /\ k \in listed => late[k] + Cardinality(SendsPastCheck(k)) <= exposed[k]
  BY FS_CardinalityType DEF LateInvariant, LateShape, SendsAreExposed, SendsPastCheck, At
<1>2. past \in Nat /\ added \in Nat
  BY <1>1
<1>3. /\ listed' = listed \cup {l} /\ UNCHANGED late
      /\ exposed' = [exposed EXCEPT ![l] = exposed[l] + added]
  BY DEF List
<1> HIDE DEF added
<1>4. LateShape'
  BY <1>1, <1>2, <1>3 DEF LateInvariant, LateShape, JobShape
<1>5. ASSUME NEW k \in Leads
      PROVE  /\ late'[k] <= exposed'[k]
             /\ k \in listed' => late'[k] + Cardinality(SendsPastCheck(k)) <= exposed'[k]
  <2>1. CASE k = l
    <3>1. exposed'[k] = exposed[k] + added /\ late'[k] = late[k]
      BY <1>3, <2>1 DEF LateInvariant, LateShape
    <3>2. CASE l \in listed
      BY <1>1, <1>2, <2>1, <3>1, <3>2 DEF added
    <3>3. CASE l \notin listed
      BY <1>1, <1>2, <2>1, <3>1, <3>3 DEF added
    <3> QED BY <3>2, <3>3
  <2>2. CASE k # l
    <3>1. exposed'[k] = exposed[k] /\ late'[k] = late[k] /\ (k \in listed' => k \in listed)
      BY <1>3, <2>2 DEF LateInvariant, LateShape
    <3> QED BY <1>1, <3>1
  <2> QED BY <2>1, <2>2
<1> QED BY <1>1, <1>4, <1>5 DEF LateInvariant, SendsAreExposed

\* A send that reaches the provider leaves its check behind.
LEMMA HandingStep ==
    ASSUME LateInvariant, NEW j \in JobIds, j.kind = "send", Handing(j),
           JobShape', ~At(j, "send")', \A k \in JobIds : k # j => job'[k] = job[k]
    PROVE  LateInvariant'
<1> DEFINE to == j.of[2]
           more == IF to \in listed THEN 1 ELSE 0
<1>1. to \in Leads
  BY DEF JobIds, Recipients
<1>2. /\ UNCHANGED <<listed, exposed>>
      /\ late' = [late EXCEPT ![to] = late[to] + more]
  BY DEF Handing, rowVars
<1>3. At(j, "send")
  BY DEF Handing
<1>4. ASSUME NEW l \in Leads
      PROVE  /\ IsFiniteSet(SendsPastCheck(l)) /\ Cardinality(SendsPastCheck(l)) \in Nat
             /\ late[l] \in Nat /\ exposed[l] \in Nat /\ late[l] <= exposed[l]
             /\ l \in listed => late[l] + Cardinality(SendsPastCheck(l)) <= exposed[l]
  BY FS_CardinalityType DEF LateInvariant, LateShape, SendsAreExposed
<1>5. ASSUME NEW l \in Leads
      PROVE  SendsPastCheck(l)' = IF l = to THEN SendsPastCheck(l) \ {j} ELSE SendsPastCheck(l)
  BY DEF SendsPastCheck, At
<1>6. j \in SendsPastCheck(to)
  BY <1>3 DEF SendsPastCheck
<1> HIDE DEF to, more
<1>7. IsFiniteSet(SendsPastCheck(to)')
      /\ Cardinality(SendsPastCheck(to)') = Cardinality(SendsPastCheck(to)) - 1
  BY <1>1, <1>4, <1>5, <1>6, FS_RemoveElement
<1>8. LateShape'
  BY <1>1, <1>2, <1>4 DEF LateInvariant, LateShape, more
<1>9. ASSUME NEW l \in Leads
      PROVE  /\ IsFiniteSet(SendsPastCheck(l)')
             /\ late'[l] <= exposed'[l]
             /\ l \in listed' => late'[l] + Cardinality(SendsPastCheck(l)') <= exposed'[l]
  <2>1. CASE l = to
    <3>1. /\ late'[l] = late[l] + more /\ exposed'[l] = exposed[l]
          /\ (l \in listed' <=> l \in listed)
      BY <1>2, <2>1 DEF LateInvariant, LateShape
    <3>2. Cardinality(SendsPastCheck(l)') \in Nat
      BY <1>7, <2>1, FS_CardinalityType
    <3>3. CASE l \in listed
      BY <1>4, <1>7, <2>1, <3>1, <3>2, <3>3 DEF more
    <3>4. CASE l \notin listed
      BY <1>4, <1>7, <2>1, <3>1, <3>4 DEF more
    <3> QED BY <3>3, <3>4
  <2>2. CASE l # to
    <3>1. /\ late'[l] = late[l] /\ exposed'[l] = exposed[l]
          /\ (l \in listed' <=> l \in listed) /\ SendsPastCheck(l)' = SendsPastCheck(l)
      BY <1>2, <1>5, <2>2 DEF LateInvariant, LateShape
    <3> QED BY <1>4, <3>1
  <2> QED BY <2>1, <2>2
<1> QED BY <1>8, <1>9 DEF LateInvariant, SendsAreExposed

\* What people ask for changes no job; it may take an address off the list.
LEMMA RequestsAreStill ==
    ASSUME \/ CampaignRequest \/ ApprovalRequest \/ LeadRequest \/ SuppressionRequest
    PROVE  listed' \subseteq listed /\ UNCHANGED <<job, late, exposed>>
<1> USE DEF rowVars, mailHistory, campaignHistory, history
<1>1. CASE CampaignRequest
  BY <1>1 DEF CampaignRequest, ResolveTargets, TriggerGeneration, HandleStatusAction
<1>2. CASE ApprovalRequest
  BY <1>2 DEF ApprovalRequest, EditDraft, Decide
<1>3. CASE LeadRequest
  BY <1>3 DEF LeadRequest, AskSuppression, UpdateLeads, DeleteLeads
<1>4. CASE SuppressionRequest
  BY <1>4 DEF SuppressionRequest, AskSuppression, RemoveSuppression
<1> QED BY <1>1, <1>2, <1>3, <1>4

\* A handler lists an address, or adds a job, or does neither.
LEMMA HandlersAreStill ==
    ASSUME NEW h \in Handlers, HandlerStep(h)
    PROVE  \/ \E l \in Leads : List(l) /\ UNCHANGED job
           \/ /\ UNCHANGED <<listed, late, exposed>>
              /\ UNCHANGED job \/ \E id, m : job' = Added(id, m)
<1> USE DEF rowVars, mailHistory, campaignHistory, history
<1>1. ASSUME NEW r \in Recipients, SuppressRecipient(h, r)
      PROVE  \E l \in Leads : List(l) /\ UNCHANGED job
  BY <1>1 DEF SuppressRecipient, Recipients
<1>2. ASSUME NEW l \in Leads, UpsertEntry(h, l)
      PROVE  List(l) /\ UNCHANGED job
  BY <1>2 DEF UpsertEntry
<1>3. ASSUME NEW r \in Recipients, EnqueueGeneration(h, r)
      PROVE  UNCHANGED <<listed, late, exposed>> /\ \E id, m : job' = Added(id, m)
  BY <1>3 DEF EnqueueGeneration
<1>4. ASSUME NEW now \in Stamps, EnqueueRegeneration(h, now)
      PROVE  UNCHANGED <<listed, late, exposed>> /\ \E id, m : job' = Added(id, m)
  BY <1>4 DEF EnqueueRegeneration
<1>5. ASSUME EnqueueSend(h)
      PROVE  UNCHANGED <<listed, late, exposed>> /\ \E id, m : job' = Added(id, m)
  BY <1>5 DEF EnqueueSend
<1>6. ASSUME \/ CreateCampaign(h) \/ EnrolTargets(h) \/ SelectPending(h)
             \/ MarkApproved(h) \/ ApproveDraft(h)
             \/ SuppressLeadOf(h) \/ CloseRecipient(h) \/ MarkLeadsSuppressed(h)
      PROVE  UNCHANGED <<listed, late, exposed, job>>
  BY <1>6 DEF CreateCampaign, EnrolTargets, SelectPending, MarkApproved, ApproveDraft,
              SuppressLeadOf, CloseRecipient, MarkLeadsSuppressed
<1>7. ASSUME NEW r \in Recipients, CheckBeforeApproval(h, r) \/ Regenerate(h, r) \/ Skip(h, r)
      PROVE  UNCHANGED <<listed, late, exposed, job>>
  BY <1>7 DEF CheckBeforeApproval, Regenerate, Skip
<1> QED BY <1>1, <1>2, <1>3, <1>4, <1>5, <1>6, <1>7 DEF HandlerStep

LEMMA LateJobStep ==
    ASSUME LateInvariant, NEW j \in JobIds, JobStep(j)
    PROVE  LateInvariant'
<1> USE DEF rowVars, mailHistory, campaignHistory, history
<1>0. JobShape
  BY DEF LateInvariant, LateShape
<1>1. CASE Complete(j)
  <2>1. UNCHANGED <<listed, late, exposed>>
    BY <1>1 DEF Complete
  <2>2. JobShape' /\ ~At(j, "send")' /\ \A k \in JobIds : k # j => job'[k] = job[k]
    BY <1>0, <1>1, CompleteMoves DEF At
  <2> QED BY <2>1, <2>2, QuietStep DEF At
<1>2. ASSUME j \in GenerationIds, GenerationStep(j) PROVE LateInvariant'
  <2>1. CASE GenerationFails(j)
    BY <1>0, <2>1, FailMoves, QuietStep DEF GenerationFails, At
  <2>2. CASE ~GenerationFails(j)
    <3>1. PICK step \in {"draft", "mark", "count", "release", "done"} : Advance(j, step)
      BY <1>2, <2>2 DEF GenerationStep, StartGeneration, WriteDraft, MarkReady,
                        CountPending, ReleaseCampaign
    <3>2. UNCHANGED <<listed, late, exposed>>
      BY <1>2, <2>2 DEF GenerationStep, StartGeneration, WriteDraft, MarkReady,
                        CountPending, ReleaseCampaign
    <3>3. step # "send"
      OBVIOUS
    <3> QED BY <1>0, <3>1, <3>2, <3>3, AdvanceMoves, QuietStep DEF At
  <2> QED BY <2>1, <2>2
<1>3. ASSUME j \notin GenerationIds, SendStep(j) PROVE LateInvariant'
  <2>0. j.kind = "send"
    BY <1>3 DEF GenerationIds
  <2>1. CASE StartSend(j)
    <3>1. UNCHANGED <<listed, late, exposed>>
      BY <2>1 DEF StartSend
    <3> QED BY <1>0, <2>1, <3>1, StartMoves, QuietStep DEF At
  <2>2. CASE HandOff(j)
    BY <1>0, <2>0, <2>2, AdvanceMoves, HandingStep DEF HandOff, At
  <2>3. CASE HandOffTimesOut(j)
    BY <1>0, <2>0, <2>3, FailMoves, HandingStep DEF HandOffTimesOut, At
  <2>4. CASE HandOffRefused(j)
    BY <1>0, <2>4, FailMoves, QuietStep DEF HandOffRefused, At
  <2>5. CASE \/ RefuseSend(j) \/ SuppressTarget(j) \/ RecordSent(j)
             \/ AttributeSent(j) \/ MarkContacted(j)
    <3>1. PICK step \in {"suppress", "refused", "done", "attribute", "contact"} : Advance(j, step)
      BY <2>5 DEF RefuseSend, SuppressTarget, RecordSent, AttributeSent, MarkContacted
    <3>2. UNCHANGED <<listed, late, exposed>>
      BY <2>5 DEF RefuseSend, SuppressTarget, RecordSent, AttributeSent, MarkContacted
    <3>3. step # "send"
      OBVIOUS
    <3> QED BY <1>0, <3>1, <3>2, <3>3, AdvanceMoves, QuietStep DEF At
  <2> QED BY <1>3, <2>1, <2>2, <2>3, <2>4, <2>5 DEF SendStep
<1> QED BY <1>1, <1>2, <1>3 DEF JobStep

LEMMA LateStep ==
    ASSUME LateInvariant, [Next]_vars
    PROVE  LateInvariant'
<1> USE DEF rowVars, mailHistory, campaignHistory, history
<1>0. JobShape
  BY DEF LateInvariant, LateShape
<1>1. ASSUME listed' \subseteq listed, UNCHANGED <<job, late, exposed>> PROVE LateInvariant'
  <2>1. JobShape' /\ \A k \in JobIds : At(k, "send")' => At(k, "send")
    BY <1>0, <1>1 DEF JobShape, At
  <2> QED BY <1>1, <2>1, StillStep
<1>2. CASE \/ CampaignRequest \/ ApprovalRequest \/ LeadRequest \/ SuppressionRequest
  BY <1>1, <1>2, RequestsAreStill
<1>3. ASSUME NEW h \in Handlers, HandlerStep(h) PROVE LateInvariant'
  <2>1. ASSUME NEW id, NEW m, job' = Added(id, m), UNCHANGED <<listed, late, exposed>>
        PROVE  LateInvariant'
    <3>1. JobShape' /\ \A k \in JobIds : At(k, "send")' => At(k, "send")
      BY <1>0, <2>1, AddMoves DEF At
    <3> QED BY <2>1, <3>1, StillStep
  <2> QED BY <1>1, <1>3, <2>1, HandlersAreStill, ListStep
<1>4. ASSUME NEW j \in JobIds, JobStep(j) PROVE LateInvariant'
  BY <1>4, LateJobStep
<1>5. CASE WorkerCrash
  <2>1. JobShape' /\ \A k \in JobIds : At(k, "send")' => At(k, "send")
    BY <1>0, <1>5, CrashMoves DEF At
  <2> QED BY <1>5, <2>1, StillStep DEF WorkerCrash
<1>6. CASE ApiCrash
  BY <1>1, <1>6 DEF ApiCrash
<1>7. CASE UNCHANGED vars
  BY <1>1, <1>7 DEF vars
<1> QED BY <1>2, <1>3, <1>4, <1>5, <1>6, <1>7 DEF Next

\* A listed address gets no mail but those whose check came before the listing,
\* each once, whatever crashes, retries and lists or unlists it in between
\* (email-send.processor:74).
THEOREM ListedAreMailedNoMore == Spec => []LateMailsAreBounded
<1>1. LateInvariant => LateMailsAreBounded
  BY DEF LateInvariant, SendsAreExposed, LateMailsAreBounded
<1> QED BY LateStarts, LateStep, <1>1, PTL DEF Spec

-----------------------------------------------------------------------------
(* Handlers *)

HandlerShape ==
    /\ handler = [h \in Handlers |-> handler[h]]
    /\ \A h \in Handlers : {"at", "op", "of", "msg", "todo", "all"} \subseteq DOMAIN handler[h]

LEMMA WorkingMoves ==
    ASSUME HandlerShape, NEW h \in Handlers, NEW at, NEW r, NEW m, Working(h, at, r, m)
    PROVE  /\ HandlerShape'
           /\ handler'[h].at = at /\ handler'[h].of = r /\ handler'[h].op = handler[h].op
           /\ handler'[h].todo = handler[h].todo \ {r} /\ handler'[h].msg = m
           /\ \A k \in Handlers : k # h => handler'[k] = handler[k]
<1> DEFINE new == [handler[h] EXCEPT !.at = at, !.of = r, !.msg = m,
                                     !.todo = handler[h].todo \ {r}]
<1>1. /\ {"at", "op", "of", "msg", "todo", "all"} \subseteq DOMAIN new
      /\ new.at = at /\ new.of = r /\ new.op = handler[h].op
      /\ new.todo = handler[h].todo \ {r} /\ new.msg = m
  BY DEF HandlerShape
<1>2. handler' = [handler EXCEPT ![h] = new]
  BY DEF Working, HandlerShape
<1> HIDE DEF new
<1> QED BY <1>1, <1>2 DEF HandlerShape

LEMMA ReturnMoves ==
    ASSUME HandlerShape, NEW h \in Handlers, Return(h)
    PROVE  /\ HandlerShape' /\ handler'[h] = Idle
           /\ \A k \in Handlers : k # h => handler'[k] = handler[k]
<1>1. {"at", "op", "of", "msg", "todo", "all"} \subseteq DOMAIN Idle
  BY DEF Idle
<1> QED BY <1>1 DEF Return, HandlerShape

LEMMA GotoMoves ==
    ASSUME HandlerShape, NEW h \in Handlers, NEW at, Goto(h, at)
    PROVE  /\ HandlerShape'
           /\ handler'[h].at = at /\ handler'[h].of = handler[h].of
           /\ handler'[h].op = handler[h].op /\ handler'[h].todo = handler[h].todo
           /\ handler'[h].msg = handler[h].msg
           /\ \A k \in Handlers : k # h => handler'[k] = handler[k]
<1> DEFINE new == [handler[h] EXCEPT !.at = at]
<1>1. /\ {"at", "op", "of", "msg", "todo", "all"} \subseteq DOMAIN new
      /\ new.at = at /\ new.of = handler[h].of /\ new.op = handler[h].op
      /\ new.todo = handler[h].todo /\ new.msg = handler[h].msg
  BY DEF HandlerShape
<1>2. handler' = [handler EXCEPT ![h] = new]
  BY DEF Goto, HandlerShape
<1> HIDE DEF new
<1> QED BY <1>1, <1>2 DEF HandlerShape

TakeUp(h, at, todo) == handler' = [handler EXCEPT ![h].at = at, ![h].todo = todo]

LEMMA TodoMoves ==
    ASSUME HandlerShape, NEW h \in Handlers, NEW at, NEW todo, TakeUp(h, at, todo)
    PROVE  /\ HandlerShape'
           /\ handler'[h].at = at /\ handler'[h].of = handler[h].of
           /\ handler'[h].op = handler[h].op /\ handler'[h].todo = todo
           /\ \A k \in Handlers : k # h => handler'[k] = handler[k]
<1> DEFINE new == [handler[h] EXCEPT !.at = at, !.todo = todo]
<1>1. /\ {"at", "op", "of", "msg", "todo", "all"} \subseteq DOMAIN new
      /\ new.at = at /\ new.of = handler[h].of /\ new.op = handler[h].op
      /\ new.todo = todo
  BY DEF HandlerShape
<1>2. handler' = [handler EXCEPT ![h] = new]
  BY DEF TakeUp, HandlerShape
<1> HIDE DEF new
<1> QED BY <1>1, <1>2 DEF HandlerShape

LEMMA AfterActionMoves ==
    ASSUME HandlerShape, NEW h \in Handlers, NEW todo, AfterAction(h, todo)
    PROVE  /\ HandlerShape'
           /\ \/ handler'[h] = Idle
              \/ /\ handler'[h].at = "next" /\ handler'[h].op = handler[h].op
                 /\ handler'[h].todo = todo
           /\ \A k \in Handlers : k # h => handler'[k] = handler[k]
<1> DEFINE new == IF todo = {} THEN Idle
                  ELSE [handler[h] EXCEPT !.at = "next", !.of = None, !.msg = None,
                                          !.todo = todo]
<1>1. /\ {"at", "op", "of", "msg", "todo", "all"} \subseteq DOMAIN new
      /\ \/ new = Idle
         \/ new.at = "next" /\ new.op = handler[h].op /\ new.todo = todo
  BY DEF HandlerShape, Idle
<1>2. handler' = [handler EXCEPT ![h] = new]
  BY DEF AfterAction, HandlerShape
<1> HIDE DEF new
<1> QED BY <1>1, <1>2 DEF HandlerShape

LEMMA ServeMoves ==
    ASSUME HandlerShape, NEW h \in Handlers, NEW op, NEW at, NEW of, NEW todo,
           Serve(h, op, at, of, todo)
    PROVE  /\ HandlerShape' /\ handler[h] = Idle
           /\ handler'[h].at = at /\ handler'[h].op = op /\ handler'[h].of = of
           /\ handler'[h].todo = todo
           /\ \A k \in Handlers : k # h => handler'[k] = handler[k]
<1> DEFINE new == [Idle EXCEPT !.at = at, !.op = op, !.of = of, !.todo = todo,
                        !.all = IF op = "suppress" THEN todo ELSE {}]
<1>1. /\ {"at", "op", "of", "msg", "todo", "all"} \subseteq DOMAIN new
      /\ new.at = at /\ new.op = op /\ new.of = of /\ new.todo = todo
  BY DEF Idle
<1>2. handler' = [handler EXCEPT ![h] = new] /\ handler[h] = Idle
  BY DEF Serve
<1> HIDE DEF new
<1> QED BY <1>1, <1>2 DEF HandlerShape

-----------------------------------------------------------------------------
(* Approvals *)

ApprovalShape ==
    /\ JobShape /\ HandlerShape
    /\ recipient = [r \in Recipients |-> recipient[r]]

ApprovalInvariant == ApprovalShape /\ ApprovalIsNotDropped

\* The steps of a request that approved a recipient and has its job still to queue.
Queueing == {"approveDraft", "dispatch"}

LEMMA SendIdIsOne ==
    ASSUME NEW r \in Recipients
    PROVE  /\ SendId(r) \in JobIds /\ SendId(r).of = r /\ SendId(r).kind = "send"
           /\ \A j \in JobIds : j.kind = "send" /\ j.of = r => j = SendId(r)
  BY DEF SendId, JobIds

LEMMA ApprovalStarts == Init => ApprovalInvariant
  BY DEF Init, ApprovalInvariant, ApprovalShape, ApprovalIsNotDropped, JobShape,
         HandlerShape, NoJob, Idle

\* A step that approves nobody, ends no job and cuts no request that is about to
\* queue one.
LEMMA ApprovalKept ==
    ASSUME ApprovalInvariant, ApprovalShape',
           \A r \in Recipients : recipient'[r] = "APPROVED" => recipient[r] = "APPROVED",
           \A j \in JobIds : job[j].state # "absent" => job'[j].state # "absent",
           dropped \subseteq dropped', answered \subseteq answered',
           \A h \in Handlers :
              handler[h].at \in Queueing =>
                 handler'[h].at \in Queueing /\ handler'[h].of = handler[h].of
    PROVE  ApprovalInvariant'
  BY SendIdIsOne DEF ApprovalInvariant, ApprovalIsNotDropped, Queueing

\* No recipient becomes APPROVED, and none of them goes.
NoneApproved ==
    /\ recipient' = [r \in Recipients |-> recipient'[r]]
    /\ \A r \in Recipients : recipient'[r] = "APPROVED" => recipient[r] = "APPROVED"

LEMMA SetOther ==
    ASSUME ApprovalShape, NEW r, NEW status, status # "APPROVED", SetRecipient(r, status)
    PROVE  NoneApproved
  BY DEF SetRecipient, NoneApproved, ApprovalShape

\* A step of one handler that is not about to queue a job.
LEMMA HandlerKept ==
    ASSUME ApprovalInvariant, NEW h \in Handlers, HandlerShape',
           handler[h].at \notin Queueing,
           \A k \in Handlers : k # h => handler'[k] = handler[k],
           NoneApproved, JobShape',
           \A j \in JobIds : job[j].state # "absent" => job'[j].state # "absent",
           UNCHANGED <<dropped, answered>>
    PROVE  ApprovalInvariant'
  BY ApprovalKept DEF ApprovalShape, NoneApproved

\* A step that touches neither recipients nor handlers nor jobs.
LEMMA ApprovalUntouched ==
    ASSUME ApprovalInvariant, UNCHANGED <<recipient, handler, job, dropped, answered>>
    PROVE  ApprovalInvariant'
  BY DEF ApprovalInvariant, ApprovalShape, JobShape, HandlerShape, ApprovalIsNotDropped

LEMMA ApprovalRequests ==
    ASSUME ApprovalInvariant,
           \/ CampaignRequest \/ ApprovalRequest \/ LeadRequest \/ SuppressionRequest
    PROVE  ApprovalInvariant'
<1> USE DEF rowVars, mailHistory, campaignHistory, history
<1>0. ApprovalShape /\ JobShape /\ HandlerShape
  BY DEF ApprovalInvariant, ApprovalShape
<1>1. ASSUME NEW h \in Handlers, NEW op, NEW at, NEW of, NEW todo,
             Serve(h, op, at, of, todo), UNCHANGED <<recipient, job, dropped, answered>>
      PROVE  ApprovalInvariant'
  <2>1. NoneApproved /\ JobShape'
    BY <1>0, <1>1 DEF NoneApproved, ApprovalShape, JobShape
  <2>2. handler[h].at \notin Queueing
    BY <1>1 DEF Serve, Idle, Queueing
  <2> QED BY <1>0, <1>1, <2>1, <2>2, ServeMoves, HandlerKept
<1>2. ASSUME NEW h \in Handlers, NEW c, NEW by, NEW named, ResolveTargets(h, c, by, named)
      PROVE  ApprovalInvariant'
  BY <1>1, <1>2 DEF ResolveTargets
<1>3. ASSUME NEW h \in Handlers, NEW c, TriggerGeneration(h, c) PROVE ApprovalInvariant'
  BY <1>1, <1>3 DEF TriggerGeneration
<1>4. ASSUME NEW h \in Handlers, NEW action, NEW rs, Decide(h, action, rs)
      PROVE  ApprovalInvariant'
  BY <1>1, <1>4 DEF Decide
<1>5. ASSUME NEW h \in Handlers, NEW ls, AskSuppression(h, ls) PROVE ApprovalInvariant'
  BY <1>1, <1>5 DEF AskSuppression
<1>6. CASE CampaignRequest
  BY <1>2, <1>3, <1>6, ApprovalUntouched DEF CampaignRequest, HandleStatusAction
<1>7. CASE ApprovalRequest
  BY <1>4, <1>7, ApprovalUntouched DEF ApprovalRequest, EditDraft
<1>8. CASE LeadRequest
  BY <1>5, <1>8, ApprovalUntouched DEF LeadRequest, UpdateLeads, DeleteLeads
<1>9. CASE SuppressionRequest
  BY <1>5, <1>9, ApprovalUntouched DEF SuppressionRequest, RemoveSuppression
<1> QED BY <1>6, <1>7, <1>8, <1>9

LEMMA ApprovalHandlerStep ==
    ASSUME ApprovalInvariant, NEW h \in Handlers, HandlerStep(h)
    PROVE  ApprovalInvariant'
<1> USE DEF rowVars, mailHistory, campaignHistory, history
<1>0. ApprovalShape /\ JobShape /\ HandlerShape
  BY DEF ApprovalInvariant, ApprovalShape
<1>a. ASSUME UNCHANGED recipient PROVE NoneApproved
  BY <1>0, <1>a DEF NoneApproved, ApprovalShape
<1>j. ASSUME UNCHANGED job
      PROVE  /\ JobShape'
             /\ \A j \in JobIds : job[j].state # "absent" => job'[j].state # "absent"
  BY <1>0, <1>j DEF JobShape
<1>k. ASSUME NEW id, NEW m, job' = Added(id, m)
      PROVE  /\ JobShape'
             /\ \A j \in JobIds : job[j].state # "absent" => job'[j].state # "absent"
  BY <1>0, <1>k, AddMoves
<1>1. CASE CreateCampaign(h)
  <2>1. /\ HandlerShape' /\ handler[h].at \notin Queueing
        /\ \A k \in Handlers : k # h => handler'[k] = handler[k]
    BY <1>0, <1>1 DEF CreateCampaign, OnStep, Queueing, HandlerShape
  <2> QED BY <1>1, <1>a, <1>j, <2>1, HandlerKept DEF CreateCampaign
<1>2. CASE EnrolTargets(h)
  <2>1. handler[h].at \notin Queueing /\ Return(h) /\ UNCHANGED <<job, dropped, answered>>
    BY <1>2 DEF EnrolTargets, OnStep, Queueing
  <2>2. NoneApproved
    BY <1>2 DEF EnrolTargets, NoneApproved
  <2> QED BY <1>0, <1>j, <2>1, <2>2, ReturnMoves, HandlerKept
<1>3. CASE SelectPending(h)
  <2>1. /\ handler[h].at \notin Queueing
        /\ UNCHANGED <<recipient, job, dropped, answered>>
    BY <1>3 DEF SelectPending, OnStep, Queueing
  <2>2. \/ Return(h)
        \/ \E todo : handler' = [handler EXCEPT ![h].at = "enqueue", ![h].todo = todo]
    BY <1>3 DEF SelectPending
  <2>3. /\ HandlerShape'
        /\ \A k \in Handlers : k # h => handler'[k] = handler[k]
    BY <1>0, <2>2, ReturnMoves DEF HandlerShape
  <2> QED BY <1>a, <1>j, <2>1, <2>3, HandlerKept
<1>4. CASE MarkApproved(h)
  <2>1. /\ recipient' = [recipient EXCEPT ![handler[h].of] = "APPROVED"]
        /\ handler[h].at \notin Queueing /\ UNCHANGED <<job, dropped, answered>>
    BY <1>4 DEF MarkApproved, SetRecipient, OnStep, Queueing
  <2>2. PICK at \in Queueing : Goto(h, at)
    BY <1>4 DEF MarkApproved, Queueing
  <2>3. /\ HandlerShape' /\ handler'[h].at \in Queueing /\ handler'[h].of = handler[h].of
        /\ \A k \in Handlers : k # h => handler'[k] = handler[k]
    BY <1>0, <2>2, GotoMoves
  <2>4. /\ recipient' = [r \in Recipients |-> recipient'[r]]
        /\ \A r \in Recipients : r # handler[h].of => recipient'[r] = recipient[r]
    BY <1>0, <2>1 DEF ApprovalShape
  <2>5. ApprovalIsNotDropped'
    BY <2>1, <2>3, <2>4 DEF ApprovalInvariant, ApprovalIsNotDropped, Queueing
  <2> QED BY <1>j, <2>1, <2>3, <2>4, <2>5 DEF ApprovalInvariant, ApprovalShape
<1>5. CASE ApproveDraft(h)
  <2>1. Goto(h, "dispatch") /\ UNCHANGED <<recipient, job, dropped, answered>>
    BY <1>5 DEF ApproveDraft
  <2>2. /\ HandlerShape' /\ handler'[h].at = "dispatch" /\ handler'[h].of = handler[h].of
        /\ \A k \in Handlers : k # h => handler'[k] = handler[k]
    BY <1>0, <2>1, GotoMoves
  <2>3. \A k \in Handlers : handler[k].at \in Queueing =>
           handler'[k].at \in Queueing /\ handler'[k].of = handler[k].of
    BY <2>2 DEF Queueing
  <2>4. ApprovalShape'
    BY <1>0, <1>j, <2>1, <2>2 DEF ApprovalShape
  <2> QED BY <1>j, <2>1, <2>3, <2>4, ApprovalKept
<1>6. CASE EnqueueSend(h)
  <2> DEFINE of == handler[h].of
  <2>1. /\ job' = Added(SendId(of), handler[h].msg)
        /\ AfterAction(h, handler[h].todo) /\ UNCHANGED <<recipient, dropped, answered>>
    BY <1>6 DEF EnqueueSend
  <2>2. /\ HandlerShape'
        /\ \A k \in Handlers : k # h => handler'[k] = handler[k]
    BY <1>0, <2>1, AfterActionMoves
  <2>3. of \in Recipients => job'[SendId(of)].state # "absent"
    BY <1>0, <2>1, AddMoves, SendIdIsOne
  <2>4. /\ JobShape'
        /\ \A j \in JobIds : job[j].state # "absent" => job'[j].state # "absent"
    BY <1>k, <2>1
  <2>5. ApprovalShape'
    BY <1>0, <2>1, <2>2, <2>4 DEF ApprovalShape
  <2>6. ASSUME NEW r \in Recipients, recipient'[r] = "APPROVED"
        PROVE  \/ \E k \in Handlers : handler'[k].of = r /\ handler'[k].at \in Queueing
               \/ job'[SendId(r)].state # "absent"
               \/ r \in dropped' \cup answered'
    <3>1. \/ \E k \in Handlers : handler[k].of = r /\ handler[k].at \in Queueing
          \/ job[SendId(r)].state # "absent"
          \/ r \in dropped \cup answered
      BY <2>1, <2>6 DEF ApprovalInvariant, ApprovalIsNotDropped, Queueing
    <3> QED BY <2>1, <2>2, <2>3, <2>4, <3>1, SendIdIsOne
  <2>7. ApprovalIsNotDropped'
    BY <2>6 DEF ApprovalIsNotDropped, Queueing
  <2> QED BY <2>5, <2>7 DEF ApprovalInvariant
<1>7. CASE SuppressLeadOf(h)
  <2>1. handler[h].at \notin Queueing /\ Goto(h, "suppressRecipient")
        /\ UNCHANGED <<recipient, job, dropped, answered>>
    BY <1>7 DEF SuppressLeadOf, OnStep, Queueing
  <2> QED BY <1>0, <1>a, <1>j, <2>1, GotoMoves, HandlerKept
<1>8. CASE CloseRecipient(h)
  <2>1. /\ handler[h].at \notin Queueing /\ AfterAction(h, handler[h].todo)
        /\ SetRecipient(handler[h].of, "SUPPRESSED") /\ UNCHANGED <<job, dropped, answered>>
    BY <1>8 DEF CloseRecipient, OnStep, Queueing
  <2>2. NoneApproved
    BY <1>0, <2>1, SetOther
  <2> QED BY <1>0, <1>j, <2>1, <2>2, AfterActionMoves, HandlerKept
<1>9. CASE MarkLeadsSuppressed(h)
  <2>1. handler[h].at \notin Queueing /\ Return(h)
        /\ UNCHANGED <<recipient, job, dropped, answered>>
    BY <1>9 DEF MarkLeadsSuppressed, OnStep, Queueing
  <2> QED BY <1>0, <1>a, <1>j, <2>1, ReturnMoves, HandlerKept
<1>10. ASSUME NEW r \in Recipients, EnqueueGeneration(h, r) PROVE ApprovalInvariant'
  <2>1. handler[h].at \notin Queueing /\ (\E id, m : job' = Added(id, m))
        /\ UNCHANGED <<recipient, dropped, answered>>
    BY <1>10 DEF EnqueueGeneration, OnStep, Queueing
  <2>2. Return(h) \/ \E todo : handler' = [handler EXCEPT ![h].todo = todo]
    BY <1>10 DEF EnqueueGeneration
  <2>3. /\ HandlerShape'
        /\ \A k \in Handlers : k # h => handler'[k] = handler[k]
    BY <1>0, <2>2, ReturnMoves DEF HandlerShape
  <2> QED BY <1>a, <1>k, <2>1, <2>3, HandlerKept
<1>11. ASSUME NEW r \in Recipients, CheckBeforeApproval(h, r) PROVE ApprovalInvariant'
  <2>1. handler[h].at \notin Queueing /\ UNCHANGED <<recipient, job, dropped, answered>>
    BY <1>11 DEF CheckBeforeApproval, Taking, OnStep, Queueing
  <2>2. AfterAction(h, handler[h].todo \ {r}) \/ \E m : Working(h, "approve", r, m)
    BY <1>11 DEF CheckBeforeApproval
  <2>3. /\ HandlerShape'
        /\ \A k \in Handlers : k # h => handler'[k] = handler[k]
    BY <1>0, <2>2, AfterActionMoves, WorkingMoves
  <2> QED BY <1>a, <1>j, <2>1, <2>3, HandlerKept
<1>12. ASSUME NEW r \in Recipients, Regenerate(h, r) PROVE ApprovalInvariant'
  <2>1. /\ handler[h].at \notin Queueing /\ UNCHANGED <<job, dropped, answered>>
        /\ SetRecipient(r, "PENDING") /\ Working(h, "regenerate", r, None)
    BY <1>12 DEF Regenerate, Taking, OnStep, Queueing
  <2>2. NoneApproved
    BY <1>0, <2>1, SetOther
  <2> QED BY <1>0, <1>j, <2>1, <2>2, WorkingMoves, HandlerKept
<1>13. ASSUME NEW r \in Recipients, Skip(h, r) PROVE ApprovalInvariant'
  <2>1. /\ handler[h].at \notin Queueing /\ UNCHANGED <<job, dropped, answered>>
        /\ SetRecipient(r, "CANCELLED") /\ AfterAction(h, handler[h].todo \ {r})
    BY <1>13 DEF Skip, Taking, OnStep, Queueing
  <2>2. NoneApproved
    BY <1>0, <2>1, SetOther
  <2> QED BY <1>0, <1>j, <2>1, <2>2, AfterActionMoves, HandlerKept
<1>14. ASSUME NEW r \in Recipients, SuppressRecipient(h, r) PROVE ApprovalInvariant'
  <2>1. /\ handler[h].at \notin Queueing /\ UNCHANGED <<recipient, job, dropped, answered>>
        /\ Working(h, "suppressLead", r, None)
    BY <1>14 DEF SuppressRecipient, Taking, OnStep, Queueing
  <2> QED BY <1>0, <1>a, <1>j, <2>1, WorkingMoves, HandlerKept
<1>15. ASSUME NEW l \in Leads, UpsertEntry(h, l) PROVE ApprovalInvariant'
  <2>1. handler[h].at \notin Queueing /\ UNCHANGED <<recipient, job, dropped, answered>>
    BY <1>15 DEF UpsertEntry, OnStep, Queueing
  <2>2. \E todo, at : handler' = [handler EXCEPT ![h].todo = todo, ![h].at = at]
    BY <1>15 DEF UpsertEntry
  <2>3. /\ HandlerShape'
        /\ \A k \in Handlers : k # h => handler'[k] = handler[k]
    BY <1>0, <2>2 DEF HandlerShape
  <2> QED BY <1>a, <1>j, <2>1, <2>3, HandlerKept
<1>16. ASSUME NEW now \in Stamps, EnqueueRegeneration(h, now) PROVE ApprovalInvariant'
  <2>1. /\ handler[h].at \notin Queueing /\ (\E id, m : job' = Added(id, m))
        /\ AfterAction(h, handler[h].todo) /\ UNCHANGED <<recipient, dropped, answered>>
    BY <1>16 DEF EnqueueRegeneration, OnStep, Queueing
  <2> QED BY <1>0, <1>a, <1>k, <2>1, AfterActionMoves, HandlerKept
<1> QED
  BY <1>1, <1>2, <1>3, <1>4, <1>5, <1>6, <1>7, <1>8, <1>9, <1>10, <1>11, <1>12, <1>13,
     <1>14, <1>15, <1>16 DEF HandlerStep

\* A job's step ends no job but its own, and approves nobody.
LEMMA ApprovalJobStep ==
    ASSUME ApprovalInvariant, NEW j \in JobIds, JobStep(j)
    PROVE  ApprovalInvariant'
<1> USE DEF rowVars, mailHistory, campaignHistory, history
<1>0. ApprovalShape /\ JobShape /\ HandlerShape
  BY DEF ApprovalInvariant, ApprovalShape
<1>a. ASSUME UNCHANGED recipient PROVE NoneApproved
  BY <1>0, <1>a DEF NoneApproved, ApprovalShape
<1>b. ASSUME UNCHANGED <<handler, dropped, answered>>, NoneApproved, JobShape',
             job'[j].state # "absent", \A k \in JobIds : k # j => job'[k] = job[k]
      PROVE  ApprovalInvariant'
  <2>1. ApprovalShape'
    BY <1>0, <1>b DEF ApprovalShape, HandlerShape, NoneApproved
  <2> QED BY <1>b, <2>1, ApprovalKept DEF NoneApproved
<1>1. CASE Complete(j)
  <2>1. /\ JobShape' /\ \A k \in JobIds : k # j => job'[k] = job[k]
        /\ UNCHANGED <<recipient, handler, dropped>>
        /\ answered \subseteq answered' /\ (j.kind = "send" => j.of \in answered')
    BY <1>0, <1>1, CompleteMoves DEF Complete
  <2>2. ApprovalShape'
    BY <1>0, <2>1 DEF ApprovalShape, HandlerShape
  <2>3. ASSUME NEW r \in Recipients, recipient[r] = "APPROVED"
        PROVE  \/ \E h \in Handlers : handler[h].of = r /\ handler[h].at \in Queueing
               \/ job'[SendId(r)].state # "absent"
               \/ r \in dropped \cup answered'
    <3>1. SendId(r) = j => r \in answered'
      BY <2>1, SendIdIsOne
    <3>2. SendId(r) # j => job'[SendId(r)] = job[SendId(r)]
      BY <2>1, SendIdIsOne
    <3> QED BY <2>1, <2>3, <3>1, <3>2
            DEF ApprovalInvariant, ApprovalIsNotDropped, Queueing
  <2> QED BY <2>1, <2>2, <2>3 DEF ApprovalInvariant, ApprovalIsNotDropped, Queueing
<1>2. CASE Fail(j) /\ UNCHANGED <<recipient, handler, dropped, answered>>
  BY <1>0, <1>2, <1>a, <1>b, FailMoves
<1>3. ASSUME NEW step, Advance(j, step), NoneApproved,
             UNCHANGED <<handler, dropped, answered>>
      PROVE  ApprovalInvariant'
  BY <1>0, <1>3, <1>b, AdvanceMoves
<1>4. ASSUME GenerationStep(j) PROVE ApprovalInvariant'
  <2>1. CASE MarkReady(j)
    <3>1. NoneApproved
      BY <1>0, <2>1, SetOther DEF MarkReady
    <3> QED BY <1>3, <2>1, <3>1 DEF MarkReady
  <2>2. CASE StartGeneration(j) \/ CountPending(j) \/ ReleaseCampaign(j)
    BY <1>3, <1>a, <2>2 DEF StartGeneration, CountPending, ReleaseCampaign
  <2>3. CASE \E m \in Messages : WriteDraft(j, m)
    BY <1>3, <1>a, <2>3 DEF WriteDraft
  <2>4. CASE GenerationFails(j)
    BY <1>2, <2>4 DEF GenerationFails
  <2> QED BY <1>4, <2>1, <2>2, <2>3, <2>4 DEF GenerationStep
<1>5. ASSUME SendStep(j) PROVE ApprovalInvariant'
  <2>1. CASE StartSend(j)
    <3>1. UNCHANGED <<recipient, handler, dropped, answered>>
      BY <2>1 DEF StartSend
    <3>2. /\ JobShape' /\ job'[j].state # "absent"
          /\ \A k \in JobIds : k # j => job'[k] = job[k]
      BY <1>0, <2>1, StartMoves
    <3> QED BY <1>a, <1>b, <3>1, <3>2
  <2>2. CASE SuppressTarget(j)
    <3>1. NoneApproved
      BY <1>0, <2>2, SetOther DEF SuppressTarget
    <3> QED BY <1>3, <2>2, <3>1 DEF SuppressTarget
  <2>3. CASE AttributeSent(j)
    <3>1. NoneApproved
      BY <1>0, <2>3, SetOther DEF AttributeSent
    <3> QED BY <1>3, <2>3, <3>1 DEF AttributeSent
  <2>4. CASE RefuseSend(j) \/ RecordSent(j) \/ MarkContacted(j) \/ HandOff(j)
    BY <1>3, <1>a, <2>4 DEF RefuseSend, RecordSent, MarkContacted, HandOff, Handing
  <2>5. CASE HandOffTimesOut(j) \/ HandOffRefused(j)
    BY <1>2, <2>5 DEF HandOffTimesOut, HandOffRefused, Handing
  <2> QED BY <1>5, <2>1, <2>2, <2>3, <2>4, <2>5 DEF SendStep
<1> QED BY <1>1, <1>4, <1>5 DEF JobStep

LEMMA ApprovalStep ==
    ASSUME ApprovalInvariant, [Next]_vars
    PROVE  ApprovalInvariant'
<1> USE DEF rowVars, mailHistory, campaignHistory, history
<1>0. ApprovalShape /\ JobShape /\ HandlerShape
  BY DEF ApprovalInvariant, ApprovalShape
<1>1. CASE WorkerCrash
  <2>1. /\ JobShape'
        /\ \A j \in JobIds : job[j].state # "absent" => job'[j].state # "absent"
    BY <1>0, <1>1, CrashMoves
  <2>2. UNCHANGED <<recipient, handler, dropped, answered>>
    BY <1>1 DEF WorkerCrash
  <2>3. ApprovalShape'
    BY <1>0, <2>1, <2>2 DEF ApprovalShape, HandlerShape
  <2> QED BY <2>1, <2>2, <2>3, ApprovalKept
<1>2. CASE ApiCrash
  <2>1. /\ handler' = [h \in Handlers |-> Idle] /\ UNCHANGED <<recipient, job, answered>>
        /\ dropped' = dropped \cup {handler[h].of : h \in
                         {k \in Handlers : handler[k].at \in Queueing}}
    BY <1>2 DEF ApiCrash, Queueing
  <2>2. ApprovalShape'
    BY <1>0, <2>1 DEF ApprovalShape, HandlerShape, JobShape, Idle
  <2>3. ASSUME NEW r \in Recipients, recipient[r] = "APPROVED"
        PROVE  job[SendId(r)].state # "absent" \/ r \in dropped' \cup answered
    BY <2>1, <2>3 DEF ApprovalInvariant, ApprovalIsNotDropped, Queueing
  <2> QED BY <2>1, <2>2, <2>3 DEF ApprovalInvariant, ApprovalIsNotDropped
<1>3. CASE UNCHANGED vars
  BY <1>3, ApprovalUntouched DEF vars
<1> QED
  BY <1>1, <1>2, <1>3, ApprovalRequests, ApprovalHandlerStep, ApprovalJobStep DEF Next

\* An approval is never lost but with the API that served it: the add that is
\* ignored leaves the job of an earlier approval, for any number of approvals, jobs
\* and crashes (approval.service:133-157).
THEOREM ApprovalsAreNotDropped == Spec => []ApprovalIsNotDropped
<1>1. ApprovalInvariant => ApprovalIsNotDropped
  BY DEF ApprovalInvariant
<1> QED BY ApprovalStarts, ApprovalStep, <1>1, PTL DEF Spec

-----------------------------------------------------------------------------
(* Leads a campaign takes by itself *)

\* The steps of a request that creates a campaign, and of one on a recipient.
Creation == {"verify", "enrol"}
Decision == {"approve", "approveDraft", "dispatch", "regenerate",
             "suppressLead", "suppressRecipient"}

FreshShape ==
    /\ JobShape
    /\ HandlerShape
    /\ recipient = [r \in Recipients |-> recipient[r]]
    /\ campaign = [c \in Campaigns |-> campaign[c]]
    /\ before = [c \in Campaigns |-> before[c]]
    /\ \A c \in Campaigns : before[c] \subseteq Campaigns
    /\ open \subseteq Campaigns

\* What a handler has in hand are campaigns it creates or recipients that exist.
HandlerFits(h) ==
    /\ handler[h].at = "idle" => handler[h].of = None
    /\ handler[h].at # "idle" =>
          (handler[h].op = "create" <=> handler[h].at \in Creation)
    /\ handler[h].at \in Creation => handler[h].of \in Campaigns
    /\ handler[h].at = "enrol" => Exists(handler[h].of)
    /\ handler[h].at \in Decision => handler[h].of \in Present
    /\ handler[h].at \in Decision \cup {"next", "enqueue"} => handler[h].todo \subseteq Present

Busy(j) == job[j].state # "absent"

AllFit ==
    /\ \A h \in Handlers : HandlerFits(h)
    /\ \A j \in JobIds : Busy(j) => j.of \in Present
    /\ \A r \in Present : Exists(r[1])

\* The campaigns before one stay as they are, and what it is about to take is new
\* to them.
BeforeIsClosed ==
    \A c, d \in Campaigns :
        d \in before[c] => c # d /\ Exists(d) /\ ~Creating(d)

TargetsAreFresh ==
    \A h \in Handlers :
        handler[h].at \in Creation /\ handler[h].of \in open =>
            \A d \in Campaigns, l \in Leads :
                d \in before[handler[h].of] /\ l \in handler[h].todo => <<d, l>> \notin Present

FreshInvariant ==
    /\ FreshShape /\ AllFit /\ BeforeIsClosed
    /\ TargetsAreFresh /\ OpenCampaignsTakeFreshLeads

LEMMA FreshStarts == Init => FreshInvariant
<1> SUFFICES ASSUME Init PROVE FreshInvariant
  OBVIOUS
<1>1. FreshShape
  BY DEF Init, FreshShape, JobShape, HandlerShape, NoJob, Idle
<1>2. AllFit
  <2>1. \A h \in Handlers : HandlerFits(h)
    BY DEF Init, HandlerFits, Idle, Creation, Decision
  <2>2. \A j \in JobIds : ~Busy(j)
    BY DEF Init, Busy, NoJob
  <2>3. \A r \in Present : Exists(r[1])
    BY DEF Init, Present, Exists, Recipients
  <2> QED BY <2>1, <2>2, <2>3 DEF AllFit
<1>3. BeforeIsClosed
  BY DEF Init, BeforeIsClosed
<1>4. TargetsAreFresh
  BY DEF Init, TargetsAreFresh
<1>5. OpenCampaignsTakeFreshLeads
  BY DEF Init, OpenCampaignsTakeFreshLeads
<1> QED BY <1>1, <1>2, <1>3, <1>4, <1>5 DEF FreshInvariant

\* A handler that creates a campaign is at one of the steps of that.
LEMMA CreatingSteps ==
    ASSUME FreshInvariant, NEW h \in Handlers, NEW c \in Campaigns,
           handler[h].op = "create", handler[h].of = c
    PROVE  handler[h].at \in Creation
  BY NoneIsNoValue DEF FreshInvariant, AllFit, HandlerFits

\* A step that enrols nobody and creates no campaign: handlers that are creating one
\* go on with what they had, or less.
LEMMA FreshKept ==
    ASSUME FreshInvariant, FreshShape', UNCHANGED <<open, before>>,
           Present' = Present,
           \A c \in Campaigns : Exists(c) => Exists(c)',
           \A j \in JobIds : Busy(j)' => Busy(j) \/ j.of \in Present,
           \A h \in Handlers : HandlerFits(h)',
           \A h \in Handlers : handler'[h].at \in Creation =>
               /\ handler[h].at \in Creation /\ handler'[h].of = handler[h].of
               /\ handler'[h].todo \subseteq handler[h].todo
    PROVE  FreshInvariant'
<1>1. AllFit'
  BY DEF FreshInvariant, AllFit, Present, Recipients
<1>2. \A c \in Campaigns : Creating(c)' => Creating(c)
  <2> SUFFICES ASSUME NEW c \in Campaigns, NEW h \in Handlers,
                      handler'[h].op = "create", handler'[h].of = c
               PROVE  Creating(c)
    BY DEF Creating
  <2>1. handler'[h].at \in Creation
    BY NoneIsNoValue DEF HandlerFits
  <2>2. handler[h].at \in Creation /\ handler[h].of = c
    BY <2>1
  <2>3. handler[h].op = "create"
    BY <2>2 DEF FreshInvariant, AllFit, HandlerFits, Creation
  <2> QED BY <2>2, <2>3 DEF Creating
<1>3. BeforeIsClosed'
  BY <1>2 DEF FreshInvariant, BeforeIsClosed
<1>4. TargetsAreFresh'
  BY DEF FreshInvariant, TargetsAreFresh
<1>5. OpenCampaignsTakeFreshLeads'
  BY DEF FreshInvariant, OpenCampaignsTakeFreshLeads
<1> QED BY <1>1, <1>3, <1>4, <1>5 DEF FreshInvariant

\* A step of one handler.
LEMMA FreshHandlerKept ==
    ASSUME FreshInvariant, FreshShape', UNCHANGED <<open, before>>,
           Present' = Present,
           \A c \in Campaigns : Exists(c) => Exists(c)',
           \A j \in JobIds : Busy(j)' => Busy(j) \/ j.of \in Present,
           NEW h \in Handlers, HandlerFits(h)',
           \A k \in Handlers : k # h => handler'[k] = handler[k],
           handler'[h].at \in Creation =>
               /\ handler[h].at \in Creation /\ handler'[h].of = handler[h].of
               /\ handler'[h].todo \subseteq handler[h].todo
    PROVE  FreshInvariant'
<1>1. ASSUME NEW k \in Handlers PROVE HandlerFits(k)'
  <2>1. CASE k = h
    BY <2>1
  <2>2. CASE k # h
    <3>1. handler'[k] = handler[k] /\ HandlerFits(k)
      BY <2>2 DEF FreshInvariant, AllFit
    <3>2. Exists(handler[k].of) /\ handler[k].at \in Creation => Exists(handler[k].of)'
      BY <3>1 DEF HandlerFits, Exists
    <3> QED BY <3>1, <3>2 DEF HandlerFits, Creation, Decision, Exists
  <2> QED BY <2>1, <2>2
<1>2. ASSUME NEW k \in Handlers, handler'[k].at \in Creation
      PROVE  /\ handler[k].at \in Creation /\ handler'[k].of = handler[k].of
             /\ handler'[k].todo \subseteq handler[k].todo
  BY <1>2
<1> QED BY <1>1, <1>2, FreshKept

LEMMA FreshRequests ==
    ASSUME FreshInvariant,
           \/ CampaignRequest \/ ApprovalRequest \/ LeadRequest \/ SuppressionRequest
    PROVE  FreshInvariant'
<1> USE DEF rowVars, mailHistory, campaignHistory, history
<1>0. FreshShape /\ JobShape /\ HandlerShape
  BY DEF FreshInvariant, FreshShape
<1>1. ASSUME UNCHANGED <<handler, job, recipient, before, open>>,
             campaign' = [c \in Campaigns |-> campaign'[c]],
             \A c \in Campaigns : Exists(c) => Exists(c)'
      PROVE  FreshInvariant'
  <2>1. FreshShape' /\ Present' = Present /\ \A j \in JobIds : Busy(j)' => Busy(j)
    BY <1>0, <1>1 DEF FreshShape, JobShape, HandlerShape, Present, Busy
  <2>2. \A h \in Handlers : HandlerFits(h)'
    BY <1>1, <2>1 DEF FreshInvariant, AllFit, HandlerFits, Creation
  <2> QED BY <1>1, <2>1, <2>2, FreshKept
<1>2. ASSUME NEW h \in Handlers, NEW op, NEW at, NEW of, NEW todo, Serve(h, op, at, of, todo),
             op # "create", at \in {"select", "next", "list"},
             at = "next" => todo \subseteq Present,
             UNCHANGED <<job, recipient, before, open>>,
             campaign' = [c \in Campaigns |-> campaign'[c]],
             \A c \in Campaigns : Exists(c) => Exists(c)'
      PROVE  FreshInvariant'
  <2>1. /\ HandlerShape'
        /\ handler'[h].at = at /\ handler'[h].op = op /\ handler'[h].todo = todo
        /\ \A k \in Handlers : k # h => handler'[k] = handler[k]
    BY <1>0, <1>2, ServeMoves
  <2>2. FreshShape' /\ Present' = Present /\ \A j \in JobIds : Busy(j)' => Busy(j)
    BY <1>0, <1>2, <2>1 DEF FreshShape, JobShape, Present, Busy
  <2>3. HandlerFits(h)' /\ handler'[h].at \notin Creation
    BY <1>2, <2>1, <2>2 DEF HandlerFits, Creation, Decision
  <2> QED BY <1>2, <2>1, <2>2, <2>3, FreshHandlerKept
<1>3. ASSUME NEW h \in Handlers, NEW c \in Campaigns, TriggerGeneration(h, c)
      PROVE  FreshInvariant'
  <2>1. /\ campaign' = [d \in Campaigns |-> campaign'[d]]
        /\ \A d \in Campaigns : Exists(d) => Exists(d)'
    BY <1>0, <1>3 DEF TriggerGeneration, FreshShape, Exists
  <2>2. Serve(h, "generate", "select", c, {}) /\ UNCHANGED <<job, recipient, before, open>>
    BY <1>3 DEF TriggerGeneration
  <2> QED BY <1>2, <2>1, <2>2
<1>4. ASSUME NEW c \in Campaigns, NEW s \in StatusActions, HandleStatusAction(c, s)
      PROVE  FreshInvariant'
  <2>1. /\ campaign' = [d \in Campaigns |-> campaign'[d]]
        /\ \A d \in Campaigns : Exists(d) => Exists(d)'
    BY <1>0, <1>4 DEF HandleStatusAction, StatusActions, FreshShape, Exists
  <2> QED BY <1>1, <1>4, <2>1 DEF HandleStatusAction
<1>5. ASSUME UNCHANGED campaign
      PROVE  /\ campaign' = [c \in Campaigns |-> campaign'[c]]
             /\ \A c \in Campaigns : Exists(c) => Exists(c)'
  BY <1>0, <1>5 DEF FreshShape, Exists
<1>6. ASSUME NEW h \in Handlers, NEW action \in ApprovalActions, NEW rs \in SUBSET Recipients,
             Decide(h, action, rs)
      PROVE  FreshInvariant'
  <2>1. rs \subseteq Present
    BY <1>6 DEF Decide, Nameable, Present
  <2>2. /\ Serve(h, action, "next", None, rs) /\ action # "create"
        /\ UNCHANGED <<job, recipient, before, open, campaign>>
    BY <1>6 DEF Decide, ApprovalActions
  <2> QED BY <1>2, <1>5, <2>1, <2>2
<1>7. ASSUME NEW h \in Handlers, NEW ls, AskSuppression(h, ls) PROVE FreshInvariant'
  BY <1>2, <1>5, <1>7 DEF AskSuppression
<1>8. ASSUME NEW h \in Handlers, NEW c \in Campaigns, NEW by, NEW named,
             ResolveTargets(h, c, by, named)
      PROVE  FreshInvariant'
  <2> DEFINE todo == Targets(by, named)
             closed == {d \in Campaigns : Exists(d) /\ ~Creating(d)}
  <2>1. /\ HandlerShape' /\ handler[h] = Idle
        /\ handler'[h].at = "verify" /\ handler'[h].op = "create" /\ handler'[h].of = c
        /\ handler'[h].todo = todo
        /\ \A k \in Handlers : k # h => handler'[k] = handler[k]
    BY <1>0, <1>8, ServeMoves DEF ResolveTargets
  <2>2. /\ ~Exists(c) /\ ~Creating(c) /\ UNCHANGED <<campaign, recipient, job>>
        /\ before' = [before EXCEPT ![c] = closed]
        /\ open' = IF by = "open" THEN open \cup {c} ELSE open \ {c}
    BY <1>8 DEF ResolveTargets
  <2>3. Present' = Present /\ (\A d : Exists(d)' = Exists(d)) /\ \A j : Busy(j)' = Busy(j)
    BY <2>2 DEF Present, Exists, Busy
  <2>4. by = "open" => \A d \in Campaigns, l \in Leads : l \in todo => <<d, l>> \notin Present
    BY DEF Targets, EnrolledLeads
  <2>5. /\ before' = [d \in Campaigns |-> before'[d]] /\ before'[c] = closed
        /\ \A d \in Campaigns : d # c => before'[d] = before[d]
        /\ open' \subseteq Campaigns /\ (c \in open' => by = "open")
        /\ \A d \in Campaigns : d # c => (d \in open' => d \in open)
    BY <1>0, <2>2 DEF FreshShape
  <2> HIDE DEF todo
  <2>6. FreshShape'
    BY <1>0, <2>1, <2>2, <2>5 DEF FreshShape, JobShape
  <2>7. AllFit'
    <3>1. ASSUME NEW k \in Handlers PROVE HandlerFits(k)'
      <4>1. CASE k = h
        BY <2>1, <4>1 DEF HandlerFits, Creation, Decision
      <4>2. CASE k # h
        BY <2>1, <2>3, <4>2 DEF FreshInvariant, AllFit, HandlerFits
      <4> QED BY <4>1, <4>2
    <3> QED BY <2>3, <3>1 DEF FreshInvariant, AllFit
  <2>8. \A d \in Campaigns : d # c /\ ~Creating(d) => ~Creating(d)'
    BY <2>1 DEF Creating
  <2>9. BeforeIsClosed'
    BY <2>2, <2>3, <2>5, <2>8 DEF FreshInvariant, BeforeIsClosed
  <2>10. TargetsAreFresh'
    <3> SUFFICES ASSUME NEW k \in Handlers,
                        handler'[k].at \in Creation, handler'[k].of \in open',
                        NEW d \in Campaigns, NEW l \in Leads,
                        d \in before'[handler'[k].of], l \in handler'[k].todo
                 PROVE  <<d, l>> \notin Present
      BY <2>3 DEF TargetsAreFresh
    <3>1. CASE k = h
      BY <2>1, <2>4, <2>5, <3>1
    <3>2. CASE k # h
      <4>1. handler[k].op = "create" /\ handler[k].of \in Campaigns
        BY <2>1, <3>2 DEF FreshInvariant, AllFit, HandlerFits, Creation
      <4>2. handler[k].of # c
        BY <2>2, <4>1 DEF Creating
      <4> QED BY <2>1, <2>5, <3>2, <4>1, <4>2 DEF FreshInvariant, TargetsAreFresh
    <3> QED BY <3>1, <3>2
  <2>11. OpenCampaignsTakeFreshLeads'
    <3> SUFFICES ASSUME NEW o \in open', NEW d \in Campaigns, d \in before'[o], NEW l \in Leads
                 PROVE  ~ {<<o, l>>, <<d, l>>} \subseteq Present
      BY <2>3 DEF OpenCampaignsTakeFreshLeads
    <3>1. CASE o = c
      BY <2>2, <3>1 DEF FreshInvariant, AllFit
    <3>2. CASE o # c
      BY <2>5, <3>2 DEF FreshInvariant, OpenCampaignsTakeFreshLeads
    <3> QED BY <3>1, <3>2
  <2> QED BY <2>6, <2>7, <2>9, <2>10, <2>11 DEF FreshInvariant
<1>9. CASE CampaignRequest
  BY <1>3, <1>4, <1>8, <1>9 DEF CampaignRequest
<1>10. CASE ApprovalRequest
  <2>1. ASSUME NEW r \in Recipients, NEW m \in Messages, EditDraft(r, m)
        PROVE  FreshInvariant'
    BY <1>1, <1>5, <2>1 DEF EditDraft
  <2> QED BY <1>6, <1>10, <2>1 DEF ApprovalRequest
<1>11. CASE LeadRequest
  BY <1>1, <1>5, <1>7, <1>11 DEF LeadRequest, UpdateLeads, DeleteLeads
<1>12. CASE SuppressionRequest
  BY <1>1, <1>5, <1>7, <1>12 DEF SuppressionRequest, RemoveSuppression
<1> QED BY <1>9, <1>10, <1>11, <1>12

LEMMA FreshHandlerStep ==
    ASSUME FreshInvariant, NEW h \in Handlers, HandlerStep(h)
    PROVE  FreshInvariant'
<1> USE DEF rowVars, mailHistory, campaignHistory, history
<1>0. FreshShape /\ JobShape /\ HandlerShape /\ HandlerFits(h)
  BY DEF FreshInvariant, FreshShape, AllFit
<1>c. ASSUME UNCHANGED campaign
      PROVE  /\ campaign' = [c \in Campaigns |-> campaign'[c]]
             /\ \A c \in Campaigns : Exists(c) => Exists(c)'
  BY <1>0, <1>c DEF FreshShape, Exists
<1>j. ASSUME UNCHANGED job
      PROVE  JobShape' /\ \A j \in JobIds : Busy(j)' => Busy(j) \/ j.of \in Present
  BY <1>0, <1>j DEF JobShape, Busy
<1>k. ASSUME NEW id, NEW m, job' = Added(id, m), id \in JobIds => id.of \in Present
      PROVE  JobShape' /\ \A j \in JobIds : Busy(j)' => Busy(j) \/ j.of \in Present
  <2>1. JobShape'
    BY <1>0, <1>k, AddMoves
  <2>2. \A j \in JobIds : j # id => job'[j] = job[j]
    BY <1>0, <1>k DEF Added, JobShape
  <2> QED BY <1>k, <2>1, <2>2 DEF Busy
<1>r. ASSUME UNCHANGED recipient
      PROVE  recipient' = [r \in Recipients |-> recipient'[r]] /\ Present' = Present
  BY <1>0, <1>r DEF FreshShape, Present
<1>s. ASSUME NEW r \in Present, NEW status, status # "absent", SetRecipient(r, status)
      PROVE  recipient' = [q \in Recipients |-> recipient'[q]] /\ Present' = Present
  BY <1>0, <1>s DEF FreshShape, Present, SetRecipient
<1>h. ASSUME HandlerShape', JobShape', UNCHANGED <<campaign, before, open>>,
             recipient' = [r \in Recipients |-> recipient'[r]], Present' = Present,
             \A j \in JobIds : Busy(j)' => Busy(j) \/ j.of \in Present,
             \A k \in Handlers : k # h => handler'[k] = handler[k],
             \/ handler'[h] = Idle
             \/ /\ handler'[h].op = handler[h].op /\ handler'[h].op # "create"
                /\ handler'[h].at \notin Creation \cup {"idle"}
                /\ handler'[h].at \in Decision => handler'[h].of \in Present
                /\ handler'[h].at \in Decision \cup {"next", "enqueue"} =>
                      handler'[h].todo \subseteq Present
      PROVE  FreshInvariant'
  <2>1. FreshShape'
    BY <1>0, <1>h DEF FreshShape
  <2>2. HandlerFits(h)' /\ handler'[h].at \notin Creation
    BY <1>h DEF HandlerFits, Creation, Decision, Idle
  <2> QED BY <1>c, <1>h, <2>1, <2>2, FreshHandlerKept
<1>1. CASE CreateCampaign(h)
  <2> DEFINE c == handler[h].of
  <2>1. /\ handler[h].at = "verify" /\ UNCHANGED <<job, recipient, before, open>>
        /\ campaign' = [campaign EXCEPT ![c] = "DRAFT"]
        /\ TakeUp(h, "enrol", handler[h].todo \cap Uncontacted)
    BY <1>0, <1>1 DEF CreateCampaign, OnStep, HandlerShape, TakeUp
  <2>2. /\ HandlerShape' /\ handler'[h].at = "enrol" /\ handler'[h].of = c
        /\ handler'[h].op = handler[h].op
        /\ handler'[h].todo = handler[h].todo \cap Uncontacted
        /\ \A k \in Handlers : k # h => handler'[k] = handler[k]
    BY <1>0, <2>1, TodoMoves
  <2>3. c \in Campaigns /\ handler[h].op = "create"
    BY <1>0, <2>1 DEF HandlerFits, Creation
  <2> HIDE DEF c
  <2>4. /\ campaign' = [d \in Campaigns |-> campaign'[d]]
        /\ campaign'[c] # "absent" /\ \A d \in Campaigns : Exists(d) => Exists(d)'
    BY <1>0, <2>1, <2>3 DEF FreshShape, Exists
  <2>5. FreshShape'
    BY <1>0, <1>j, <1>r, <2>1, <2>2, <2>4 DEF FreshShape
  <2>6. HandlerFits(h)'
    BY <2>2, <2>3, <2>4 DEF HandlerFits, Creation, Decision, Exists
  <2> QED BY <1>j, <1>r, <2>1, <2>2, <2>4, <2>5, <2>6, FreshHandlerKept DEF Creation, c
<1>3. CASE SelectPending(h)
  <2>1. /\ handler[h].at = "select" /\ UNCHANGED <<recipient, campaign, job, before, open>>
    BY <1>3 DEF SelectPending, OnStep
  <2>2. \/ Return(h)
        \/ TakeUp(h, "enqueue", Pending(handler[h].of))
    BY <1>3 DEF SelectPending, TakeUp
  <2>3. Pending(handler[h].of) \subseteq Present /\ handler[h].op # "create"
    BY <1>0, <2>1 DEF Pending, HandlerFits, Creation
  <2>4. CASE Return(h)
    BY <1>0, <1>h, <1>j, <1>r, <2>1, <2>4, ReturnMoves
  <2>5. CASE TakeUp(h, "enqueue", Pending(handler[h].of))
    <3>1. /\ HandlerShape' /\ handler'[h].at = "enqueue"
          /\ handler'[h].op = handler[h].op /\ handler'[h].todo \subseteq Present
          /\ \A k \in Handlers : k # h => handler'[k] = handler[k]
      BY <1>0, <2>3, <2>5, TodoMoves
    <3> QED BY <1>h, <1>j, <1>r, <2>1, <2>3, <3>1 DEF Creation, Decision
  <2> QED BY <2>2, <2>4, <2>5
<1>4. CASE MarkApproved(h)
  <2>1. /\ handler[h].at = "approve" /\ UNCHANGED <<campaign, job, before, open>>
        /\ SetRecipient(handler[h].of, "APPROVED")
    BY <1>4 DEF MarkApproved, OnStep
  <2>2. PICK at \in {"approveDraft", "dispatch"} : Goto(h, at)
    BY <1>4 DEF MarkApproved
  <2>3. /\ handler[h].of \in Present /\ handler[h].op # "create"
        /\ handler[h].todo \subseteq Present
    BY <1>0, <2>1 DEF HandlerFits, Creation, Decision
  <2>4. /\ HandlerShape' /\ handler'[h].at = at /\ handler'[h].of = handler[h].of
        /\ handler'[h].op = handler[h].op /\ handler'[h].todo = handler[h].todo
        /\ \A k \in Handlers : k # h => handler'[k] = handler[k]
    BY <1>0, <2>2, GotoMoves
  <2> QED BY <1>h, <1>j, <1>s, <2>1, <2>3, <2>4 DEF Creation
<1>5. CASE ApproveDraft(h)
  <2>1. /\ handler[h].at = "approveDraft" /\ Goto(h, "dispatch")
        /\ UNCHANGED <<recipient, campaign, job, before, open>>
    BY <1>5 DEF ApproveDraft, OnStep
  <2>2. /\ handler[h].of \in Present /\ handler[h].op # "create"
        /\ handler[h].todo \subseteq Present
    BY <1>0, <2>1 DEF HandlerFits, Creation, Decision
  <2>3. /\ HandlerShape' /\ handler'[h].at = "dispatch" /\ handler'[h].of = handler[h].of
        /\ handler'[h].op = handler[h].op /\ handler'[h].todo = handler[h].todo
        /\ \A k \in Handlers : k # h => handler'[k] = handler[k]
    BY <1>0, <2>1, GotoMoves
  <2> QED BY <1>h, <1>j, <1>r, <2>1, <2>2, <2>3 DEF Creation
<1>a. ASSUME AfterAction(h, handler[h].todo), handler[h].at \in Decision
      PROVE  /\ HandlerShape' /\ \A k \in Handlers : k # h => handler'[k] = handler[k]
             /\ \/ handler'[h] = Idle
                \/ /\ handler'[h].op = handler[h].op /\ handler'[h].op # "create"
                   /\ handler'[h].at = "next" /\ handler'[h].todo \subseteq Present
  <2>1. handler[h].op # "create" /\ handler[h].todo \subseteq Present
    BY <1>0, <1>a DEF HandlerFits, Creation, Decision
  <2> QED BY <1>0, <1>a, <2>1, AfterActionMoves
<1>n. ASSUME NEW r \in handler[h].todo, AfterAction(h, handler[h].todo \ {r}),
             handler[h].at = "next"
      PROVE  /\ HandlerShape' /\ \A k \in Handlers : k # h => handler'[k] = handler[k]
             /\ \/ handler'[h] = Idle
                \/ /\ handler'[h].op = handler[h].op /\ handler'[h].op # "create"
                   /\ handler'[h].at = "next" /\ handler'[h].todo \subseteq Present
  <2>1. handler[h].op # "create" /\ handler[h].todo \ {r} \subseteq Present
    BY <1>0, <1>n DEF HandlerFits, Creation, Decision
  <2> QED BY <1>0, <1>n, <2>1, AfterActionMoves
<1>w. ASSUME NEW r \in handler[h].todo, NEW at \in Decision, NEW m, Working(h, at, r, m),
             handler[h].at = "next"
      PROVE  /\ HandlerShape' /\ \A k \in Handlers : k # h => handler'[k] = handler[k]
             /\ handler'[h].op = handler[h].op /\ handler'[h].op # "create"
             /\ handler'[h].at = at /\ handler'[h].of \in Present
             /\ handler'[h].todo \subseteq Present
  <2>1. /\ handler[h].op # "create" /\ r \in Present
        /\ handler[h].todo \ {r} \subseteq Present
    BY <1>0, <1>w DEF HandlerFits, Creation, Decision
  <2> QED BY <1>0, <1>w, <2>1, WorkingMoves
<1>t. handler[h].at = "next" => handler[h].todo \subseteq Present
  BY <1>0 DEF HandlerFits
<1>6. CASE EnqueueSend(h)
  <2>1. /\ handler[h].at = "dispatch" /\ UNCHANGED <<recipient, campaign, before, open>>
        /\ job' = Added(SendId(handler[h].of), handler[h].msg)
        /\ AfterAction(h, handler[h].todo)
    BY <1>6 DEF EnqueueSend, OnStep
  <2>2. SendId(handler[h].of).of \in Present
    BY <1>0, <2>1 DEF HandlerFits, Decision, SendId
  <2> QED BY <1>a, <1>h, <1>k, <1>r, <2>1, <2>2 DEF Creation, Decision
<1>7. CASE SuppressLeadOf(h)
  <2>1. /\ handler[h].at = "suppressLead" /\ Goto(h, "suppressRecipient")
        /\ UNCHANGED <<recipient, campaign, job, before, open>>
    BY <1>7 DEF SuppressLeadOf, OnStep
  <2>2. /\ handler[h].of \in Present /\ handler[h].op # "create"
        /\ handler[h].todo \subseteq Present
    BY <1>0, <2>1 DEF HandlerFits, Creation, Decision
  <2>3. /\ HandlerShape' /\ handler'[h].at = "suppressRecipient"
        /\ handler'[h].of = handler[h].of
        /\ handler'[h].op = handler[h].op /\ handler'[h].todo = handler[h].todo
        /\ \A k \in Handlers : k # h => handler'[k] = handler[k]
    BY <1>0, <2>1, GotoMoves
  <2> QED BY <1>h, <1>j, <1>r, <2>1, <2>2, <2>3 DEF Creation
<1>8. CASE CloseRecipient(h)
  <2>1. /\ handler[h].at = "suppressRecipient" /\ AfterAction(h, handler[h].todo)
        /\ SetRecipient(handler[h].of, "SUPPRESSED")
        /\ UNCHANGED <<campaign, job, before, open>>
    BY <1>8 DEF CloseRecipient, OnStep
  <2>2. handler[h].of \in Present
    BY <1>0, <2>1 DEF HandlerFits, Decision
  <2> QED BY <1>a, <1>h, <1>j, <1>s, <2>1, <2>2 DEF Creation, Decision
<1>9. CASE MarkLeadsSuppressed(h)
  <2>1. Return(h) /\ UNCHANGED <<recipient, campaign, job, before, open>>
    BY <1>9 DEF MarkLeadsSuppressed
  <2> QED BY <1>0, <1>h, <1>j, <1>r, <2>1, ReturnMoves
<1>10. ASSUME NEW r \in Recipients, EnqueueGeneration(h, r) PROVE FreshInvariant'
  <2>1. /\ handler[h].at = "enqueue" /\ r \in handler[h].todo
        /\ job' = Added([kind |-> "ai-gen", of |-> r, stamp |-> None], None)
        /\ UNCHANGED <<recipient, campaign, before, open>>
    BY <1>10 DEF EnqueueGeneration, OnStep
  <2>2. /\ handler[h].todo \subseteq Present /\ r \in Present /\ handler[h].op # "create"
    BY <1>0, <2>1 DEF HandlerFits, Creation
  <2>3. /\ JobShape' /\ \A j \in JobIds : Busy(j)' => Busy(j) \/ j.of \in Present
    BY <1>k, <2>1, <2>2
  <2>4. CASE Return(h)
    BY <1>0, <1>h, <1>r, <2>1, <2>3, <2>4, ReturnMoves
  <2>5. CASE handler' = [handler EXCEPT ![h].todo = handler[h].todo \ {r}]
    <3>1. TakeUp(h, "enqueue", handler[h].todo \ {r})
      BY <1>0, <2>1, <2>5 DEF HandlerShape, TakeUp
    <3>2. /\ HandlerShape' /\ handler'[h].at = "enqueue"
          /\ handler'[h].op = handler[h].op /\ handler'[h].todo \subseteq Present
          /\ \A k \in Handlers : k # h => handler'[k] = handler[k]
      BY <1>0, <2>2, <3>1, TodoMoves
    <3> QED BY <1>h, <1>r, <2>1, <2>2, <2>3, <3>2 DEF Creation, Decision
  <2> QED BY <1>0, <1>10, <2>4, <2>5 DEF EnqueueGeneration, HandlerShape
<1>11. ASSUME NEW r \in Recipients, CheckBeforeApproval(h, r) PROVE FreshInvariant'
  <2>1. /\ handler[h].at = "next" /\ r \in handler[h].todo
        /\ UNCHANGED <<recipient, campaign, job, before, open>>
    BY <1>11 DEF CheckBeforeApproval, Taking, OnStep
  <2>2. CASE AfterAction(h, handler[h].todo \ {r})
    BY <1>h, <1>j, <1>n, <1>r, <2>1, <2>2 DEF Creation, Decision
  <2>3. CASE \E m : Working(h, "approve", r, m)
    BY <1>h, <1>j, <1>w, <1>r, <2>1, <2>3 DEF Creation, Decision
  <2> QED BY <1>11, <2>2, <2>3 DEF CheckBeforeApproval
<1>12. ASSUME NEW r \in Recipients, Regenerate(h, r) PROVE FreshInvariant'
  <2>1. /\ handler[h].at = "next" /\ r \in handler[h].todo
        /\ UNCHANGED <<campaign, job, before, open>>
        /\ SetRecipient(r, "PENDING") /\ Working(h, "regenerate", r, None)
    BY <1>12 DEF Regenerate, Taking, OnStep
  <2> QED BY <1>h, <1>j, <1>s, <1>t, <1>w, <2>1 DEF Creation, Decision
<1>13. ASSUME NEW r \in Recipients, Skip(h, r) PROVE FreshInvariant'
  <2>1. /\ handler[h].at = "next" /\ r \in handler[h].todo
        /\ UNCHANGED <<campaign, job, before, open>>
        /\ SetRecipient(r, "CANCELLED") /\ AfterAction(h, handler[h].todo \ {r})
    BY <1>13 DEF Skip, Taking, OnStep
  <2> QED BY <1>h, <1>j, <1>n, <1>s, <1>t, <2>1 DEF Creation, Decision
<1>14. ASSUME NEW r \in Recipients, SuppressRecipient(h, r) PROVE FreshInvariant'
  <2>1. /\ handler[h].at = "next" /\ r \in handler[h].todo
        /\ UNCHANGED <<recipient, campaign, job, before, open>>
        /\ Working(h, "suppressLead", r, None)
    BY <1>14 DEF SuppressRecipient, Taking, OnStep
  <2> QED BY <1>h, <1>j, <1>r, <1>w, <2>1 DEF Creation, Decision
<1>15. ASSUME NEW l \in Leads, UpsertEntry(h, l) PROVE FreshInvariant'
  <2>1. /\ handler[h].at = "list" /\ UNCHANGED <<recipient, campaign, job, before, open>>
    BY <1>15 DEF UpsertEntry, OnStep
  <2>2. PICK at \in {"list", "markLeads"} : TakeUp(h, at, handler[h].todo \ {l})
    BY <1>0, <1>15, <2>1 DEF UpsertEntry, HandlerShape, TakeUp
  <2>3. /\ HandlerShape' /\ handler'[h].at \in {"list", "markLeads"}
        /\ handler'[h].op = handler[h].op
        /\ \A k \in Handlers : k # h => handler'[k] = handler[k]
    BY <1>0, <2>2, TodoMoves
  <2>4. handler[h].op # "create"
    BY <1>0, <2>1 DEF HandlerFits, Creation
  <2> QED BY <1>h, <1>j, <1>r, <2>1, <2>3, <2>4 DEF Creation, Decision
<1>16. ASSUME NEW now \in Stamps, EnqueueRegeneration(h, now) PROVE FreshInvariant'
  <2> DEFINE id == [kind |-> "ai-gen-regen", of |-> handler[h].of, stamp |-> now]
  <2>1. /\ handler[h].at = "regenerate" /\ UNCHANGED <<recipient, campaign, before, open>>
        /\ job' = Added(id, None) /\ AfterAction(h, handler[h].todo)
    BY <1>16 DEF EnqueueRegeneration, OnStep
  <2>2. id.of \in Present
    BY <1>0, <2>1 DEF HandlerFits, Decision
  <2> HIDE DEF id
  <2> QED BY <1>a, <1>h, <1>k, <1>r, <2>1, <2>2 DEF Creation, Decision
<1>2. CASE EnrolTargets(h)
  <2> DEFINE of == handler[h].of
             rows == IF \E l \in handler[h].todo : lead[l] = None THEN {}
                     ELSE {of} \X handler[h].todo
  <2>1. /\ handler[h].at = "enrol" /\ Return(h) /\ UNCHANGED <<campaign, job, before, open>>
        /\ recipient' = [r \in Recipients |-> IF r \in rows THEN "PENDING" ELSE recipient[r]]
    BY <1>2 DEF EnrolTargets, OnStep
  <2>2. /\ HandlerShape' /\ handler'[h] = Idle
        /\ \A k \in Handlers : k # h => handler'[k] = handler[k]
    BY <1>0, <2>1, ReturnMoves
  <2>3. of \in Campaigns /\ handler[h].op = "create" /\ Exists(of)
    BY <1>0, <2>1 DEF HandlerFits, Creation
  <2>4. ASSUME NEW c \in Campaigns, NEW l \in Leads,
               <<c, l>> \in Present', <<c, l>> \notin Present
        PROVE  c = of /\ l \in handler[h].todo
    <3>1. <<c, l>> \in Recipients /\ recipient'[<<c, l>>] # recipient[<<c, l>>]
      BY <2>4 DEF Present, Recipients
    <3>2. <<c, l>> \in rows
      BY <2>1, <3>1
    <3> QED BY <3>2
  <2>5. Present \subseteq Present'
    BY <2>1 DEF Present
  <2>6. FreshShape'
    BY <1>0, <1>c, <1>j, <2>1, <2>2 DEF FreshShape
  <2>7. AllFit'
    <3>1. ASSUME NEW k \in Handlers PROVE HandlerFits(k)'
      <4>1. CASE k = h
        BY <2>2, <4>1 DEF HandlerFits, Creation, Decision, Idle
      <4>2. CASE k # h
        BY <2>1, <2>2, <2>5, <4>2 DEF FreshInvariant, AllFit, HandlerFits, Exists
      <4> QED BY <4>1, <4>2
    <3>2. \A j \in JobIds : Busy(j)' => j.of \in Present'
      BY <2>1, <2>5 DEF FreshInvariant, AllFit, Busy
    <3>3. \A r \in Present' : Exists(r[1])'
      BY <2>1, <2>3, <2>4 DEF FreshInvariant, AllFit, Exists, Present, Recipients
    <3> QED BY <3>1, <3>2, <3>3 DEF AllFit
  <2>8. \A d \in Campaigns : Creating(d)' => Creating(d)
    BY <2>2, NoneIsNoValue DEF Creating, Idle
  <2>9. BeforeIsClosed'
    BY <2>1, <2>8 DEF FreshInvariant, BeforeIsClosed, Exists
  <2>10. \A c, d \in Campaigns : d \in before[c] => d # of
    BY <2>3 DEF FreshInvariant, BeforeIsClosed, Creating
  <2>11. TargetsAreFresh'
    <3> SUFFICES ASSUME NEW k \in Handlers,
                        handler'[k].at \in Creation, handler'[k].of \in open,
                        NEW d \in Campaigns, NEW l \in Leads,
                        d \in before[handler'[k].of], l \in handler'[k].todo
                 PROVE  <<d, l>> \notin Present'
      BY <2>1 DEF TargetsAreFresh
    <3>1. k # h /\ handler'[k] = handler[k]
      BY <2>2 DEF Idle, Creation
    <3>2. handler[k].of \in Campaigns /\ <<d, l>> \notin Present
      BY <3>1 DEF FreshInvariant, AllFit, HandlerFits, TargetsAreFresh
    <3> QED BY <2>4, <2>10, <3>1, <3>2
  <2>12. OpenCampaignsTakeFreshLeads'
    <3> SUFFICES ASSUME NEW c \in open, NEW d \in Campaigns, d \in before[c], NEW l \in Leads,
                        <<c, l>> \in Present', <<d, l>> \in Present'
                 PROVE  FALSE
      BY <2>1 DEF OpenCampaignsTakeFreshLeads
    <3>1. c \in Campaigns
      BY <1>0 DEF FreshShape
    <3>2. <<d, l>> \in Present
      BY <2>4, <2>10, <3>1
    <3>3. <<c, l>> \notin Present
      BY <3>2 DEF FreshInvariant, OpenCampaignsTakeFreshLeads
    <3>4. c = of /\ l \in handler[h].todo
      BY <2>4, <3>1, <3>3
    <3> QED BY <2>1, <3>2, <3>4 DEF FreshInvariant, TargetsAreFresh, Creation
  <2> QED BY <2>6, <2>7, <2>9, <2>11, <2>12 DEF FreshInvariant
<1> QED
  BY <1>1, <1>2, <1>3, <1>4, <1>5, <1>6, <1>7, <1>8, <1>9, <1>10, <1>11, <1>12, <1>13,
     <1>14, <1>15, <1>16 DEF HandlerStep

\* A job is of a recipient that exists, and leaves it in existence.
LEMMA FreshJobStep ==
    ASSUME FreshInvariant, NEW j \in JobIds, JobStep(j)
    PROVE  FreshInvariant'
<1> USE DEF rowVars, mailHistory, campaignHistory, history
<1>0. FreshShape /\ JobShape /\ HandlerShape
  BY DEF FreshInvariant, FreshShape
<1>b. ASSUME UNCHANGED <<handler, before, open>>,
             campaign' = [c \in Campaigns |-> campaign'[c]],
             \A c \in Campaigns : Exists(c) => Exists(c)',
             recipient' = [r \in Recipients |-> recipient'[r]], Present' = Present,
             JobShape', \A k \in JobIds : Busy(k)' => Busy(k)
      PROVE  FreshInvariant'
  <2>1. FreshShape'
    BY <1>0, <1>b DEF FreshShape, HandlerShape
  <2>2. \A h \in Handlers : HandlerFits(h)'
    BY <1>b DEF FreshInvariant, AllFit, HandlerFits, Creation
  <2> QED BY <1>b, <2>1, <2>2, FreshKept
<1>c. ASSUME UNCHANGED campaign
      PROVE  /\ campaign' = [c \in Campaigns |-> campaign'[c]]
             /\ \A c \in Campaigns : Exists(c) => Exists(c)'
  BY <1>0, <1>c DEF FreshShape, Exists
<1>r. ASSUME UNCHANGED recipient
      PROVE  recipient' = [r \in Recipients |-> recipient'[r]] /\ Present' = Present
  BY <1>0, <1>r DEF FreshShape, Present
<1>s. ASSUME Busy(j), NEW status, status # "absent", SetRecipient(j.of, status)
      PROVE  recipient' = [q \in Recipients |-> recipient'[q]] /\ Present' = Present
  BY <1>0, <1>s DEF FreshInvariant, AllFit, FreshShape, Present, SetRecipient
<1>e. Complete(j) => Busy(j)
  BY DEF Complete, Ended, At, Busy
<1>d. Busy(j)
  BY <1>e DEF JobStep, GenerationStep, StartGeneration, GenerationFails, WriteDraft,
         MarkReady, CountPending, ReleaseCampaign, SendStep, StartSend, RefuseSend,
         SuppressTarget, HandOff, HandOffTimesOut, HandOffRefused, Handing, RecordSent,
         AttributeSent, MarkContacted, At, Busy
<1>k. ASSUME \/ Complete(j) \/ Fail(j) \/ StartSend(j) \/ \E step : Advance(j, step)
      PROVE  JobShape' /\ \A k \in JobIds : Busy(k)' => Busy(k)
  <2>1. JobShape' /\ \A k \in JobIds : k # j => job'[k] = job[k]
    BY <1>0, <1>k, CompleteMoves, FailMoves, StartMoves, AdvanceMoves
  <2> QED BY <1>d, <2>1 DEF Busy
<1>1. CASE Complete(j)
  BY <1>1, <1>b, <1>c, <1>k, <1>r DEF Complete
<1>2. ASSUME GenerationStep(j) PROVE FreshInvariant'
  <2>1. CASE GenerationFails(j)
    BY <1>b, <1>c, <1>k, <1>r, <2>1 DEF GenerationFails
  <2>2. CASE MarkReady(j)
    BY <1>b, <1>c, <1>d, <1>k, <1>s, <2>2 DEF MarkReady
  <2>3. CASE ReleaseCampaign(j)
    <3>1. /\ campaign' = [c \in Campaigns |-> campaign'[c]]
          /\ \A c \in Campaigns : Exists(c) => Exists(c)'
      BY <1>0, <2>3 DEF ReleaseCampaign, FreshShape, Exists
    <3> QED BY <1>b, <1>k, <1>r, <2>3, <3>1 DEF ReleaseCampaign
  <2>4. CASE StartGeneration(j) \/ CountPending(j) \/ \E m \in Messages : WriteDraft(j, m)
    BY <1>b, <1>c, <1>k, <1>r, <2>4 DEF StartGeneration, CountPending, WriteDraft
  <2> QED BY <1>2, <2>1, <2>2, <2>3, <2>4 DEF GenerationStep
<1>3. ASSUME SendStep(j) PROVE FreshInvariant'
  <2>1. CASE StartSend(j)
    <3>1. UNCHANGED <<handler, before, open, campaign, recipient>>
      BY <2>1 DEF StartSend
    <3> QED BY <1>b, <1>c, <1>k, <1>r, <2>1, <3>1
  <2>2. CASE SuppressTarget(j)
    BY <1>b, <1>c, <1>d, <1>k, <1>s, <2>2 DEF SuppressTarget
  <2>3. CASE AttributeSent(j)
    BY <1>b, <1>c, <1>d, <1>k, <1>s, <2>3 DEF AttributeSent
  <2>4. CASE RefuseSend(j) \/ RecordSent(j) \/ MarkContacted(j) \/ HandOff(j)
    BY <1>b, <1>c, <1>k, <1>r, <2>4 DEF RefuseSend, RecordSent, MarkContacted, HandOff, Handing
  <2>5. CASE HandOffTimesOut(j) \/ HandOffRefused(j)
    BY <1>b, <1>c, <1>k, <1>r, <2>5 DEF HandOffTimesOut, HandOffRefused, Handing
  <2> QED BY <1>3, <2>1, <2>2, <2>3, <2>4, <2>5 DEF SendStep
<1> QED BY <1>1, <1>2, <1>3 DEF JobStep

LEMMA FreshStep ==
    ASSUME FreshInvariant, [Next]_vars
    PROVE  FreshInvariant'
<1> USE DEF rowVars, mailHistory, campaignHistory, history
<1>0. FreshShape /\ JobShape /\ HandlerShape
  BY DEF FreshInvariant, FreshShape
<1>b. ASSUME UNCHANGED <<campaign, recipient, before, open>>, HandlerShape',
             \A h \in Handlers : handler'[h] = handler[h] \/ handler'[h] = Idle,
             JobShape', \A k \in JobIds : Busy(k)' => Busy(k)
      PROVE  FreshInvariant'
  <2>1. FreshShape' /\ Present' = Present /\ \A c \in Campaigns : Exists(c)' = Exists(c)
    BY <1>0, <1>b DEF FreshShape, Present, Exists
  <2>2. \A h \in Handlers : HandlerFits(h)'
    BY <1>b, <2>1 DEF FreshInvariant, AllFit, HandlerFits, Creation, Decision, Idle
  <2>3. \A h \in Handlers : handler'[h].at \in Creation => handler'[h] = handler[h]
    BY <1>b DEF Creation, Idle
  <2> QED BY <1>b, <2>1, <2>2, <2>3, FreshKept
<1>1. CASE WorkerCrash
  <2>1. JobShape' /\ \A k \in JobIds : Busy(k)' => Busy(k)
    <3>1. \A k \in JobIds : k \notin Active => job'[k] = job[k]
      BY <1>1 DEF WorkerCrash
    <3> QED BY <1>0, <1>1, <3>1, CrashMoves DEF Active, Busy
  <2>2. UNCHANGED <<campaign, recipient, before, open, handler>>
    BY <1>1 DEF WorkerCrash
  <2>3. HandlerShape'
    BY <1>0, <2>2 DEF HandlerShape
  <2> QED BY <1>b, <2>1, <2>2, <2>3
<1>2. CASE ApiCrash
  <2>1. /\ handler' = [h \in Handlers |-> Idle]
        /\ UNCHANGED <<campaign, recipient, before, open, job>>
    BY <1>2 DEF ApiCrash
  <2>2. HandlerShape' /\ JobShape' /\ \A k \in JobIds : Busy(k)' = Busy(k)
    BY <1>0, <2>1 DEF HandlerShape, JobShape, Busy, Idle
  <2> QED BY <1>b, <2>1, <2>2
<1>3. CASE UNCHANGED vars
  <2>1. HandlerShape' /\ JobShape' /\ \A k \in JobIds : Busy(k)' = Busy(k)
    BY <1>0, <1>3 DEF vars, HandlerShape, JobShape, Busy
  <2> QED BY <1>b, <1>3, <2>1 DEF vars
<1> QED
  BY <1>1, <1>2, <1>3, FreshRequests, FreshHandlerStep, FreshJobStep DEF Next

\* Two campaigns share a lead the service chose only if the one was still being
\* created when the other was asked for, for any number of campaigns, leads and
\* requests at once, crashes included (campaigns.service:110-125).
THEOREM ChosenLeadsAreFresh == Spec => []OpenCampaignsTakeFreshLeads
<1>1. FreshInvariant => OpenCampaignsTakeFreshLeads
  BY DEF FreshInvariant
<1> QED BY FreshStarts, FreshStep, <1>1, PTL DEF Spec

-----------------------------------------------------------------------------
(* Outcomes *)

OutcomeShape ==
    /\ JobShape /\ HandlerShape
    /\ recipient = [r \in Recipients |-> recipient[r]]
    /\ drafts \in [Recipients -> Seq(Messages)]
    /\ handed \in [Messages -> Nat]
    /\ message = [m \in Messages |-> message[m]]
    /\ lead = [l \in Leads |-> lead[l]]

\* The steps of a request that has loaded a draft to approve, and of a send.
Approving == {"approve", "approveDraft", "dispatch"}
Recording == {"record", "attribute", "contact"}
Sending == {"send", "refuse"} \cup Recording

HandlerNames(h) ==
    handler[h].at \in Approving =>
        handler[h].msg = None \/ handler[h].msg \in IdsOf(handler[h].of)

\* The message of a send is one of its recipient, and one at its records was taken.
SendNames(j) ==
    j.kind = "send" =>
        /\ job[j].state \in {"waiting", "active"} =>
              job[j].data = None \/ job[j].data \in IdsOf(j.of)
        /\ job[j].state = "active" /\ job[j].at \in Sending => job[j].msg \in IdsOf(j.of)
        /\ job[j].state = "active" /\ job[j].at \in Recording => handed[job[j].msg] > 0

Mailed(r) == \E m \in IdsOf(r) : handed[m] > 0
MailedTo(l) == \E c \in Campaigns, m \in Messages : m \in IdsOf(<<c, l>>) /\ handed[m] > 0

LeadIsBacked(l) ==
    lead[l] # None => \/ MailedTo(l)
                      \/ "contacted" \in DOMAIN lead[l] /\ ~lead[l].contacted

OutcomeInvariant ==
    /\ OutcomeShape
    /\ \A h \in Handlers : HandlerNames(h)
    /\ \A j \in JobIds : SendNames(j)
    /\ \A r \in Recipients : recipient[r] = "SENT" => Mailed(r)
    /\ \A m \in Messages : message[m] = "SENT" => handed[m] > 0
    /\ \A l \in Leads : LeadIsBacked(l)

LEMMA OutcomeStarts == Init => OutcomeInvariant
<1> SUFFICES ASSUME Init PROVE OutcomeInvariant
  OBVIOUS
<1>1. OutcomeShape
  BY DEF Init, OutcomeShape, JobShape, HandlerShape, NoJob, Idle
<1>2. \A h \in Handlers : HandlerNames(h)
  BY DEF Init, HandlerNames, Approving, Idle
<1>3. \A j \in JobIds : SendNames(j)
  BY DEF Init, SendNames, NoJob
<1>4. \A r \in Recipients : recipient[r] # "SENT"
  BY DEF Init
<1>5. \A m \in Messages : message[m] # "SENT"
  BY DEF Init
<1>6. \A l \in Leads : LeadIsBacked(l)
  BY DEF Init, LeadIsBacked
<1> QED BY <1>1, <1>2, <1>3, <1>4, <1>5, <1>6 DEF OutcomeInvariant

LEMMA DraftsAreMessages ==
    ASSUME OutcomeShape, NEW r \in Recipients
    PROVE  /\ IdsOf(r) \subseteq Messages
           /\ Newest(r) = None \/ Newest(r) \in IdsOf(r)
  BY DEF OutcomeShape, IdsOf, ToSet, Newest, Last

\* What is there stays: messages of recipients, and mails of messages.
Grows ==
    /\ \A r \in Recipients : IdsOf(r) \subseteq IdsOf(r)'
    /\ \A m \in Messages : handed[m] > 0 => handed'[m] > 0

LEMMA DraftsGrow ==
    ASSUME OutcomeShape, NEW r \in Recipients, NEW m \in Messages, NewDraft(r, m),
           UNCHANGED handed
    PROVE  /\ drafts' \in [Recipients -> Seq(Messages)] /\ Grows
           /\ message' = [n \in Messages |-> message'[n]]
           /\ \A n \in Messages : message'[n] = "SENT" => message[n] = "SENT"
<1>1. drafts' = [drafts EXCEPT ![r] = Append(drafts[r], m)]
  BY DEF NewDraft
<1>2. /\ drafts' \in [Recipients -> Seq(Messages)]
      /\ \A q \in Recipients : drafts'[q] = IF q = r THEN Append(drafts[r], m) ELSE drafts[q]
  BY <1>1 DEF OutcomeShape
<1>3. ASSUME NEW q \in Recipients, NEW n \in IdsOf(q) PROVE n \in IdsOf(q)'
  <2>1. PICK k \in DOMAIN drafts[q] : n = drafts[q][k]
    BY DEF IdsOf, ToSet
  <2>2. drafts[q] \in Seq(Messages)
    BY DEF OutcomeShape
  <2>3. k \in DOMAIN drafts'[q] /\ drafts'[q][k] = n
    <3>1. CASE q = r
      <4>1. drafts'[q] = Append(drafts[q], m) /\ k \in 1 .. Len(drafts[q])
        BY <1>2, <2>1, <2>2, <3>1
      <4> QED BY <2>1, <2>2, <4>1
    <3>2. CASE q # r
      BY <1>2, <2>1, <3>2
    <3> QED BY <3>1, <3>2
  <2> QED BY <2>3 DEF IdsOf, ToSet
<1>4. /\ message' = [n \in Messages |-> message'[n]]
      /\ \A n \in Messages : message'[n] = "SENT" => message[n] = "SENT"
  BY DEF NewDraft, OutcomeShape
<1> QED BY <1>2, <1>3, <1>4 DEF Grows

LEMMA SameGrows ==
    ASSUME OutcomeShape, UNCHANGED <<drafts, handed>>
    PROVE  Grows /\ drafts' \in [Recipients -> Seq(Messages)] /\ handed' \in [Messages -> Nat]
  BY DEF Grows, OutcomeShape, IdsOf

\* A step that only records what was mailed.
LEMMA OutcomeKept ==
    ASSUME OutcomeInvariant, OutcomeShape', Grows,
           \A h \in Handlers : HandlerNames(h)',
           \A j \in JobIds : SendNames(j)',
           \A r \in Recipients : recipient'[r] = "SENT" => recipient[r] = "SENT" \/ Mailed(r),
           \A m \in Messages : message'[m] = "SENT" => message[m] = "SENT" \/ handed[m] > 0,
           \A l \in Leads : lead'[l] # None =>
              \/ MailedTo(l)
              \/ "contacted" \in DOMAIN lead'[l] /\ ~lead'[l].contacted
    PROVE  OutcomeInvariant'
<1>1. \A r \in Recipients : Mailed(r) => Mailed(r)'
  BY DraftsAreMessages DEF Mailed, Grows, OutcomeInvariant
<1>2. \A l \in Leads : MailedTo(l) => MailedTo(l)'
  BY DEF MailedTo, Grows, Recipients
<1>3. \A l \in Leads : LeadIsBacked(l)'
  BY <1>2 DEF LeadIsBacked
<1> QED BY <1>1, <1>3 DEF OutcomeInvariant, Grows

\* A handler or a job that stays, or goes where nothing is asked of it.
LEMMA NamesKept ==
    ASSUME OutcomeInvariant, FreshInvariant, Grows
    PROVE  /\ \A h \in Handlers : handler'[h] = handler[h] => HandlerNames(h)'
           /\ \A h \in Handlers : handler'[h].at \notin Approving => HandlerNames(h)'
           /\ \A j \in JobIds : job'[j] = job[j] => SendNames(j)'
           /\ \A j \in JobIds : job'[j].state \notin {"waiting", "active"} => SendNames(j)'
           /\ \A j \in JobIds : j.kind # "send" => SendNames(j)'
<1>1. \A h \in Handlers : handler[h].at \in Approving => handler[h].of \in Recipients
  BY DEF FreshInvariant, AllFit, HandlerFits, Approving, Decision, Present
<1>2. \A j \in JobIds : j.of \in Recipients /\ IdsOf(j.of) \subseteq Messages
  BY DraftsAreMessages DEF JobIds, OutcomeInvariant
<1>3. ASSUME NEW h \in Handlers, handler'[h] = handler[h] PROVE HandlerNames(h)'
  BY <1>1, <1>3 DEF OutcomeInvariant, HandlerNames, Grows
<1>4. ASSUME NEW j \in JobIds, job'[j] = job[j] PROVE SendNames(j)'
  <2>1. SendNames(j) /\ IdsOf(j.of) \subseteq IdsOf(j.of)'
    BY <1>2 DEF OutcomeInvariant, Grows
  <2>2. job[j].state = "active" /\ job[j].at \in Recording => job[j].at \in Sending
    BY DEF Sending
  <2> QED BY <1>2, <1>4, <2>1, <2>2 DEF SendNames, Grows
<1> QED BY <1>3, <1>4 DEF HandlerNames, SendNames

\* What a step leaves alone needs no backing.
LEMMA RowsKept ==
    ASSUME OutcomeInvariant
    PROVE  /\ UNCHANGED recipient =>
                 /\ recipient' = [r \in Recipients |-> recipient'[r]]
                 /\ \A r \in Recipients : recipient'[r] = "SENT" => recipient[r] = "SENT"
           /\ UNCHANGED message =>
                 /\ message' = [m \in Messages |-> message'[m]]
                 /\ \A m \in Messages : message'[m] = "SENT" => message[m] = "SENT"
           /\ UNCHANGED lead =>
                 /\ lead' = [l \in Leads |-> lead'[l]]
                 /\ \A l \in Leads : lead'[l] # None =>
                       \/ MailedTo(l)
                       \/ "contacted" \in DOMAIN lead'[l] /\ ~lead'[l].contacted
           /\ UNCHANGED handler => HandlerShape'
           /\ UNCHANGED job => JobShape'
  BY DEF OutcomeInvariant, OutcomeShape, LeadIsBacked, HandlerShape, JobShape

\* A stage that is written over leaves the mark of a contact as it is.
LEMMA StageKept ==
    ASSUME OutcomeInvariant, NEW ls, NEW stage,
           lead' = [l \in Leads |->
                      IF l \in ls /\ lead[l] # None THEN [lead[l] EXCEPT !.crm = stage]
                      ELSE lead[l]]
    PROVE  /\ lead' = [l \in Leads |-> lead'[l]]
           /\ \A l \in Leads : lead'[l] # None =>
                 \/ MailedTo(l)
                 \/ "contacted" \in DOMAIN lead'[l] /\ ~lead'[l].contacted
<1>1. ASSUME NEW l \in Leads, lead[l] # None,
             "contacted" \in DOMAIN lead[l], ~lead[l].contacted
      PROVE  LET row == [lead[l] EXCEPT !.crm = stage]
             IN  "contacted" \in DOMAIN row /\ ~row.contacted
  BY <1>1
<1>2. \A l \in Leads : lead'[l] = IF l \in ls /\ lead[l] # None
                                  THEN [lead[l] EXCEPT !.crm = stage] ELSE lead[l]
  OBVIOUS
<1>3. ASSUME NEW l \in Leads, lead'[l] # None, ~MailedTo(l)
      PROVE  "contacted" \in DOMAIN lead'[l] /\ ~lead'[l].contacted
  <2>1. lead[l] # None => "contacted" \in DOMAIN lead[l] /\ ~lead[l].contacted
    BY <1>3 DEF OutcomeInvariant, LeadIsBacked
  <2> QED BY <1>1, <1>2, <1>3, <2>1
<1> QED BY <1>3

LEMMA SuppressedKept ==
    ASSUME OutcomeInvariant, NEW ls,
           lead' = [l \in Leads |-> IF l \in ls THEN SuppressedRow(l) ELSE lead[l]]
    PROVE  /\ lead' = [l \in Leads |-> lead'[l]]
           /\ \A l \in Leads : lead'[l] # None =>
                 \/ MailedTo(l)
                 \/ "contacted" \in DOMAIN lead'[l] /\ ~lead'[l].contacted
<1>1. ASSUME NEW l \in Leads, "contacted" \in DOMAIN lead[l], ~lead[l].contacted
      PROVE  LET row == [lead[l] EXCEPT !.crm = "SUPPRESSED", !.valid = "SUPPRESSED"]
             IN  "contacted" \in DOMAIN row /\ ~row.contacted
  BY <1>1
<1>2. \A l \in Leads : lead'[l] = IF l \in ls THEN SuppressedRow(l) ELSE lead[l]
  OBVIOUS
<1>3. ASSUME NEW l \in Leads, lead'[l] # None, ~MailedTo(l)
      PROVE  "contacted" \in DOMAIN lead'[l] /\ ~lead'[l].contacted
  <2>1. lead[l] # None => "contacted" \in DOMAIN lead[l] /\ ~lead[l].contacted
    BY <1>3 DEF OutcomeInvariant, LeadIsBacked
  <2> QED BY <1>1, <1>2, <1>3, <2>1 DEF SuppressedRow
<1> QED BY <1>3

LEMMA OutcomeRequests ==
    ASSUME OutcomeInvariant, FreshInvariant,
           \/ CampaignRequest \/ ApprovalRequest \/ LeadRequest \/ SuppressionRequest
    PROVE  OutcomeInvariant'
<1> USE DEF rowVars, mailHistory, campaignHistory, history
<1>0. OutcomeShape /\ HandlerShape
  BY DEF OutcomeInvariant, OutcomeShape
<1>1. ASSUME UNCHANGED <<recipient, job, handed>>, Grows,
             drafts' \in [Recipients -> Seq(Messages)],
             message' = [m \in Messages |-> message'[m]],
             \A m \in Messages : message'[m] = "SENT" => message[m] = "SENT",
             lead' = [l \in Leads |-> lead'[l]],
             \A l \in Leads : lead'[l] # None =>
                \/ MailedTo(l)
                \/ "contacted" \in DOMAIN lead'[l] /\ ~lead'[l].contacted,
             HandlerShape',
             \A h \in Handlers : handler'[h] = handler[h] \/ handler'[h].at \notin Approving
      PROVE  OutcomeInvariant'
  <2>1. OutcomeShape'
    BY <1>0, <1>1, RowsKept DEF OutcomeShape
  <2>2. /\ \A h \in Handlers : HandlerNames(h)'
        /\ \A j \in JobIds : SendNames(j)'
    BY <1>1, NamesKept
  <2> QED BY <1>1, <2>1, <2>2, RowsKept, OutcomeKept
<1>2. ASSUME UNCHANGED <<recipient, job, handed, drafts, message, lead>>,
             NEW h \in Handlers, NEW op, NEW at, NEW of, NEW todo,
             Serve(h, op, at, of, todo), at \notin Approving
      PROVE  OutcomeInvariant'
  BY <1>0, <1>1, <1>2, RowsKept, SameGrows, ServeMoves
<1>3. ASSUME UNCHANGED <<recipient, job, handed, drafts, message, lead, handler>>
      PROVE  OutcomeInvariant'
  BY <1>0, <1>1, <1>3, RowsKept, SameGrows
<1>4. ASSUME UNCHANGED <<recipient, job, handed, drafts, message, handler>>,
             lead' = [l \in Leads |-> lead'[l]],
             \A l \in Leads : lead'[l] # None =>
                \/ MailedTo(l)
                \/ "contacted" \in DOMAIN lead'[l] /\ ~lead'[l].contacted
      PROVE  OutcomeInvariant'
  BY <1>0, <1>1, <1>4, RowsKept, SameGrows
<1>5. CASE CampaignRequest
  BY <1>2, <1>3, <1>5 DEF CampaignRequest, ResolveTargets, TriggerGeneration,
                         HandleStatusAction, Approving
<1>6. ASSUME NEW h \in Handlers, NEW ls, AskSuppression(h, ls) PROVE OutcomeInvariant'
  BY <1>2, <1>6 DEF AskSuppression, Approving
<1>7. CASE ApprovalRequest
  <2>1. ASSUME NEW r \in Recipients, NEW m \in Messages, EditDraft(r, m)
        PROVE  OutcomeInvariant'
    <3>1. NewDraft(r, m) /\ UNCHANGED <<recipient, job, handed, lead, handler>>
      BY <2>1 DEF EditDraft
    <3> QED BY <1>0, <1>1, <3>1, DraftsGrow, RowsKept
  <2>2. ASSUME NEW h \in Handlers, NEW action, NEW rs, Decide(h, action, rs)
        PROVE  OutcomeInvariant'
    BY <1>2, <2>2 DEF Decide, Approving
  <2> QED BY <1>7, <2>1, <2>2 DEF ApprovalRequest
<1>8. CASE LeadRequest
  <2>1. ASSUME NEW ls, NEW stage, UpdateLeads(ls, stage) PROVE OutcomeInvariant'
    BY <1>4, <2>1, StageKept DEF UpdateLeads
  <2>2. ASSUME NEW ls, DeleteLeads(ls) PROVE OutcomeInvariant'
    <3>1. lead' = [l \in Leads |-> IF l \in ls THEN None ELSE lead[l]]
      BY <2>2 DEF DeleteLeads
    <3>2. \A l \in Leads : lead'[l] # None =>
             \/ MailedTo(l)
             \/ "contacted" \in DOMAIN lead'[l] /\ ~lead'[l].contacted
      BY <3>1 DEF OutcomeInvariant, LeadIsBacked
    <3> QED BY <1>4, <2>2, <3>1, <3>2 DEF DeleteLeads
  <2> QED BY <1>6, <1>8, <2>1, <2>2 DEF LeadRequest
<1>9. CASE SuppressionRequest
  BY <1>3, <1>6, <1>9 DEF SuppressionRequest, RemoveSuppression
<1> QED BY <1>5, <1>7, <1>8, <1>9

LEMMA OutcomeHandlerStep ==
    ASSUME OutcomeInvariant, FreshInvariant, NEW h \in Handlers, HandlerStep(h)
    PROVE  OutcomeInvariant'
<1> USE DEF rowVars, mailHistory, campaignHistory, history
<1>0. OutcomeShape /\ HandlerShape /\ JobShape /\ FreshShape /\ HandlerFits(h) /\ HandlerNames(h)
  BY DEF OutcomeInvariant, OutcomeShape, FreshInvariant, AllFit
<1>1. ASSUME UNCHANGED <<drafts, handed>>, HandlerShape', JobShape',
             recipient' = [r \in Recipients |-> recipient'[r]],
             \A r \in Recipients : recipient'[r] = "SENT" => recipient[r] = "SENT",
             message' = [m \in Messages |-> message'[m]],
             \A m \in Messages : message'[m] = "SENT" => message[m] = "SENT",
             lead' = [l \in Leads |-> lead'[l]],
             \A l \in Leads : lead'[l] # None =>
                \/ MailedTo(l)
                \/ "contacted" \in DOMAIN lead'[l] /\ ~lead'[l].contacted,
             \A j \in JobIds : SendNames(j)',
             \A k \in Handlers : k # h => handler'[k] = handler[k],
             HandlerNames(h)'
      PROVE  OutcomeInvariant'
  <2>1. Grows /\ OutcomeShape'
    BY <1>0, <1>1, SameGrows DEF OutcomeShape
  <2>2. \A k \in Handlers : HandlerNames(k)'
    BY <1>1, <2>1, NamesKept
  <2> QED BY <1>1, <2>1, <2>2, OutcomeKept
<1>g. UNCHANGED <<drafts, handed>> => Grows
  BY <1>0, SameGrows
<1>j. ASSUME UNCHANGED <<drafts, handed, job>> PROVE \A j \in JobIds : SendNames(j)'
  BY <1>g, <1>j, NamesKept
<1>n. ASSUME UNCHANGED <<drafts, handed>>, handler'[h].at \notin Approving
      PROVE  HandlerNames(h)'
  BY <1>g, <1>n, NamesKept
<1>m. ASSUME UNCHANGED drafts, handler'[h].of = handler[h].of, handler'[h].msg = handler[h].msg,
             handler[h].at \in Approving
      PROVE  HandlerNames(h)'
  BY <1>0, <1>m DEF HandlerNames, IdsOf
<1>s. ASSUME NEW r, NEW status, SetRecipient(r, status), status # "SENT"
      PROVE  /\ recipient' = [q \in Recipients |-> recipient'[q]]
             /\ \A q \in Recipients : recipient'[q] = "SENT" => recipient[q] = "SENT"
  BY <1>0, <1>s DEF SetRecipient, FreshShape
<1>a. ASSUME NEW todo, AfterAction(h, todo)
      PROVE  /\ HandlerShape' /\ \A k \in Handlers : k # h => handler'[k] = handler[k]
             /\ handler'[h].at \notin Approving
  BY <1>0, <1>a, AfterActionMoves DEF Approving, Idle
<1>r. ASSUME Return(h)
      PROVE  /\ HandlerShape' /\ \A k \in Handlers : k # h => handler'[k] = handler[k]
             /\ handler'[h].at \notin Approving
  BY <1>0, <1>r, ReturnMoves DEF Approving, Idle
<1>t. ASSUME NEW at, NEW todo, TakeUp(h, at, todo), at \notin Approving
      PROVE  /\ HandlerShape' /\ \A k \in Handlers : k # h => handler'[k] = handler[k]
             /\ handler'[h].at \notin Approving
  BY <1>0, <1>t, TodoMoves
<1>w. ASSUME NEW at, NEW r, NEW m, Working(h, at, r, m), at \notin Approving
      PROVE  /\ HandlerShape' /\ \A k \in Handlers : k # h => handler'[k] = handler[k]
             /\ handler'[h].at \notin Approving
  BY <1>0, <1>w, WorkingMoves
<1>2. CASE CreateCampaign(h)
  <2>1. /\ TakeUp(h, "enrol", handler[h].todo \cap Uncontacted)
        /\ UNCHANGED <<recipient, job, handed, drafts, message, lead>>
    BY <1>0, <1>2 DEF CreateCampaign, HandlerShape, TakeUp
  <2> QED BY <1>1, <1>j, <1>n, <1>t, <2>1, RowsKept DEF Approving
<1>3. CASE EnrolTargets(h)
  <2>1. Return(h) /\ UNCHANGED <<job, handed, drafts, message, lead>>
    BY <1>3 DEF EnrolTargets
  <2>2. /\ recipient' = [q \in Recipients |-> recipient'[q]]
        /\ \A q \in Recipients : recipient'[q] = "SENT" => recipient[q] = "SENT"
    BY <1>3 DEF EnrolTargets
  <2> QED BY <1>1, <1>j, <1>n, <1>r, <2>1, <2>2, RowsKept
<1>4. CASE SelectPending(h)
  <2>1. UNCHANGED <<recipient, job, handed, drafts, message, lead>>
    BY <1>4 DEF SelectPending
  <2>2. Return(h) \/ TakeUp(h, "enqueue", Pending(handler[h].of))
    BY <1>4 DEF SelectPending, TakeUp
  <2>3. /\ HandlerShape' /\ \A k \in Handlers : k # h => handler'[k] = handler[k]
        /\ handler'[h].at \notin Approving
    BY <1>r, <1>t, <2>2 DEF Approving
  <2> QED BY <1>1, <1>j, <1>n, <2>1, <2>3, RowsKept
<1>5. CASE MarkApproved(h)
  <2>1. /\ handler[h].at \in Approving /\ SetRecipient(handler[h].of, "APPROVED")
        /\ UNCHANGED <<job, handed, drafts, message, lead>>
    BY <1>5 DEF MarkApproved, OnStep, Approving
  <2>2. PICK at : Goto(h, at)
    BY <1>5 DEF MarkApproved
  <2>3. /\ HandlerShape' /\ \A k \in Handlers : k # h => handler'[k] = handler[k]
        /\ HandlerNames(h)'
    BY <1>0, <1>m, <2>1, <2>2, GotoMoves
  <2> QED BY <1>1, <1>j, <1>s, <2>1, <2>3, RowsKept
<1>6. CASE ApproveDraft(h)
  <2>1. /\ handler[h].at \in Approving /\ Goto(h, "dispatch")
        /\ message' = [message EXCEPT ![handler[h].msg] = "APPROVED"]
        /\ UNCHANGED <<recipient, job, handed, drafts, lead>>
    BY <1>6 DEF ApproveDraft, OnStep, Approving
  <2>2. /\ HandlerShape' /\ \A k \in Handlers : k # h => handler'[k] = handler[k]
        /\ HandlerNames(h)'
    BY <1>0, <1>m, <2>1, GotoMoves
  <2>3. /\ message' = [m \in Messages |-> message'[m]]
        /\ \A m \in Messages : message'[m] = "SENT" => message[m] = "SENT"
    BY <1>0, <2>1 DEF OutcomeShape
  <2> QED BY <1>1, <1>j, <2>1, <2>2, <2>3, RowsKept
<1>7. CASE EnqueueSend(h)
  <2> DEFINE of == handler[h].of
             msg == handler[h].msg
  <2>1. /\ handler[h].at = "dispatch" /\ AfterAction(h, handler[h].todo)
        /\ job' = Added(SendId(of), msg)
        /\ UNCHANGED <<recipient, handed, drafts, message, lead>>
    BY <1>7 DEF EnqueueSend, OnStep
  <2>2. of \in Recipients /\ (msg = None \/ msg \in IdsOf(of))
    BY <1>0, <2>1 DEF HandlerFits, HandlerNames, Decision, Approving, Present
  <2>3. JobShape' /\ \A k \in JobIds : \/ job'[k] = job[k]
                                       \/ /\ k = SendId(of) /\ job'[k].state = "waiting"
                                          /\ job'[k].data = msg
    BY <1>0, <2>1, AddMoves
  <2>4. ASSUME NEW k \in JobIds PROVE SendNames(k)'
    <3>1. CASE job'[k] = job[k]
      BY <1>g, <2>1, <3>1, NamesKept
    <3>2. CASE k = SendId(of) /\ job'[k].state = "waiting" /\ job'[k].data = msg
      <4>1. k.of = of
        BY <2>2, <3>2, SendIdIsOne
      <4>2. IdsOf(k.of)' = IdsOf(k.of)
        BY <2>1 DEF IdsOf
      <4>3. job'[k].data = None \/ job'[k].data \in IdsOf(k.of)
        BY <2>2, <3>2, <4>1
      <4> QED BY <3>2, <4>2, <4>3 DEF SendNames
    <3> QED BY <2>3, <3>1, <3>2
  <2> QED BY <1>1, <1>a, <1>n, <2>1, <2>3, <2>4, RowsKept
<1>k. ASSUME NEW id, id.kind # "send", job' = Added(id, None), UNCHANGED <<drafts, handed>>
      PROVE  JobShape' /\ \A k \in JobIds : SendNames(k)'
  BY <1>0, <1>g, <1>k, AddMoves, NamesKept
<1>8. CASE SuppressLeadOf(h)
  <2> DEFINE l == handler[h].of[2]
  <2>1. /\ Goto(h, "suppressRecipient")
        /\ lead' = [lead EXCEPT ![l] = SuppressedRow(l)]
        /\ UNCHANGED <<recipient, job, handed, drafts, message>>
    BY <1>8 DEF SuppressLeadOf
  <2>2. /\ HandlerShape' /\ \A k \in Handlers : k # h => handler'[k] = handler[k]
        /\ handler'[h].at \notin Approving
    BY <1>0, <2>1, GotoMoves DEF Approving
  <2>3. lead' = [k \in Leads |-> IF k \in {l} THEN SuppressedRow(k) ELSE lead[k]]
    BY <1>0, <2>1 DEF OutcomeShape
  <2> QED BY <1>1, <1>j, <1>n, <2>1, <2>2, <2>3, RowsKept, SuppressedKept
<1>9. CASE CloseRecipient(h)
  <2>1. /\ AfterAction(h, handler[h].todo) /\ SetRecipient(handler[h].of, "SUPPRESSED")
        /\ UNCHANGED <<job, handed, drafts, message, lead>>
    BY <1>9 DEF CloseRecipient
  <2> QED BY <1>1, <1>a, <1>j, <1>n, <1>s, <2>1, RowsKept
<1>10. CASE MarkLeadsSuppressed(h)
  <2>1. /\ Return(h) /\ UNCHANGED <<recipient, job, handed, drafts, message>>
        /\ lead' = [l \in Leads |-> IF l \in handler[h].all THEN SuppressedRow(l) ELSE lead[l]]
    BY <1>10 DEF MarkLeadsSuppressed
  <2> QED BY <1>1, <1>j, <1>n, <1>r, <2>1, RowsKept, SuppressedKept
<1>11. ASSUME NEW r \in Recipients, EnqueueGeneration(h, r) PROVE OutcomeInvariant'
  <2> DEFINE id == [kind |-> "ai-gen", of |-> r, stamp |-> None]
  <2>1. /\ id.kind # "send" /\ job' = Added(id, None) /\ handler[h].at = "enqueue"
        /\ UNCHANGED <<recipient, handed, drafts, message, lead>>
    BY <1>11 DEF EnqueueGeneration, OnStep
  <2> HIDE DEF id
  <2>2. Return(h) \/ TakeUp(h, "enqueue", handler[h].todo \ {r})
    BY <1>0, <1>11, <2>1 DEF EnqueueGeneration, HandlerShape, TakeUp
  <2>3. /\ HandlerShape' /\ \A k \in Handlers : k # h => handler'[k] = handler[k]
        /\ handler'[h].at \notin Approving
    BY <1>r, <1>t, <2>2 DEF Approving
  <2> QED BY <1>1, <1>k, <1>n, <2>1, <2>3, RowsKept
<1>12. ASSUME NEW r \in Recipients, CheckBeforeApproval(h, r) PROVE OutcomeInvariant'
  <2>1. UNCHANGED <<recipient, job, handed, drafts, message, lead>>
    BY <1>12 DEF CheckBeforeApproval
  <2>2. CASE AfterAction(h, handler[h].todo \ {r})
    BY <1>1, <1>a, <1>j, <1>n, <2>1, <2>2, RowsKept
  <2>3. CASE \E m \in FirstOf(r) : Working(h, "approve", r, m)
    <3>1. PICK m \in FirstOf(r) : Working(h, "approve", r, m)
      BY <2>3
    <3>2. m = None \/ m \in IdsOf(r)
      BY DEF FirstOf
    <3>3. /\ HandlerShape' /\ \A k \in Handlers : k # h => handler'[k] = handler[k]
          /\ handler'[h].of = r /\ handler'[h].msg = m
      BY <1>0, <3>1, WorkingMoves
    <3>4. HandlerNames(h)'
      BY <2>1, <3>2, <3>3 DEF HandlerNames, IdsOf
    <3> QED BY <1>1, <1>j, <2>1, <3>3, <3>4, RowsKept
  <2> QED BY <1>12, <2>2, <2>3 DEF CheckBeforeApproval
<1>13. ASSUME NEW r \in Recipients, Regenerate(h, r) PROVE OutcomeInvariant'
  <2>1. /\ Working(h, "regenerate", r, None) /\ SetRecipient(r, "PENDING")
        /\ UNCHANGED <<job, handed, drafts, message, lead>>
    BY <1>13 DEF Regenerate
  <2> QED BY <1>1, <1>j, <1>n, <1>s, <1>w, <2>1, RowsKept DEF Approving
<1>14. ASSUME NEW r \in Recipients, Skip(h, r) PROVE OutcomeInvariant'
  <2>1. /\ AfterAction(h, handler[h].todo \ {r}) /\ SetRecipient(r, "CANCELLED")
        /\ UNCHANGED <<job, handed, drafts, message, lead>>
    BY <1>14 DEF Skip
  <2> QED BY <1>1, <1>a, <1>j, <1>n, <1>s, <2>1, RowsKept
<1>15. ASSUME NEW r \in Recipients, SuppressRecipient(h, r) PROVE OutcomeInvariant'
  <2>1. /\ Working(h, "suppressLead", r, None)
        /\ UNCHANGED <<recipient, job, handed, drafts, message, lead>>
    BY <1>15 DEF SuppressRecipient, List
  <2> QED BY <1>1, <1>j, <1>n, <1>w, <2>1, RowsKept DEF Approving
<1>16. ASSUME NEW l \in Leads, UpsertEntry(h, l) PROVE OutcomeInvariant'
  <2>1. handler[h].at = "list" /\ UNCHANGED <<recipient, job, handed, drafts, message, lead>>
    BY <1>16 DEF UpsertEntry, OnStep, List
  <2>2. PICK at \in {"list", "markLeads"} : TakeUp(h, at, handler[h].todo \ {l})
    BY <1>0, <1>16, <2>1 DEF UpsertEntry, HandlerShape, TakeUp
  <2>3. at \notin Approving
    BY DEF Approving
  <2> QED BY <1>1, <1>j, <1>n, <1>t, <2>1, <2>2, <2>3, RowsKept
<1>17. ASSUME NEW now \in Stamps, EnqueueRegeneration(h, now) PROVE OutcomeInvariant'
  <2> DEFINE id == [kind |-> "ai-gen-regen", of |-> handler[h].of, stamp |-> now]
  <2>1. /\ id.kind # "send" /\ job' = Added(id, None) /\ AfterAction(h, handler[h].todo)
        /\ UNCHANGED <<recipient, handed, drafts, message, lead>>
    BY <1>17 DEF EnqueueRegeneration
  <2> HIDE DEF id
  <2> QED BY <1>1, <1>a, <1>k, <1>n, <2>1, RowsKept
<1> QED
  BY <1>2, <1>3, <1>4, <1>5, <1>6, <1>7, <1>8, <1>9, <1>10, <1>11, <1>12, <1>13, <1>14,
     <1>15, <1>16, <1>17 DEF HandlerStep

LEMMA OutcomeJobStep ==
    ASSUME OutcomeInvariant, FreshInvariant, NEW j \in JobIds, JobStep(j)
    PROVE  OutcomeInvariant'
<1> USE DEF rowVars, mailHistory, campaignHistory, history
<1>0. OutcomeShape /\ HandlerShape /\ JobShape /\ FreshShape /\ SendNames(j)
      /\ j.of \in Recipients /\ IdsOf(j.of) \subseteq Messages
  BY DraftsAreMessages DEF OutcomeInvariant, OutcomeShape, FreshInvariant, JobIds
<1>1. ASSUME UNCHANGED handler, Grows, JobShape',
             drafts' \in [Recipients -> Seq(Messages)], handed' \in [Messages -> Nat],
             recipient' = [r \in Recipients |-> recipient'[r]],
             \A r \in Recipients : recipient'[r] = "SENT" => recipient[r] = "SENT" \/ Mailed(r),
             message' = [m \in Messages |-> message'[m]],
             \A m \in Messages : message'[m] = "SENT" => message[m] = "SENT" \/ handed[m] > 0,
             lead' = [l \in Leads |-> lead'[l]],
             \A l \in Leads : lead'[l] # None =>
                \/ MailedTo(l)
                \/ "contacted" \in DOMAIN lead'[l] /\ ~lead'[l].contacted,
             \A k \in JobIds : k # j => job'[k] = job[k],
             SendNames(j)'
      PROVE  OutcomeInvariant'
  <2>1. OutcomeShape'
    BY <1>0, <1>1, RowsKept DEF OutcomeShape
  <2>2. (\A k \in JobIds : SendNames(k)') /\ \A h \in Handlers : HandlerNames(h)'
    BY <1>1, NamesKept
  <2> QED BY <1>1, <2>1, <2>2, OutcomeKept
<1>f. ASSUME Fail(j), Grows PROVE SendNames(j)'
  BY <1>0, <1>f, FailMoves, NamesKept
<1>2. CASE Complete(j)
  <2>1. UNCHANGED <<handler, drafts, handed, recipient, message, lead>>
    BY <1>2 DEF Complete
  <2>2. /\ JobShape' /\ \A k \in JobIds : k # j => job'[k] = job[k]
        /\ job'[j].state = "absent"
    BY <1>0, <1>2, CompleteMoves
  <2>3. Grows /\ SendNames(j)'
    BY <1>0, <2>1, <2>2, SameGrows, NamesKept
  <2> QED BY <1>0, <1>1, <2>1, <2>2, <2>3, RowsKept, SameGrows
<1>3. ASSUME j \in GenerationIds, GenerationStep(j) PROVE OutcomeInvariant'
  <2>1. /\ JobShape' /\ \A k \in JobIds : k # j => job'[k] = job[k]
    BY <1>0, <1>3, FailMoves, AdvanceMoves
       DEF GenerationStep, StartGeneration, GenerationFails, WriteDraft, MarkReady,
           CountPending, ReleaseCampaign
  <2>2. Grows => SendNames(j)'
    BY <1>3, NamesKept DEF GenerationIds
  <2>3. CASE \E m \in Messages : WriteDraft(j, m)
    <3>1. PICK m \in Messages : NewDraft(j.of, m)
      BY <2>3 DEF WriteDraft
    <3>2. UNCHANGED <<handler, handed, recipient, lead>>
      BY <2>3 DEF WriteDraft
    <3>3. /\ drafts' \in [Recipients -> Seq(Messages)] /\ Grows
          /\ message' = [n \in Messages |-> message'[n]]
          /\ \A n \in Messages : message'[n] = "SENT" => message[n] = "SENT"
      BY <1>0, <3>1, <3>2, DraftsGrow
    <3>4. handed' \in [Messages -> Nat]
      BY <1>0, <3>2 DEF OutcomeShape
    <3> QED BY <1>1, <2>1, <2>2, <3>2, <3>3, <3>4, RowsKept
  <2>4. CASE MarkReady(j)
    <3>1. SetRecipient(j.of, "READY_FOR_REVIEW")
          /\ UNCHANGED <<handler, drafts, handed, message, lead>>
      BY <2>4 DEF MarkReady
    <3>2. /\ recipient' = [q \in Recipients |-> recipient'[q]]
          /\ \A q \in Recipients : recipient'[q] = "SENT" => recipient[q] = "SENT"
      BY <1>0, <3>1 DEF SetRecipient, FreshShape
    <3> QED BY <1>0, <1>1, <2>1, <2>2, <3>1, <3>2, RowsKept, SameGrows
  <2>5. CASE StartGeneration(j) \/ GenerationFails(j) \/ CountPending(j) \/ ReleaseCampaign(j)
    <3>1. UNCHANGED <<handler, drafts, handed, recipient, message, lead>>
      BY <2>5 DEF StartGeneration, GenerationFails, CountPending, ReleaseCampaign
    <3> QED BY <1>0, <1>1, <2>1, <2>2, <3>1, RowsKept, SameGrows
  <2> QED BY <1>3, <2>3, <2>4, <2>5 DEF GenerationStep
<1>4. ASSUME j \notin GenerationIds, SendStep(j) PROVE OutcomeInvariant'
  <2> DEFINE msg == job[j].msg
  <2>0. j.kind = "send"
    BY <1>4 DEF GenerationIds
  <2>a. ASSUME NEW step, Advance(j, step), At(j, job[j].at), Grows, job[j].at \in Sending,
               step \in Recording => handed'[msg] > 0
        PROVE  SendNames(j)'
    <3>1. /\ job'[j].state = "active" /\ job'[j].at = step
          /\ job'[j].data = job[j].data /\ job'[j].msg = job[j].msg
      BY <1>0, <2>a, AdvanceMoves
    <3>2. (job[j].data = None \/ job[j].data \in IdsOf(j.of)) /\ msg \in IdsOf(j.of)
      BY <1>0, <2>0, <2>a DEF SendNames, At
    <3>3. IdsOf(j.of) \subseteq IdsOf(j.of)'
      BY <1>0, <2>a DEF Grows
    <3> QED BY <2>a, <3>1, <3>2, <3>3 DEF SendNames
  <2>m. ASSUME NEW step, Advance(j, step) \/ Fail(j) \/ StartSend(j)
        PROVE  JobShape' /\ \A k \in JobIds : k # j => job'[k] = job[k]
    BY <1>0, <2>m, AdvanceMoves, FailMoves, StartMoves
  <2>1. CASE StartSend(j)
    <3>1. UNCHANGED <<handler, drafts, handed, recipient, message, lead>>
      BY <2>1 DEF StartSend
    <3>2. Grows /\ IdsOf(j.of)' = IdsOf(j.of)
      BY <1>0, <3>1, SameGrows DEF IdsOf
    <3>3. \/ job'[j].state = "failed"
          \/ /\ job'[j].state = "active" /\ job'[j].at \in {"refuse", "send"}
             /\ Loaded(j) # None /\ job'[j].msg = Loaded(j) /\ job'[j].data = job[j].data
      BY <1>0, <2>1, StartMoves
    <3>4. job[j].data = None \/ job[j].data \in IdsOf(j.of)
      BY <1>0, <2>0, <2>1 DEF SendNames, StartSend
    <3>5. Loaded(j) # None => Loaded(j) \in IdsOf(j.of)
      BY <1>0, <3>4, DraftsAreMessages DEF Loaded
    <3>6. SendNames(j)'
      BY <3>2, <3>3, <3>4, <3>5 DEF SendNames, Recording
    <3> QED BY <1>0, <1>1, <2>1, <2>m, <3>1, <3>2, <3>6, RowsKept, SameGrows
  <2>2. CASE RefuseSend(j)
    <3>1. /\ UNCHANGED <<handler, drafts, handed, recipient, lead>>
          /\ message' = [message EXCEPT ![msg] = "FAILED"]
          /\ Advance(j, "suppress") /\ At(j, "refuse")
      BY <2>2 DEF RefuseSend
    <3>2. Grows /\ SendNames(j)'
      BY <1>0, <2>a, <3>1, SameGrows DEF At, Sending, Recording
    <3>3. /\ message' = [m \in Messages |-> message'[m]]
          /\ \A m \in Messages : message'[m] = "SENT" => message[m] = "SENT"
      BY <1>0, <3>1 DEF OutcomeShape
    <3> QED BY <1>0, <1>1, <2>m, <3>1, <3>2, <3>3, RowsKept, SameGrows
  <2>3. CASE SuppressTarget(j)
    <3>1. /\ UNCHANGED <<handler, drafts, handed, message, lead>>
          /\ SetRecipient(j.of, "SUPPRESSED") /\ Advance(j, "refused")
      BY <2>3 DEF SuppressTarget
    <3>2. /\ recipient' = [q \in Recipients |-> recipient'[q]]
          /\ \A q \in Recipients : recipient'[q] = "SENT" => recipient[q] = "SENT"
      BY <1>0, <3>1 DEF SetRecipient, FreshShape
    <3>3. Grows
      BY <1>0, <3>1, SameGrows
    <3>4. SendNames(j)'
      <4>1. job[j].state = "active" /\ job'[j].data = job[j].data
            /\ job'[j].state = "active" /\ job'[j].at = "refused"
        BY <1>0, <2>3, <3>1, AdvanceMoves DEF SuppressTarget, At
      <4>2. job[j].data = None \/ job[j].data \in IdsOf(j.of)'
        BY <1>0, <2>0, <3>3, <4>1 DEF SendNames, Grows
      <4> QED BY <4>1, <4>2 DEF SendNames, Sending, Recording
    <3> QED BY <1>0, <1>1, <2>m, <3>1, <3>2, <3>3, <3>4, RowsKept, SameGrows
  <2>h. ASSUME Handing(j)
        PROVE  /\ UNCHANGED <<handler, drafts, recipient, message, lead>>
               /\ Grows /\ handed' \in [Messages -> Nat] /\ handed'[msg] > 0
    <3>1. /\ UNCHANGED <<handler, drafts, recipient, message, lead>>
          /\ handed' = [handed EXCEPT ![msg] = handed[msg] + 1] /\ At(j, "send")
      BY <2>h DEF Handing
    <3>2. msg \in Messages
      BY <1>0, <2>0, <3>1 DEF SendNames, At, Sending
    <3>3. /\ handed' \in [Messages -> Nat] /\ handed'[msg] > 0
          /\ \A m \in Messages : handed[m] > 0 => handed'[m] > 0
      BY <1>0, <3>1, <3>2 DEF OutcomeShape
    <3> QED BY <3>1, <3>3 DEF Grows, IdsOf
  <2>4. CASE HandOff(j)
    <3>1. /\ Handing(j) /\ Advance(j, "record") /\ At(j, "send")
      BY <2>4 DEF HandOff, Handing
    <3>2. SendNames(j)'
      BY <2>a, <2>h, <3>1 DEF At, Sending
    <3>3. drafts' \in [Recipients -> Seq(Messages)]
      BY <1>0, <2>h, <3>1 DEF OutcomeShape
    <3> QED BY <1>0, <1>1, <2>h, <2>m, <3>1, <3>2, <3>3, RowsKept
  <2>5. CASE HandOffTimesOut(j)
    <3>1. Handing(j) /\ Fail(j)
      BY <2>5 DEF HandOffTimesOut
    <3>2. drafts' \in [Recipients -> Seq(Messages)]
      BY <1>0, <2>h, <3>1 DEF OutcomeShape
    <3> QED BY <1>0, <1>1, <1>f, <2>h, <2>m, <3>1, <3>2, RowsKept
  <2>6. CASE HandOffRefused(j)
    <3>1. Fail(j) /\ UNCHANGED <<handler, drafts, handed, recipient, message, lead>>
      BY <2>6 DEF HandOffRefused
    <3> QED BY <1>0, <1>1, <1>f, <2>m, <3>1, RowsKept, SameGrows
  <2>r. ASSUME NEW at \in Recording, At(j, at)
        PROVE  msg \in IdsOf(j.of) /\ msg \in Messages /\ handed[msg] > 0
    BY <1>0, <2>0, <2>r DEF SendNames, At, Sending
  <2>7. CASE RecordSent(j)
    <3>1. /\ UNCHANGED <<handler, drafts, handed, recipient, lead>>
          /\ message' = [message EXCEPT ![msg] = "SENT"]
          /\ Advance(j, "attribute") /\ At(j, "record")
      BY <2>7 DEF RecordSent
    <3>2. handed[msg] > 0
      BY <2>r, <3>1 DEF Recording
    <3>3. Grows /\ SendNames(j)'
      BY <1>0, <2>a, <3>1, <3>2, SameGrows DEF At, Sending, Recording
    <3>4. /\ message' = [m \in Messages |-> message'[m]]
          /\ \A m \in Messages : message'[m] = "SENT" => message[m] = "SENT" \/ handed[m] > 0
      BY <1>0, <3>1, <3>2 DEF OutcomeShape
    <3> QED BY <1>0, <1>1, <2>m, <3>1, <3>3, <3>4, RowsKept, SameGrows
  <2>8. CASE AttributeSent(j)
    <3>1. /\ UNCHANGED <<handler, drafts, handed, message, lead>>
          /\ SetRecipient(j.of, "SENT") /\ Advance(j, "contact") /\ At(j, "attribute")
      BY <2>8 DEF AttributeSent
    <3>2. Mailed(j.of) /\ handed[msg] > 0
      BY <2>r, <3>1 DEF Recording, Mailed
    <3>3. Grows /\ SendNames(j)'
      BY <1>0, <2>a, <3>1, <3>2, SameGrows DEF At, Sending, Recording
    <3>4. /\ recipient' = [q \in Recipients |-> recipient'[q]]
          /\ \A q \in Recipients : recipient'[q] = "SENT" => recipient[q] = "SENT" \/ Mailed(q)
      BY <1>0, <3>1, <3>2 DEF SetRecipient, FreshShape
    <3> QED BY <1>0, <1>1, <2>m, <3>1, <3>3, <3>4, RowsKept, SameGrows
  <2>9. CASE MarkContacted(j)
    <3>1. /\ UNCHANGED <<handler, drafts, handed, recipient, message>>
          /\ Advance(j, "done") /\ At(j, "contact")
          /\ \A l \in Leads : l # j.of[2] => lead'[l] = lead[l]
          /\ lead' = [l \in Leads |-> lead'[l]]
      BY <1>0, <2>9 DEF MarkContacted, OutcomeShape
    <3>2. j.of[2] \in Leads /\ j.of[1] \in Campaigns /\ j.of = <<j.of[1], j.of[2]>>
      BY <1>0 DEF Recipients
    <3>3. MailedTo(j.of[2])
      BY <2>r, <3>1, <3>2 DEF Recording, MailedTo
    <3>4. Grows /\ SendNames(j)'
      BY <1>0, <2>a, <3>1, SameGrows DEF At, Sending, Recording
    <3>5. \A l \in Leads : lead'[l] # None =>
             \/ MailedTo(l)
             \/ "contacted" \in DOMAIN lead'[l] /\ ~lead'[l].contacted
      BY <3>1, <3>3 DEF OutcomeInvariant, LeadIsBacked
    <3> QED BY <1>0, <1>1, <2>m, <3>1, <3>4, <3>5, RowsKept, SameGrows
  <2> QED BY <1>4, <2>1, <2>2, <2>3, <2>4, <2>5, <2>6, <2>7, <2>8, <2>9 DEF SendStep
<1> QED BY <1>2, <1>3, <1>4 DEF JobStep

LEMMA OutcomeStep ==
    ASSUME OutcomeInvariant, FreshInvariant, [Next]_vars
    PROVE  OutcomeInvariant'
<1> USE DEF rowVars, mailHistory, campaignHistory, history
<1>0. OutcomeShape /\ HandlerShape /\ JobShape
  BY DEF OutcomeInvariant, OutcomeShape
<1>1. ASSUME UNCHANGED rowVars, UNCHANGED handed, HandlerShape', JobShape',
             \A h \in Handlers : handler'[h] = handler[h] \/ handler'[h] = Idle,
             \A j \in JobIds : SendNames(j)'
      PROVE  OutcomeInvariant'
  <2>1. Grows /\ OutcomeShape'
    BY <1>0, <1>1, SameGrows, RowsKept DEF OutcomeShape
  <2>2. \A h \in Handlers : HandlerNames(h)'
    BY <1>1, <2>1, NamesKept DEF Approving, Idle
  <2> QED BY <1>1, <2>1, <2>2, RowsKept, OutcomeKept
<1>2. CASE WorkerCrash
  <2>1. UNCHANGED rowVars /\ UNCHANGED <<handler, handed>>
    BY <1>2 DEF WorkerCrash
  <2>2. /\ JobShape'
        /\ \A k \in JobIds : \/ job'[k] = job[k]
                             \/ /\ job'[k].state \in {"waiting", "failed"}
                                /\ job'[k].data = job[k].data
                                /\ job[k].state = "active"
    BY <1>0, <1>2, CrashMoves
  <2>3. Grows
    BY <1>0, <2>1, SameGrows
  <2>4. ASSUME NEW k \in JobIds PROVE SendNames(k)'
    <3>1. CASE job'[k] = job[k]
      BY <2>3, <3>1, NamesKept
    <3>2. CASE /\ job'[k].state \in {"waiting", "failed"}
               /\ job'[k].data = job[k].data /\ job[k].state = "active"
      <4>1. IdsOf(k.of) \subseteq IdsOf(k.of)' /\ SendNames(k)
        BY <2>3 DEF Grows, JobIds, OutcomeInvariant
      <4> QED BY <3>2, <4>1 DEF SendNames
    <3> QED BY <2>2, <3>1, <3>2
  <2> QED BY <1>1, <2>1, <2>2, <2>4, RowsKept
<1>3. CASE ApiCrash
  <2>1. UNCHANGED rowVars /\ UNCHANGED <<job, handed>>
        /\ handler' = [h \in Handlers |-> Idle]
    BY <1>3 DEF ApiCrash
  <2>2. HandlerShape' /\ JobShape' /\ Grows
    BY <1>0, <2>1, RowsKept, SameGrows DEF HandlerShape, Idle
  <2>3. \A k \in JobIds : SendNames(k)'
    BY <2>1, <2>2, NamesKept
  <2> QED BY <1>1, <2>1, <2>2, <2>3
<1>4. CASE UNCHANGED vars
  <2>1. UNCHANGED rowVars /\ UNCHANGED <<job, handed, handler>>
    BY <1>4 DEF vars
  <2>2. Grows
    BY <1>0, <2>1, SameGrows
  <2>3. \A k \in JobIds : SendNames(k)'
    BY <2>1, <2>2, NamesKept
  <2> QED BY <1>1, <2>1, <2>3, RowsKept
<1> QED
  BY <1>2, <1>3, <1>4, OutcomeRequests, OutcomeHandlerStep, OutcomeJobStep DEF Next

\* What is recorded as sent or contacted rests on a mail the provider took, for any
\* number of runs, re-runs, approvals and crashes (email-send.processor:150-175).
THEOREM RecordsAreBacked == Spec => []OutcomesAreBacked
<1>1. OutcomeInvariant => OutcomesAreBacked
  BY DEF OutcomeInvariant, OutcomesAreBacked, LeadIsBacked, Mailed, MailedTo
<1>2. OutcomeInvariant /\ FreshInvariant /\ [Next]_vars
        => (OutcomeInvariant /\ FreshInvariant)'
  BY OutcomeStep, FreshStep
<1> QED BY OutcomeStarts, FreshStarts, <1>1, <1>2, PTL DEF Spec

-----------------------------------------------------------------------------
(* Types *)

Steps == {"start", "draft", "mark", "count", "release", "send", "refuse",
          "suppress", "refused", "record", "attribute", "contact", "done"}
JobRow == [state : {"absent", "waiting", "active", "failed"}, at : Steps,
           data : Messages \cup {None}, msg : Messages \cup {None},
           stalls : 0 .. MaxStalled + 1]

\* A job that may run has not stalled too often.
Runs(j) == job[j].state \in {"waiting", "active"}
JobsTyped ==
    /\ job \in [JobIds -> JobRow]
    /\ \A j \in JobIds : Runs(j) => job[j].stalls <= MaxStalled

\* The lead of a recipient is there: it cannot be deleted.
LeadsTyped ==
    /\ lead \in [Leads -> LeadRow \cup {None}]
    /\ listed \subseteq Leads
    /\ \A r \in Present : lead[r[2]] \in LeadRow

RowsTyped ==
    /\ campaign \in [Campaigns -> CampaignStatus]
    /\ recipient \in [Recipients -> RecipientStatus]
    /\ message \in [Messages -> EmailStatus]
    /\ reviewed \subseteq Messages

TodoTyped(h) == handler[h].todo \subseteq Recipients \cup Leads

TypedInvariant ==
    /\ JobsTyped /\ LeadsTyped /\ RowsTyped
    /\ \A h \in Handlers : TodoTyped(h)

LEMMA StallsAreNumbers == MaxStalled \in Nat /\ 0 .. MaxStalled + 1 \subseteq Nat
  BY BoundsAreNumbers

LEMMA TypedStarts == Init => TypedInvariant
<1> SUFFICES ASSUME Init PROVE TypedInvariant
  OBVIOUS
<1>1. JobsTyped
  BY StallsAreNumbers DEF Init, JobsTyped, JobRow, Steps, NoJob, Runs
<1>2. LeadsTyped
  <2>1. [crm |-> "IMPORTED", valid |-> "VALID", contacted |-> FALSE] \in LeadRow
    BY DEF LeadRow, CrmStatus, ValidationStatus
  <2>2. \A l \in Leads : lead[l] \in LeadRow
    BY <2>1 DEF Init
  <2> QED BY <2>1, <2>2 DEF Init, LeadsTyped, Present, Recipients
<1>3. RowsTyped
  BY DEF Init, RowsTyped, CampaignStatus, RecipientStatus, EmailStatus
<1>4. \A h \in Handlers : TodoTyped(h)
  BY DEF Init, TodoTyped, Idle
<1> QED BY <1>1, <1>2, <1>3, <1>4 DEF TypedInvariant

\* A job that moves on keeps the number of its stalls, and the others are as they were.
LEMMA AdvanceKeepsTypes ==
    ASSUME JobsTyped, NEW j \in JobIds, Runs(j), NEW step \in Steps, Advance(j, step)
    PROVE  /\ JobsTyped'
           /\ job'[j].state = "active" /\ job'[j].at = step
           /\ job'[j].stalls = job[j].stalls
           /\ \A k \in JobIds : k # j => job'[k] = job[k]
<1> DEFINE new == [job[j] EXCEPT !.state = "active", !.at = step]
<1>1. job[j] \in JobRow /\ job[j].stalls <= MaxStalled
  BY DEF JobsTyped
<1>2. new \in JobRow /\ new.state = "active" /\ new.at = step /\ new.stalls = job[j].stalls
  BY <1>1 DEF JobRow
<1>3. job' = [job EXCEPT ![j] = new]
  BY DEF Advance, JobsTyped
<1> HIDE DEF new
<1> QED BY <1>1, <1>2, <1>3 DEF JobsTyped, Runs

LEMMA FailKeepsTypes ==
    ASSUME JobsTyped, NEW j \in JobIds, Fail(j)
    PROVE  /\ JobsTyped' /\ \A k \in JobIds : k # j => job'[k] = job[k]
<1> DEFINE new == [job[j] EXCEPT !.state = "failed", !.at = "start"]
<1>1. job[j] \in JobRow
  BY DEF JobsTyped
<1>2. new \in JobRow /\ new.state = "failed"
  BY <1>1 DEF JobRow, Steps
<1>3. job' = [job EXCEPT ![j] = new]
  BY DEF Fail, JobsTyped
<1> HIDE DEF new
<1> QED BY <1>2, <1>3 DEF JobsTyped, Runs

LEMMA AddKeepsTypes ==
    ASSUME JobsTyped, NEW id, NEW m \in Messages \cup {None}, job' = Added(id, m)
    PROVE  /\ JobsTyped'
           /\ \A k \in JobIds : job[k].state # "absent" => job'[k] = job[k]
<1> DEFINE new == [NoJob EXCEPT !.state = "waiting", !.data = m]
<1>1. new \in JobRow /\ new.stalls <= MaxStalled
  <2>1. NoJob \in JobRow /\ NoJob.stalls = 0
    BY StallsAreNumbers DEF NoJob, JobRow, Steps
  <2>2. new = [NoJob EXCEPT !.state = "waiting", !.data = m]
    OBVIOUS
  <2> HIDE DEF new
  <2>3. new \in JobRow /\ new.stalls = NoJob.stalls
    BY <2>1, <2>2 DEF JobRow
  <2> QED BY <2>1, <2>3, StallsAreNumbers
<1>2. job' = IF job[id].state = "absent" THEN [job EXCEPT ![id] = new] ELSE job
  BY DEF Added
<1> HIDE DEF new
<1>3. CASE job[id].state = "absent"
  <2>1. \A k \in JobIds : job'[k] = IF k = id THEN new ELSE job[k]
    BY <1>2, <1>3 DEF JobsTyped
  <2>2. job' \in [JobIds -> JobRow]
    BY <1>1, <1>2, <1>3 DEF JobsTyped
  <2>3. \A k \in JobIds : job[k].state # "absent" => job'[k] = job[k]
    BY <1>3, <2>1
  <2>4. \A k \in JobIds : Runs(k)' => job'[k].stalls <= MaxStalled
    BY <1>1, <2>1 DEF JobsTyped, Runs
  <2> QED BY <2>2, <2>3, <2>4 DEF JobsTyped
<1>4. CASE job[id].state # "absent"
  BY <1>2, <1>4 DEF JobsTyped, Runs
<1> QED BY <1>3, <1>4

LEMMA CompleteKeepsTypes ==
    ASSUME JobsTyped, NEW j \in JobIds, Complete(j)
    PROVE  /\ JobsTyped' /\ \A k \in JobIds : k # j => job'[k] = job[k]
<1>1. NoJob \in JobRow /\ NoJob.state = "absent"
  BY StallsAreNumbers DEF NoJob, JobRow, Steps
<1>2. job' = [job EXCEPT ![j] = NoJob]
  BY DEF Complete
<1> QED BY <1>1, <1>2 DEF JobsTyped, Runs

LEMMA StartKeepsTypes ==
    ASSUME JobsTyped, NEW j \in JobIds, StartSend(j), Loaded(j) \in Messages \cup {None}
    PROVE  /\ JobsTyped' /\ \A k \in JobIds : k # j => job'[k] = job[k]
<1> DEFINE new == [job[j] EXCEPT !.state = "active", !.msg = Loaded(j),
                         !.at = IF j.of[2] \in listed THEN "refuse" ELSE "send"]
<1>1. CASE Loaded(j) = None
  BY <1>1, FailKeepsTypes DEF StartSend
<1>2. CASE Loaded(j) # None
  <2>1. job[j] \in JobRow /\ job[j].stalls <= MaxStalled
    BY DEF JobsTyped, StartSend, Runs
  <2>2. new \in JobRow /\ new.stalls = job[j].stalls
    BY <2>1 DEF JobRow, Steps
  <2>3. job' = [job EXCEPT ![j] = new]
    BY <1>2 DEF StartSend, JobsTyped
  <2> HIDE DEF new
  <2> QED BY <2>1, <2>2, <2>3 DEF JobsTyped, Runs
<1> QED BY <1>1, <1>2

\* The jobs that run stall, or fail having stalled as often as they may.
LEMMA CrashKeepsTypes ==
    ASSUME JobsTyped, WorkerCrash
    PROVE  /\ JobsTyped'
           /\ \A k \in JobIds :
                 \/ job'[k] = job[k]
                 \/ /\ k \in Active
                    /\ \/ /\ job'[k].state = "waiting" /\ job'[k].at = "start"
                          /\ job'[k].stalls > 0
                       \/ job[k].stalls = MaxStalled
<1> DEFINE after(j) == [job[j] EXCEPT !.at = "start", !.msg = None,
                           !.stalls = job[j].stalls + 1,
                           !.state = IF job[j].stalls < MaxStalled
                                     THEN "waiting" ELSE "failed"]
<1>1. ASSUME NEW j \in Active
      PROVE  /\ after(j) \in JobRow /\ after(j).stalls > 0 /\ after(j).at = "start"
             /\ \/ after(j).state = "waiting" /\ after(j).stalls <= MaxStalled
                \/ after(j).state = "failed" /\ job[j].stalls = MaxStalled
  <2>1. job[j] \in JobRow /\ job[j].stalls <= MaxStalled
    BY DEF Active, JobsTyped, Runs
  <2>0. /\ job[j].stalls + 1 \in 0 .. MaxStalled + 1
        /\ (IF job[j].stalls < MaxStalled THEN "waiting" ELSE "failed")
              \in {"absent", "waiting", "active", "failed"}
    BY <2>1, StallsAreNumbers DEF JobRow
  <2>2. after(j) \in JobRow
    BY <2>0, <2>1 DEF JobRow, Steps
  <2>3. /\ after(j).stalls = job[j].stalls + 1 /\ after(j).at = "start"
        /\ after(j).state = IF job[j].stalls < MaxStalled THEN "waiting" ELSE "failed"
    BY <2>1 DEF JobRow
  <2>4. job[j].stalls \in Nat
    BY <2>1, StallsAreNumbers DEF JobRow
  <2> QED BY <2>1, <2>2, <2>3, <2>4, StallsAreNumbers
<1>2. job' = [j \in JobIds |-> IF j \notin Active THEN job[j] ELSE after(j)]
  BY DEF WorkerCrash
<1> HIDE DEF after
<1>3. \A j \in JobIds : job'[j] = IF j \notin Active THEN job[j] ELSE after(j)
  BY <1>2
<1>4. JobsTyped'
  BY <1>1, <1>2, <1>3 DEF JobsTyped, Runs
<1> QED BY <1>1, <1>3, <1>4

\* What a step leaves alone keeps its type.
LEMMA TypesKept ==
    ASSUME TypedInvariant
    PROVE  /\ UNCHANGED job => JobsTyped'
           /\ UNCHANGED <<lead, listed>> /\ Present' \subseteq Present => LeadsTyped'
           /\ UNCHANGED recipient => Present' = Present
           /\ UNCHANGED <<campaign, recipient, message, reviewed>> => RowsTyped'
           /\ UNCHANGED handler => \A h \in Handlers : TodoTyped(h)'
  BY DEF TypedInvariant, JobsTyped, Runs, LeadsTyped, RowsTyped, TodoTyped, Present

LEMMA SuppressedIsTyped ==
    ASSUME TypedInvariant, NEW ls, UNCHANGED listed, Present' \subseteq Present,
           lead' = [l \in Leads |-> IF l \in ls THEN SuppressedRow(l) ELSE lead[l]]
    PROVE  LeadsTyped'
<1>1. LeadsTyped
  BY DEF TypedInvariant
<1>2. ASSUME NEW row \in LeadRow
      PROVE  [row EXCEPT !.crm = "SUPPRESSED", !.valid = "SUPPRESSED"] \in LeadRow
  BY DEF LeadRow, CrmStatus, ValidationStatus
<1>3. ASSUME NEW l \in Leads
      PROVE  /\ SuppressedRow(l) \in LeadRow \cup {None}
             /\ lead[l] \in LeadRow => SuppressedRow(l) \in LeadRow
  BY <1>1, <1>2 DEF SuppressedRow, LeadsTyped
<1>4. \A l \in Leads : lead'[l] = IF l \in ls THEN SuppressedRow(l) ELSE lead[l]
  OBVIOUS
<1>5. \A r \in Present : r[2] \in Leads
  BY DEF Present, Recipients
<1>6. lead' \in [Leads -> LeadRow \cup {None}]
  BY <1>1, <1>3, <1>4 DEF LeadsTyped
<1>7. ASSUME NEW r \in Present' PROVE lead'[r[2]] \in LeadRow
  <2>1. r[2] \in Leads /\ lead[r[2]] \in LeadRow
    BY <1>1, <1>5, <1>7 DEF LeadsTyped
  <2> QED BY <1>3, <1>4, <2>1
<1> QED BY <1>1, <1>6, <1>7 DEF LeadsTyped

LEMMA TypedRequests ==
    ASSUME TypedInvariant, FreshInvariant, OutcomeInvariant,
           \/ CampaignRequest \/ ApprovalRequest \/ LeadRequest \/ SuppressionRequest
    PROVE  TypedInvariant'
<1> USE DEF rowVars, mailHistory, campaignHistory, history
<1>0. HandlerShape /\ LeadsTyped /\ RowsTyped /\ \A h \in Handlers : TodoTyped(h)
  BY DEF FreshInvariant, FreshShape, TypedInvariant
<1>1. ASSUME UNCHANGED <<job, recipient>>, RowsTyped', LeadsTyped',
             \A h \in Handlers : TodoTyped(h)'
      PROVE  TypedInvariant'
  BY <1>1, TypesKept DEF TypedInvariant
<1>s. ASSUME NEW h \in Handlers, NEW op, NEW at, NEW of, NEW todo,
             Serve(h, op, at, of, todo), todo \subseteq Recipients \cup Leads
      PROVE  \A k \in Handlers : TodoTyped(k)'
  BY <1>0, <1>s, ServeMoves DEF TodoTyped
<1>l. UNCHANGED <<lead, listed, recipient>> => LeadsTyped'
  BY TypesKept
<1>2. CASE CampaignRequest
  <2> SUFFICES ASSUME NEW c \in Campaigns,
                      \/ \E h \in Handlers, in \in CreateInputs :
                            ResolveTargets(h, c, in[1], in[2])
                      \/ \E h \in Handlers : TriggerGeneration(h, c)
                      \/ \E s \in StatusActions : HandleStatusAction(c, s)
               PROVE  TypedInvariant'
    BY <1>2 DEF CampaignRequest
  <2>1. ASSUME NEW h \in Handlers, NEW in \in CreateInputs,
               ResolveTargets(h, c, in[1], in[2])
        PROVE  TypedInvariant'
    <3>1. Targets(in[1], in[2]) \subseteq Leads
      BY DEF CreateInputs, Targets, Uncontacted
    <3>2. /\ Serve(h, "create", "verify", c, Targets(in[1], in[2]))
          /\ UNCHANGED <<lead, listed, recipient, campaign, message, reviewed, job>>
      BY <2>1 DEF ResolveTargets
    <3> QED BY <1>1, <1>l, <1>s, <3>1, <3>2, TypesKept
  <2>2. ASSUME NEW h \in Handlers, TriggerGeneration(h, c) PROVE TypedInvariant'
    <3>1. /\ Serve(h, "generate", "select", c, {})
          /\ campaign' = [campaign EXCEPT ![c] = "GENERATING"]
          /\ UNCHANGED <<lead, listed, recipient, message, reviewed, job>>
      BY <2>2 DEF TriggerGeneration
    <3>2. RowsTyped'
      BY <1>0, <3>1 DEF RowsTyped, CampaignStatus
    <3> QED BY <1>1, <1>l, <1>s, <3>1, <3>2
  <2>3. ASSUME NEW s \in StatusActions, HandleStatusAction(c, s) PROVE TypedInvariant'
    <3>1. /\ campaign' = [campaign EXCEPT ![c] = s]
          /\ UNCHANGED <<handler, lead, listed, recipient, message, reviewed, job>>
      BY <2>3 DEF HandleStatusAction
    <3>2. RowsTyped'
      BY <1>0, <3>1 DEF RowsTyped, CampaignStatus, StatusActions
    <3> QED BY <1>1, <1>l, <3>1, <3>2, TypesKept
  <2> QED BY <2>1, <2>2, <2>3
<1>3. CASE ApprovalRequest
  <2>1. ASSUME NEW r \in Recipients, NEW m \in Messages, EditDraft(r, m)
        PROVE  TypedInvariant'
    <3>1. /\ message' = [message EXCEPT ![m] = "DRAFT"]
          /\ UNCHANGED <<handler, lead, listed, recipient, campaign, reviewed, job>>
      BY <2>1 DEF EditDraft, NewDraft
    <3>2. RowsTyped'
      BY <1>0, <3>1 DEF RowsTyped, EmailStatus
    <3> QED BY <1>1, <1>l, <3>1, <3>2, TypesKept
  <2>2. ASSUME NEW h \in Handlers, NEW action \in ApprovalActions,
               NEW rs \in SUBSET Recipients, Decide(h, action, rs)
        PROVE  TypedInvariant'
    <3>1. /\ Serve(h, action, "next", None, rs)
          /\ UNCHANGED <<lead, listed, recipient, campaign, message, job>>
      BY <2>2 DEF Decide
    <3>2. \A r \in rs : Newest(r) \in Messages \cup {None}
      BY DraftsAreMessages DEF OutcomeInvariant
    <3>3. reviewed' = reviewed
             \/ reviewed' = reviewed \cup ({Newest(r) : r \in rs} \ {None})
      BY <2>2 DEF Decide
    <3>4. reviewed' \subseteq Messages
      BY <1>0, <3>2, <3>3 DEF RowsTyped
    <3>5. RowsTyped'
      BY <1>0, <3>1, <3>4 DEF RowsTyped
    <3> QED BY <1>1, <1>l, <1>s, <3>1, <3>5
  <2> QED BY <1>3, <2>1, <2>2 DEF ApprovalRequest
<1>a. ASSUME NEW h \in Handlers, NEW ls \in SUBSET Leads, AskSuppression(h, ls)
      PROVE  TypedInvariant'
  <2>1. /\ Serve(h, "suppress", "list", None, ls)
        /\ UNCHANGED <<lead, listed, recipient, campaign, message, reviewed, job>>
    BY <1>a DEF AskSuppression
  <2> QED BY <1>1, <1>l, <1>s, <2>1, TypesKept
<1>4. CASE LeadRequest
  <2> SUFFICES ASSUME NEW ls \in SUBSET Leads,
                      \/ \E h \in Handlers : AskSuppression(h, ls)
                      \/ \E s \in StageInputs : UpdateLeads(ls, s)
                      \/ DeleteLeads(ls)
               PROVE  TypedInvariant'
    BY <1>4 DEF LeadRequest
  <2>1. ASSUME NEW s \in StageInputs, UpdateLeads(ls, s) PROVE TypedInvariant'
    <3>1. /\ lead' = [l \in Leads |-> IF l \in ls /\ lead[l] # None
                                      THEN [lead[l] EXCEPT !.crm = s] ELSE lead[l]]
          /\ UNCHANGED <<handler, listed, recipient, campaign, message, reviewed, job>>
      BY <2>1 DEF UpdateLeads
    <3>2. ASSUME NEW row \in LeadRow PROVE [row EXCEPT !.crm = s] \in LeadRow
      BY DEF LeadRow, CrmStatus, StageInputs
    <3>3. /\ lead' \in [Leads -> LeadRow \cup {None}]
          /\ \A l \in Leads : lead[l] \in LeadRow => lead'[l] \in LeadRow
      BY <1>0, <3>1, <3>2 DEF LeadsTyped
    <3>4. LeadsTyped'
      BY <1>0, <3>1, <3>3 DEF LeadsTyped, Present, Recipients
    <3> QED BY <1>1, <3>1, <3>4, TypesKept
  <2>2. CASE DeleteLeads(ls)
    <3>1. /\ lead' = [l \in Leads |-> IF l \in ls THEN None ELSE lead[l]]
          /\ ls \cap EnrolledLeads = {}
          /\ UNCHANGED <<handler, listed, recipient, campaign, message, reviewed, job>>
      BY <2>2 DEF DeleteLeads
    <3>2. \A r \in Present : r[2] \in Leads /\ r[2] \notin ls
      BY <3>1 DEF EnrolledLeads, Present, Recipients
    <3>3. Present' = Present
      BY <3>1 DEF Present
    <3>4. LeadsTyped'
      BY <1>0, <3>1, <3>2, <3>3 DEF LeadsTyped
    <3> QED BY <1>1, <3>1, <3>4, TypesKept
  <2> QED BY <1>a, <2>1, <2>2
<1>5. CASE SuppressionRequest
  <2>1. ASSUME NEW l \in Leads, RemoveSuppression(l) PROVE TypedInvariant'
    <3>1. /\ listed' \subseteq listed
          /\ UNCHANGED <<handler, lead, recipient, campaign, message, reviewed, job>>
      BY <2>1 DEF RemoveSuppression
    <3>2. LeadsTyped'
      BY <1>0, <3>1 DEF LeadsTyped, Present
    <3> QED BY <1>1, <3>1, <3>2, TypesKept
  <2> QED BY <1>5, <1>a, <2>1 DEF SuppressionRequest
<1> QED BY <1>2, <1>3, <1>4, <1>5

LEMMA TypedHandlerStep ==
    ASSUME TypedInvariant, FreshInvariant, OutcomeInvariant,
           NEW h \in Handlers, HandlerStep(h)
    PROVE  TypedInvariant'
<1> USE DEF rowVars, mailHistory, campaignHistory, history
<1>0. /\ HandlerShape /\ JobsTyped /\ LeadsTyped /\ RowsTyped /\ HandlerFits(h)
      /\ handler[h].todo \subseteq Recipients \cup Leads
      /\ \A k \in Handlers : TodoTyped(k)
  BY DEF FreshInvariant, FreshShape, AllFit, TypedInvariant, TodoTyped
<1>1. ASSUME JobsTyped', RowsTyped', LeadsTyped',
             \A k \in Handlers : k # h => handler'[k] = handler[k], TodoTyped(h)'
      PROVE  TypedInvariant'
  BY <1>0, <1>1 DEF TypedInvariant, TodoTyped
<1>l. UNCHANGED <<lead, listed, recipient>> => LeadsTyped'
  BY TypesKept
<1>s. ASSUME NEW r \in Present, NEW status \in RecipientStatus \ {"absent"},
             SetRecipient(r, status)
      PROVE  /\ recipient' \in [Recipients -> RecipientStatus]
             /\ Present' = Present
  BY <1>0, <1>s DEF SetRecipient, RowsTyped, Present
<1>p. ASSUME NEW r \in Present, NEW status \in RecipientStatus \ {"absent"},
             SetRecipient(r, status), UNCHANGED <<lead, listed, campaign, message, reviewed>>
      PROVE  RowsTyped' /\ LeadsTyped'
  BY <1>0, <1>p, <1>s, TypesKept DEF RowsTyped
<1>a. ASSUME NEW todo, AfterAction(h, todo), todo \subseteq Recipients \cup Leads
      PROVE  TodoTyped(h)' /\ \A k \in Handlers : k # h => handler'[k] = handler[k]
  BY <1>0, <1>a, AfterActionMoves DEF TodoTyped, Idle
<1>r. ASSUME Return(h)
      PROVE  TodoTyped(h)' /\ \A k \in Handlers : k # h => handler'[k] = handler[k]
  BY <1>0, <1>r, ReturnMoves DEF TodoTyped, Idle
<1>t. ASSUME NEW at, NEW todo, TakeUp(h, at, todo), todo \subseteq Recipients \cup Leads
      PROVE  TodoTyped(h)' /\ \A k \in Handlers : k # h => handler'[k] = handler[k]
  BY <1>0, <1>t, TodoMoves DEF TodoTyped
<1>g. ASSUME NEW at, Goto(h, at)
      PROVE  TodoTyped(h)' /\ \A k \in Handlers : k # h => handler'[k] = handler[k]
  BY <1>0, <1>g, GotoMoves DEF TodoTyped
<1>w. ASSUME NEW at, NEW r, NEW m, Working(h, at, r, m)
      PROVE  TodoTyped(h)' /\ \A k \in Handlers : k # h => handler'[k] = handler[k]
  BY <1>0, <1>w, WorkingMoves DEF TodoTyped
<1>o. handler[h].at \in Decision => handler[h].of \in Present
  BY <1>0 DEF HandlerFits
<1>n. handler[h].at = "next" => handler[h].todo \subseteq Present
  BY <1>0 DEF HandlerFits
<1>2. CASE CreateCampaign(h)
  <2>1. /\ TakeUp(h, "enrol", handler[h].todo \cap Uncontacted)
        /\ campaign' = [campaign EXCEPT ![handler[h].of] = "DRAFT"]
        /\ UNCHANGED <<recipient, job, lead, listed, message, reviewed>>
    BY <1>0, <1>2 DEF CreateCampaign, HandlerShape, TakeUp
  <2>2. RowsTyped'
    BY <1>0, <2>1 DEF RowsTyped, CampaignStatus
  <2> QED BY <1>0, <1>1, <1>l, <1>t, <2>1, <2>2, TypesKept
<1>3. CASE EnrolTargets(h)
  <2> DEFINE rows == IF \E l \in handler[h].todo : lead[l] = None THEN {}
                     ELSE {handler[h].of} \X handler[h].todo
  <2>1. /\ Return(h) /\ UNCHANGED <<lead, listed, campaign, message, job, reviewed>>
        /\ recipient' = [r \in Recipients |-> IF r \in rows THEN "PENDING" ELSE recipient[r]]
    BY <1>3 DEF EnrolTargets
  <2>2. \A r \in rows : r[2] \in handler[h].todo /\ lead[r[2]] # None
    OBVIOUS
  <2> HIDE DEF rows
  <2>3. RowsTyped'
    BY <1>0, <2>1 DEF RowsTyped, RecipientStatus
  <2>4. ASSUME NEW r \in Present' PROVE lead[r[2]] \in LeadRow
    <3>1. r \in Recipients /\ r[2] \in Leads /\ recipient'[r] # "absent"
      BY <2>4 DEF Present, Recipients
    <3>2. CASE r \in rows
      BY <1>0, <2>2, <3>1, <3>2 DEF LeadsTyped
    <3>3. CASE r \notin rows
      BY <1>0, <2>1, <3>1, <3>3 DEF LeadsTyped, Present
    <3> QED BY <3>2, <3>3
  <2>5. LeadsTyped'
    BY <1>0, <2>1, <2>4 DEF LeadsTyped
  <2> QED BY <1>1, <1>r, <2>1, <2>3, <2>5, TypesKept
<1>4. CASE SelectPending(h)
  <2>1. UNCHANGED <<lead, listed, campaign, recipient, message, reviewed, job>>
    BY <1>4 DEF SelectPending
  <2>2. Return(h) \/ TakeUp(h, "enqueue", Pending(handler[h].of))
    BY <1>4 DEF SelectPending, TakeUp
  <2>3. Pending(handler[h].of) \subseteq Recipients
    BY DEF Pending, Present
  <2> QED BY <1>1, <1>l, <1>r, <1>t, <2>1, <2>2, <2>3, TypesKept
<1>5. CASE MarkApproved(h)
  <2>1. /\ handler[h].at \in Decision /\ SetRecipient(handler[h].of, "APPROVED")
        /\ UNCHANGED <<job, lead, listed, campaign, message, reviewed>>
    BY <1>5 DEF MarkApproved, OnStep, Decision
  <2>2. PICK at : Goto(h, at)
    BY <1>5 DEF MarkApproved
  <2>3. "APPROVED" \in RecipientStatus \ {"absent"}
    BY DEF RecipientStatus
  <2> QED BY <1>1, <1>g, <1>o, <1>p, <2>1, <2>2, <2>3, TypesKept
<1>6. CASE ApproveDraft(h)
  <2>1. /\ Goto(h, "dispatch")
        /\ message' = [message EXCEPT ![handler[h].msg] = "APPROVED"]
        /\ UNCHANGED <<job, lead, listed, campaign, recipient, reviewed>>
    BY <1>6 DEF ApproveDraft
  <2>2. RowsTyped'
    BY <1>0, <2>1 DEF RowsTyped, EmailStatus
  <2> QED BY <1>1, <1>g, <1>l, <2>1, <2>2, TypesKept
<1>7. CASE EnqueueSend(h)
  <2> DEFINE r == handler[h].of
  <2>1. /\ handler[h].at = "dispatch" /\ AfterAction(h, handler[h].todo)
        /\ job' = Added(SendId(r), handler[h].msg)
        /\ UNCHANGED <<lead, listed, campaign, recipient, message, reviewed>>
    BY <1>7 DEF EnqueueSend, OnStep
  <2>2. r \in Recipients
    BY <1>o, <2>1 DEF Decision, Present
  <2>3. handler[h].msg \in Messages \cup {None}
    BY <2>1, <2>2, DraftsAreMessages DEF OutcomeInvariant, HandlerNames, Approving
  <2>4. JobsTyped'
    BY <1>0, <2>1, <2>3, AddKeepsTypes
  <2> QED BY <1>0, <1>1, <1>a, <1>l, <2>1, <2>4, TypesKept
<1>8. CASE SuppressLeadOf(h)
  <2> DEFINE l == handler[h].of[2]
  <2>1. /\ Goto(h, "suppressRecipient")
        /\ lead' = [lead EXCEPT ![l] = SuppressedRow(l)]
        /\ UNCHANGED <<job, listed, campaign, recipient, message, reviewed>>
    BY <1>8 DEF SuppressLeadOf
  <2>2. lead' = [k \in Leads |-> IF k \in {l} THEN SuppressedRow(k) ELSE lead[k]]
    BY <1>0, <2>1 DEF LeadsTyped
  <2>3. Present' = Present
    BY <2>1 DEF Present
  <2> QED BY <1>1, <1>g, <2>1, <2>2, <2>3, SuppressedIsTyped, TypesKept
<1>9. CASE CloseRecipient(h)
  <2>1. /\ handler[h].at \in Decision /\ AfterAction(h, handler[h].todo)
        /\ SetRecipient(handler[h].of, "SUPPRESSED")
        /\ UNCHANGED <<job, lead, listed, campaign, message, reviewed>>
    BY <1>9 DEF CloseRecipient, OnStep, Decision
  <2>2. "SUPPRESSED" \in RecipientStatus \ {"absent"}
    BY DEF RecipientStatus
  <2> QED BY <1>0, <1>1, <1>a, <1>o, <1>p, <2>1, <2>2, TypesKept
<1>10. CASE MarkLeadsSuppressed(h)
  <2>1. /\ Return(h) /\ UNCHANGED <<job, listed, campaign, recipient, message, reviewed>>
        /\ lead' = [l \in Leads |-> IF l \in handler[h].all THEN SuppressedRow(l) ELSE lead[l]]
    BY <1>10 DEF MarkLeadsSuppressed
  <2>2. Present' = Present
    BY <2>1 DEF Present
  <2> QED BY <1>1, <1>r, <2>1, <2>2, SuppressedIsTyped, TypesKept
<1>11. ASSUME NEW r \in Recipients, EnqueueGeneration(h, r) PROVE TypedInvariant'
  <2>1. /\ job' = Added([kind |-> "ai-gen", of |-> r, stamp |-> None], None)
        /\ handler[h].at = "enqueue"
        /\ UNCHANGED <<lead, listed, campaign, recipient, message, reviewed>>
    BY <1>11 DEF EnqueueGeneration, OnStep
  <2>2. Return(h) \/ TakeUp(h, "enqueue", handler[h].todo \ {r})
    BY <1>0, <1>11, <2>1 DEF EnqueueGeneration, HandlerShape, TakeUp
  <2>3. JobsTyped'
    BY <1>0, <2>1, AddKeepsTypes
  <2> QED BY <1>0, <1>1, <1>l, <1>r, <1>t, <2>1, <2>2, <2>3, TypesKept
<1>12. ASSUME NEW r \in Recipients, CheckBeforeApproval(h, r) PROVE TypedInvariant'
  <2>1. UNCHANGED <<job, lead, listed, campaign, recipient, message, reviewed>>
    BY <1>12 DEF CheckBeforeApproval
  <2>2. AfterAction(h, handler[h].todo \ {r}) \/ \E m : Working(h, "approve", r, m)
    BY <1>12 DEF CheckBeforeApproval
  <2> QED BY <1>0, <1>1, <1>a, <1>l, <1>w, <2>1, <2>2, TypesKept
<1>13. ASSUME NEW r \in Recipients, Regenerate(h, r) PROVE TypedInvariant'
  <2>1. /\ r \in Present /\ Working(h, "regenerate", r, None) /\ SetRecipient(r, "PENDING")
        /\ UNCHANGED <<job, lead, listed, campaign, message, reviewed>>
    BY <1>13, <1>n DEF Regenerate, Taking, OnStep
  <2>2. "PENDING" \in RecipientStatus \ {"absent"}
    BY DEF RecipientStatus
  <2> QED BY <1>1, <1>p, <1>w, <2>1, <2>2, TypesKept
<1>14. ASSUME NEW r \in Recipients, Skip(h, r) PROVE TypedInvariant'
  <2>1. /\ r \in Present /\ AfterAction(h, handler[h].todo \ {r})
        /\ SetRecipient(r, "CANCELLED")
        /\ UNCHANGED <<job, lead, listed, campaign, message, reviewed>>
    BY <1>14, <1>n DEF Skip, Taking, OnStep
  <2>2. "CANCELLED" \in RecipientStatus \ {"absent"}
    BY DEF RecipientStatus
  <2> QED BY <1>0, <1>1, <1>a, <1>p, <2>1, <2>2, TypesKept
<1>i. ASSUME NEW l \in Leads, listed' = listed \cup {l}, UNCHANGED <<lead, recipient>>
      PROVE  LeadsTyped'
  BY <1>0, <1>i DEF LeadsTyped, Present
<1>15. ASSUME NEW r \in Recipients, SuppressRecipient(h, r) PROVE TypedInvariant'
  <2>1. /\ Working(h, "suppressLead", r, None) /\ listed' = listed \cup {r[2]}
        /\ UNCHANGED <<job, lead, campaign, recipient, message, reviewed>>
    BY <1>15 DEF SuppressRecipient, List
  <2>2. r[2] \in Leads
    BY DEF Recipients
  <2> QED BY <1>1, <1>i, <1>w, <2>1, <2>2, TypesKept
<1>16. ASSUME NEW l \in Leads, UpsertEntry(h, l) PROVE TypedInvariant'
  <2>1. /\ handler[h].at = "list" /\ listed' = listed \cup {l}
        /\ UNCHANGED <<job, lead, campaign, recipient, message, reviewed>>
    BY <1>16 DEF UpsertEntry, OnStep, List
  <2>2. PICK at \in {"list", "markLeads"} : TakeUp(h, at, handler[h].todo \ {l})
    BY <1>0, <1>16, <2>1 DEF UpsertEntry, HandlerShape, TakeUp
  <2> QED BY <1>0, <1>1, <1>i, <1>t, <2>1, <2>2, TypesKept
<1>17. ASSUME NEW now \in Stamps, EnqueueRegeneration(h, now) PROVE TypedInvariant'
  <2>1. /\ AfterAction(h, handler[h].todo)
        /\ job' = Added([kind |-> "ai-gen-regen", of |-> handler[h].of, stamp |-> now], None)
        /\ UNCHANGED <<lead, listed, campaign, recipient, message, reviewed>>
    BY <1>17 DEF EnqueueRegeneration
  <2>2. JobsTyped'
    BY <1>0, <2>1, AddKeepsTypes
  <2> QED BY <1>0, <1>1, <1>a, <1>l, <2>1, <2>2, TypesKept
<1> QED
  BY <1>2, <1>3, <1>4, <1>5, <1>6, <1>7, <1>8, <1>9, <1>10, <1>11, <1>12, <1>13, <1>14,
     <1>15, <1>16, <1>17 DEF HandlerStep

LEMMA TypedJobStep ==
    ASSUME TypedInvariant, FreshInvariant, OutcomeInvariant,
           NEW j \in JobIds, JobStep(j)
    PROVE  TypedInvariant'
<1> USE DEF rowVars, mailHistory, campaignHistory, history
<1>0. /\ JobsTyped /\ LeadsTyped /\ RowsTyped /\ j.of \in Recipients
      /\ Busy(j) => j.of \in Present
  BY DEF TypedInvariant, FreshInvariant, AllFit, JobIds
<1>1. ASSUME JobsTyped', LeadsTyped', RowsTyped', UNCHANGED handler
      PROVE  TypedInvariant'
  BY <1>1, TypesKept DEF TypedInvariant
<1>l. UNCHANGED <<lead, listed, recipient>> => LeadsTyped'
  BY TypesKept
<1>a. ASSUME NEW at, At(j, at), NEW step, Advance(j, step), step \in Steps
      PROVE  JobsTyped'
  BY <1>0, <1>a, AdvanceKeepsTypes DEF At, Runs
<1>s. ASSUME NEW at, At(j, at), NEW status \in RecipientStatus \ {"absent"},
             SetRecipient(j.of, status), UNCHANGED <<lead, listed, campaign, message, reviewed>>
      PROVE  RowsTyped' /\ LeadsTyped'
  <2>1. j.of \in Present
    BY <1>0, <1>s DEF At, Busy
  <2>2. recipient' \in [Recipients -> RecipientStatus] /\ Present' = Present
    BY <1>0, <1>s, <2>1 DEF SetRecipient, RowsTyped, Present
  <2> QED BY <1>0, <1>s, <2>2, TypesKept DEF RowsTyped
<1>m. ASSUME NEW m, NEW status \in EmailStatus, message' = [message EXCEPT ![m] = status],
             UNCHANGED <<campaign, recipient, reviewed>>
      PROVE  RowsTyped'
  BY <1>0, <1>m DEF RowsTyped
<1>2. CASE Complete(j)
  <2>1. UNCHANGED <<handler, lead, listed, campaign, recipient, message, reviewed>>
    BY <1>2 DEF Complete
  <2> QED BY <1>0, <1>1, <1>2, <1>l, <2>1, CompleteKeepsTypes, TypesKept
<1>3. ASSUME GenerationStep(j) PROVE TypedInvariant'
  <2>1. CASE StartGeneration(j)
    <3>1. /\ Advance(j, "draft") /\ Runs(j)
          /\ UNCHANGED <<handler, lead, listed, campaign, recipient, message, reviewed>>
      BY <2>1 DEF StartGeneration, Runs
    <3> QED BY <1>0, <1>1, <1>l, <3>1, AdvanceKeepsTypes, TypesKept DEF Steps
  <2>2. CASE GenerationFails(j)
    <3>1. /\ Fail(j)
          /\ UNCHANGED <<handler, lead, listed, campaign, recipient, message, reviewed>>
      BY <2>2 DEF GenerationFails
    <3> QED BY <1>0, <1>1, <1>l, <3>1, FailKeepsTypes, TypesKept
  <2>3. ASSUME NEW m \in Messages, WriteDraft(j, m) PROVE TypedInvariant'
    <3>1. /\ At(j, "draft") /\ Advance(j, "mark")
          /\ message' = [message EXCEPT ![m] = "DRAFT"]
          /\ UNCHANGED <<handler, lead, listed, campaign, recipient, reviewed>>
      BY <2>3 DEF WriteDraft, NewDraft
    <3> QED BY <1>1, <1>a, <1>l, <1>m, <3>1 DEF Steps, EmailStatus
  <2>4. CASE MarkReady(j)
    <3>1. /\ At(j, "mark") /\ Advance(j, "count") /\ SetRecipient(j.of, "READY_FOR_REVIEW")
          /\ UNCHANGED <<handler, lead, listed, campaign, message, reviewed>>
      BY <2>4 DEF MarkReady
    <3>2. "READY_FOR_REVIEW" \in RecipientStatus \ {"absent"}
      BY DEF RecipientStatus
    <3> QED BY <1>1, <1>a, <1>s, <3>1, <3>2 DEF Steps
  <2>5. CASE CountPending(j)
    <3>1. PICK step \in {"release", "done"} : Advance(j, step)
      BY <2>5 DEF CountPending
    <3>2. /\ At(j, "count")
          /\ UNCHANGED <<handler, lead, listed, campaign, recipient, message, reviewed>>
      BY <2>5 DEF CountPending
    <3> QED BY <1>1, <1>a, <1>l, <3>1, <3>2, TypesKept DEF Steps
  <2>6. CASE ReleaseCampaign(j)
    <3>1. /\ At(j, "release") /\ Advance(j, "done")
          /\ campaign' = [campaign EXCEPT ![j.of[1]] = "READY_FOR_REVIEW"]
          /\ UNCHANGED <<handler, lead, listed, recipient, message, reviewed>>
      BY <2>6 DEF ReleaseCampaign
    <3>2. RowsTyped'
      BY <1>0, <3>1 DEF RowsTyped, CampaignStatus
    <3> QED BY <1>1, <1>a, <1>l, <3>1, <3>2 DEF Steps
  <2> QED BY <1>3, <2>1, <2>2, <2>3, <2>4, <2>5, <2>6 DEF GenerationStep
<1>4. ASSUME SendStep(j), j \notin GenerationIds PROVE TypedInvariant'
  <2>1. CASE StartSend(j)
    <3>1. job[j].data \in Messages \cup {None} /\ Newest(j.of) \in Messages \cup {None}
      BY <1>0, DraftsAreMessages DEF JobsTyped, JobRow, OutcomeInvariant
    <3>2. Loaded(j) \in Messages \cup {None}
      BY <3>1 DEF Loaded
    <3>3. UNCHANGED <<handler, lead, listed, campaign, recipient, message, reviewed>>
      BY <2>1 DEF StartSend
    <3> QED BY <1>0, <1>1, <1>l, <2>1, <3>2, <3>3, StartKeepsTypes, TypesKept
  <2>2. CASE RefuseSend(j)
    <3>1. /\ At(j, "refuse") /\ Advance(j, "suppress")
          /\ message' = [message EXCEPT ![job[j].msg] = "FAILED"]
          /\ UNCHANGED <<handler, lead, listed, campaign, recipient, reviewed>>
      BY <2>2 DEF RefuseSend
    <3> QED BY <1>1, <1>a, <1>l, <1>m, <3>1 DEF Steps, EmailStatus
  <2>3. CASE SuppressTarget(j)
    <3>1. /\ At(j, "suppress") /\ Advance(j, "refused") /\ SetRecipient(j.of, "SUPPRESSED")
          /\ UNCHANGED <<handler, lead, listed, campaign, message, reviewed>>
      BY <2>3 DEF SuppressTarget
    <3>2. "SUPPRESSED" \in RecipientStatus \ {"absent"}
      BY DEF RecipientStatus
    <3> QED BY <1>1, <1>a, <1>s, <3>1, <3>2 DEF Steps
  <2>4. CASE HandOff(j)
    <3>1. /\ At(j, "send") /\ Advance(j, "record")
          /\ UNCHANGED <<handler, lead, listed, campaign, recipient, message, reviewed>>
      BY <2>4 DEF HandOff, Handing
    <3> QED BY <1>1, <1>a, <1>l, <3>1, TypesKept DEF Steps
  <2>5. CASE HandOffTimesOut(j) \/ HandOffRefused(j)
    <3>1. /\ Fail(j)
          /\ UNCHANGED <<handler, lead, listed, campaign, recipient, message, reviewed>>
      BY <2>5 DEF HandOffTimesOut, HandOffRefused, Handing
    <3> QED BY <1>0, <1>1, <1>l, <3>1, FailKeepsTypes, TypesKept
  <2>6. CASE RecordSent(j)
    <3>1. /\ At(j, "record") /\ Advance(j, "attribute")
          /\ message' = [message EXCEPT ![job[j].msg] = "SENT"]
          /\ UNCHANGED <<handler, lead, listed, campaign, recipient, reviewed>>
      BY <2>6 DEF RecordSent
    <3> QED BY <1>1, <1>a, <1>l, <1>m, <3>1 DEF Steps, EmailStatus
  <2>7. CASE AttributeSent(j)
    <3>1. /\ At(j, "attribute") /\ Advance(j, "contact") /\ SetRecipient(j.of, "SENT")
          /\ UNCHANGED <<handler, lead, listed, campaign, message, reviewed>>
      BY <2>7 DEF AttributeSent
    <3>2. "SENT" \in RecipientStatus \ {"absent"}
      BY DEF RecipientStatus
    <3> QED BY <1>1, <1>a, <1>s, <3>1, <3>2 DEF Steps
  <2>8. CASE MarkContacted(j)
    <3> DEFINE l == j.of[2]
               row == [lead[l] EXCEPT !.crm = "CONTACTED", !.contacted = TRUE]
    <3>1. /\ At(j, "contact") /\ Advance(j, "done") /\ l \in Leads
          /\ UNCHANGED <<handler, listed, campaign, recipient, message, reviewed>>
      BY <1>0, <2>8 DEF MarkContacted, Recipients
    <3>2. lead' = [lead EXCEPT ![l] = row]
      BY <1>0, <2>8, <3>1 DEF MarkContacted, LeadsTyped
    <3>3. lead[l] \in LeadRow
      BY <1>0, <3>1 DEF At, Busy, LeadsTyped
    <3>4. row \in LeadRow
      BY <3>3 DEF LeadRow, CrmStatus
    <3> HIDE DEF row
    <3>5. LeadsTyped'
      BY <1>0, <3>1, <3>2, <3>4 DEF LeadsTyped, Present, Recipients
    <3> QED BY <1>1, <1>a, <3>1, <3>5, TypesKept DEF Steps
  <2> QED BY <1>4, <2>1, <2>2, <2>3, <2>4, <2>5, <2>6, <2>7, <2>8 DEF SendStep
<1> QED BY <1>2, <1>3, <1>4 DEF JobStep

LEMMA TypedStep ==
    ASSUME TypedInvariant, FreshInvariant, OutcomeInvariant, [Next]_vars
    PROVE  TypedInvariant'
<1> USE DEF rowVars, mailHistory, campaignHistory, history
<1>1. CASE WorkerCrash
  <2>1. UNCHANGED <<handler, lead, listed, campaign, recipient, message, reviewed>>
    BY <1>1 DEF WorkerCrash
  <2> QED BY <1>1, <2>1, CrashKeepsTypes, TypesKept DEF TypedInvariant
<1>2. CASE ApiCrash
  <2>1. /\ UNCHANGED <<job, lead, listed, campaign, recipient, message, reviewed>>
        /\ \A h \in Handlers : handler'[h] = Idle
    BY <1>2 DEF ApiCrash
  <2>2. \A h \in Handlers : TodoTyped(h)'
    BY <2>1 DEF TodoTyped, Idle
  <2> QED BY <2>1, <2>2, TypesKept DEF TypedInvariant
<1>3. CASE UNCHANGED vars
  <2>1. UNCHANGED <<job, handler, lead, listed, campaign, recipient, message, reviewed>>
    BY <1>3 DEF vars
  <2> QED BY <2>1, TypesKept DEF TypedInvariant
<1> QED
  BY <1>1, <1>2, <1>3, TypedRequests, TypedHandlerStep, TypedJobStep DEF Next

\* Rows, drafts, requests and jobs keep to their types, for any number of them and
\* whatever is asked: a lead with a recipient is never a deleted one as its send is
\* attributed, and no job runs that stalled more often than BullMQ lets it.
THEOREM DispatchIsTyped == Spec => []TypeOK
<1>1. TypedInvariant /\ OutcomeInvariant => TypeOK
  BY DEF TypedInvariant, OutcomeInvariant, OutcomeShape, LeadsTyped, RowsTyped,
         JobsTyped, JobRow, Steps, TodoTyped, TypeOK
<1>2. TypedInvariant /\ OutcomeInvariant /\ FreshInvariant /\ [Next]_vars
        => (TypedInvariant /\ OutcomeInvariant /\ FreshInvariant)'
  BY TypedStep, OutcomeStep, FreshStep
<1> QED BY TypedStarts, OutcomeStarts, FreshStarts, <1>1, <1>2, PTL DEF Spec

-----------------------------------------------------------------------------
(* The release of a campaign *)

\* A generation job past its draft, or run again after a stall, counts the PENDING
\* recipients of its campaign before it ends, or fails and excuses the campaign.
Counting(j) ==
    \/ Runs(j) /\ job[j].at # "done" /\ job[j].stalls > 0
    \/ At(j, "count") \/ At(j, "release")

Choosing(h, c) ==
    handler[h].op = "generate" /\ handler[h].of = c /\ handler[h].at = "select"

Due(c) ==
    \/ c \in excused
    \/ \E h \in Handlers : Choosing(h, c)
    \/ Pending(c) # {}
    \/ \E j \in GenerationIds : j.of[1] = c /\ Counting(j)

ReleaseIsDue == \A c \in Campaigns : campaign[c] = "GENERATING" => Due(c)

LEMMA ReleaseStarts == Init => ReleaseIsDue
<1> SUFFICES ASSUME Init, NEW c \in Campaigns PROVE campaign[c] # "GENERATING"
  BY DEF ReleaseIsDue
<1> QED BY DEF Init

\* Whoever would see to the release goes on with it, or another does.
LEMMA ReleaseKept ==
    ASSUME ReleaseIsDue,
           \A c \in Campaigns : campaign'[c] = "GENERATING" =>
              campaign[c] = "GENERATING" \/ Due(c)',
           \A c \in excused : c \in excused' \/ Due(c)',
           \A h \in Handlers, c \in Campaigns :
              Choosing(h, c) => Choosing(h, c)' \/ Due(c)',
           \A r \in Recipients : recipient[r] = "PENDING" =>
              recipient'[r] = "PENDING" \/ Due(r[1])',
           \A j \in GenerationIds : Counting(j) =>
              \/ Counting(j)' \/ Due(j.of[1])'
              \/ campaign'[j.of[1]] # "GENERATING"
    PROVE  ReleaseIsDue'
<1> SUFFICES ASSUME NEW c \in Campaigns, campaign'[c] = "GENERATING" PROVE Due(c)'
  BY DEF ReleaseIsDue
<1>1. Due(c) \/ Due(c)'
  BY DEF ReleaseIsDue
<1>2. ASSUME NEW h \in Handlers, Choosing(h, c) PROVE Due(c)'
  BY <1>2 DEF Due
<1>3. ASSUME NEW r \in Pending(c) PROVE Due(c)'
  <2>1. r \in Recipients /\ r[1] = c /\ recipient[r] = "PENDING"
    BY <1>3 DEF Pending, Present
  <2>2. recipient'[r] = "PENDING" => r \in Pending(c)'
    BY <2>1 DEF Pending, Present
  <2> QED BY <2>1, <2>2 DEF Due
<1>4. ASSUME NEW j \in GenerationIds, j.of[1] = c, Counting(j) PROVE Due(c)'
  BY <1>4 DEF Due
<1> QED BY <1>1, <1>2, <1>3, <1>4 DEF Due

\* A step that touches no campaign, no PENDING recipient and no job.
LEMMA ReleaseUntouched ==
    ASSUME ReleaseIsDue, excused \subseteq excused',
           \A c \in Campaigns : campaign'[c] = "GENERATING" => campaign[c] = "GENERATING",
           \A h \in Handlers : handler[h].at = "select" => handler'[h] = handler[h],
           \A r \in Recipients : recipient[r] = "PENDING" =>
              recipient'[r] = "PENDING" \/ r[1] \in excused',
           \A j \in GenerationIds : Counting(j) => Counting(j)'
    PROVE  ReleaseIsDue'
<1>1. \A h \in Handlers, c \in Campaigns : Choosing(h, c) => Choosing(h, c)'
  BY DEF Choosing
<1>2. \A c : c \in excused' => Due(c)'
  BY DEF Due
<1> QED BY <1>1, <1>2, ReleaseKept

LEMMA ReleaseRequests ==
    ASSUME ReleaseIsDue, TypedInvariant, FreshInvariant,
           \/ CampaignRequest \/ ApprovalRequest \/ LeadRequest \/ SuppressionRequest
    PROVE  ReleaseIsDue'
<1> USE DEF rowVars, mailHistory, campaignHistory, history
<1>0. HandlerShape /\ RowsTyped
  BY DEF FreshInvariant, FreshShape, TypedInvariant
<1>j. UNCHANGED job => \A j \in GenerationIds : Counting(j) => Counting(j)'
  BY DEF Counting, Runs, At
<1>s. ASSUME NEW h \in Handlers, NEW op, NEW at, NEW of, NEW todo,
             Serve(h, op, at, of, todo)
      PROVE  \A k \in Handlers : handler[k].at = "select" => handler'[k] = handler[k]
  BY <1>0, <1>s, ServeMoves DEF Idle
<1>1. ASSUME UNCHANGED <<campaign, recipient, job, excused>>,
             \A k \in Handlers : handler[k].at = "select" => handler'[k] = handler[k]
      PROVE  ReleaseIsDue'
  BY <1>1, <1>j, ReleaseUntouched
<1>2. CASE CampaignRequest
  <2> SUFFICES ASSUME NEW c \in Campaigns,
                      \/ \E h \in Handlers, in \in CreateInputs :
                            ResolveTargets(h, c, in[1], in[2])
                      \/ \E h \in Handlers : TriggerGeneration(h, c)
                      \/ \E s \in StatusActions : HandleStatusAction(c, s)
               PROVE  ReleaseIsDue'
    BY <1>2 DEF CampaignRequest
  <2>1. ASSUME NEW h \in Handlers, NEW in \in CreateInputs,
               ResolveTargets(h, c, in[1], in[2])
        PROVE  ReleaseIsDue'
    BY <1>1, <1>s, <2>1 DEF ResolveTargets
  <2>2. ASSUME NEW h \in Handlers, TriggerGeneration(h, c) PROVE ReleaseIsDue'
    <3>1. /\ Serve(h, "generate", "select", c, {})
          /\ campaign' = [campaign EXCEPT ![c] = "GENERATING"]
          /\ excused' = excused \ {c} /\ UNCHANGED <<recipient, job>>
      BY <2>2 DEF TriggerGeneration
    <3>2. /\ handler[h] = Idle /\ Choosing(h, c)'
          /\ \A k \in Handlers : k # h => handler'[k] = handler[k]
      BY <1>0, <3>1, ServeMoves DEF Choosing
    <3>3. Due(c)'
      BY <3>2 DEF Due
    <3>4. \A d \in Campaigns : d # c => campaign'[d] = campaign[d]
      BY <1>0, <3>1 DEF RowsTyped
    <3>5. \A k \in Handlers, d \in Campaigns : Choosing(k, d) => Choosing(k, d)'
      BY <3>2 DEF Choosing, Idle
    <3>6. \A d \in excused : d \in excused' \/ Due(d)'
      BY <3>1, <3>3
    <3>7. \A d \in Campaigns : campaign'[d] = "GENERATING" =>
             campaign[d] = "GENERATING" \/ Due(d)'
      BY <3>3, <3>4
    <3> QED BY <1>j, <3>1, <3>5, <3>6, <3>7, ReleaseKept
  <2>3. ASSUME NEW s \in StatusActions, HandleStatusAction(c, s) PROVE ReleaseIsDue'
    <3>1. campaign' = [campaign EXCEPT ![c] = s] /\ UNCHANGED <<handler, recipient, job, excused>>
      BY <2>3 DEF HandleStatusAction
    <3>2. \A d \in Campaigns : campaign'[d] = "GENERATING" => campaign[d] = "GENERATING"
      BY <1>0, <3>1 DEF RowsTyped, StatusActions
    <3> QED BY <1>j, <3>1, <3>2, ReleaseUntouched
  <2> QED BY <2>1, <2>2, <2>3
<1>3. CASE ApprovalRequest
  <2>1. ASSUME NEW r \in Recipients, NEW m \in Messages, EditDraft(r, m)
        PROVE  ReleaseIsDue'
    BY <1>1, <2>1 DEF EditDraft
  <2>2. ASSUME NEW h \in Handlers, NEW action, NEW rs, Decide(h, action, rs)
        PROVE  ReleaseIsDue'
    BY <1>1, <1>s, <2>2 DEF Decide
  <2> QED BY <1>3, <2>1, <2>2 DEF ApprovalRequest
<1>a. ASSUME NEW h \in Handlers, NEW ls, AskSuppression(h, ls) PROVE ReleaseIsDue'
  BY <1>1, <1>a, <1>s DEF AskSuppression
<1>4. CASE LeadRequest
  <2>1. ASSUME NEW ls, NEW s, UpdateLeads(ls, s) PROVE ReleaseIsDue'
    BY <1>1, <2>1 DEF UpdateLeads
  <2>2. ASSUME NEW ls, DeleteLeads(ls) PROVE ReleaseIsDue'
    BY <1>1, <2>2 DEF DeleteLeads
  <2> QED BY <1>4, <1>a, <2>1, <2>2 DEF LeadRequest
<1>5. CASE SuppressionRequest
  <2>1. ASSUME NEW l, RemoveSuppression(l) PROVE ReleaseIsDue'
    BY <1>1, <2>1 DEF RemoveSuppression
  <2> QED BY <1>5, <1>a, <2>1 DEF SuppressionRequest
<1> QED BY <1>2, <1>3, <1>4, <1>5

LEMMA ReleaseHandlerStep ==
    ASSUME ReleaseIsDue, TypedInvariant, FreshInvariant, NEW h \in Handlers, HandlerStep(h)
    PROVE  ReleaseIsDue'
<1> USE DEF rowVars, mailHistory, campaignHistory, history
<1>0. HandlerShape /\ RowsTyped /\ JobsTyped
  BY DEF FreshInvariant, FreshShape, TypedInvariant
<1>j. UNCHANGED job => \A j \in GenerationIds : Counting(j) => Counting(j)'
  BY DEF Counting, Runs, At
<1>q. ASSUME NEW id, NEW m \in Messages \cup {None}, job' = Added(id, m)
      PROVE  \A j \in GenerationIds : Counting(j) => Counting(j)'
  <2>1. \A k \in JobIds : job[k].state # "absent" => job'[k] = job[k]
    BY <1>0, <1>q, AddKeepsTypes
  <2> QED BY <2>1 DEF Counting, Runs, At, GenerationIds
\* The handler is at another step than the choice of recipients.
<1>1. ASSUME handler[h].at # "select", \A k \in Handlers : k # h => handler'[k] = handler[k],
             excused \subseteq excused',
             \A c \in Campaigns : campaign'[c] = "GENERATING" => campaign[c] = "GENERATING",
             \A r \in Recipients : recipient[r] = "PENDING" =>
                recipient'[r] = "PENDING" \/ r[1] \in excused',
             \A j \in GenerationIds : Counting(j) => Counting(j)'
      PROVE  ReleaseIsDue'
  <2>1. \A k \in Handlers : handler[k].at = "select" => handler'[k] = handler[k]
    BY <1>1
  <2> QED BY <1>1, <2>1, ReleaseUntouched
<1>s. ASSUME NEW r, NEW status, SetRecipient(r, status), Excuse(r)
      PROVE  /\ excused \subseteq excused'
             /\ \A q \in Recipients : recipient[q] = "PENDING" =>
                   recipient'[q] = "PENDING" \/ q[1] \in excused'
  BY <1>0, <1>s DEF SetRecipient, Excuse, RowsTyped
<1>a. ASSUME NEW todo, AfterAction(h, todo)
      PROVE  \A k \in Handlers : k # h => handler'[k] = handler[k]
  BY <1>0, <1>a, AfterActionMoves
<1>r. Return(h) => \A k \in Handlers : k # h => handler'[k] = handler[k]
  BY <1>0, ReturnMoves
<1>t. ASSUME NEW at, NEW todo, TakeUp(h, at, todo)
      PROVE  \A k \in Handlers : k # h => handler'[k] = handler[k]
  BY <1>0, <1>t, TodoMoves
<1>g. ASSUME NEW at, Goto(h, at)
      PROVE  \A k \in Handlers : k # h => handler'[k] = handler[k]
  BY <1>0, <1>g, GotoMoves
<1>w. ASSUME NEW at, NEW r, NEW m, Working(h, at, r, m)
      PROVE  \A k \in Handlers : k # h => handler'[k] = handler[k]
  BY <1>0, <1>w, WorkingMoves
<1>2. CASE CreateCampaign(h)
  <2>1. /\ handler[h].at = "verify" /\ TakeUp(h, "enrol", handler[h].todo \cap Uncontacted)
        /\ campaign' = [campaign EXCEPT ![handler[h].of] = "DRAFT"]
        /\ UNCHANGED <<recipient, job, excused>>
    BY <1>0, <1>2 DEF CreateCampaign, HandlerShape, TakeUp, OnStep
  <2>2. \A c \in Campaigns : campaign'[c] = "GENERATING" => campaign[c] = "GENERATING"
    BY <1>0, <2>1 DEF RowsTyped
  <2> QED BY <1>1, <1>j, <1>t, <2>1, <2>2
<1>3. CASE EnrolTargets(h)
  <2>1. handler[h].at = "enrol" /\ Return(h) /\ UNCHANGED <<campaign, job, excused>>
    BY <1>3 DEF EnrolTargets, OnStep
  <2>2. \A r \in Recipients : recipient[r] = "PENDING" => recipient'[r] = "PENDING"
    BY <1>3 DEF EnrolTargets
  <2> QED BY <1>1, <1>j, <1>r, <2>1, <2>2
<1>4. CASE SelectPending(h)
  <2>0. PICK c : c = handler[h].of
    OBVIOUS
  <2>1. UNCHANGED <<campaign, recipient, job>> /\ Pending(c)' = Pending(c)
    BY <1>4 DEF SelectPending, Pending, Present
  <2>2. excused \subseteq excused' /\ (Pending(c) # {} \/ c \in excused')
    BY <1>4, <2>0 DEF SelectPending
  <2>3. Due(c)'
    BY <2>1, <2>2 DEF Due
  <2>4. Return(h) \/ TakeUp(h, "enqueue", Pending(c))
    BY <1>4, <2>0 DEF SelectPending, TakeUp
  <2>5. \A k \in Handlers : k # h => handler'[k] = handler[k]
    BY <1>r, <1>t, <2>4
  <2>6. \A k \in Handlers, d \in Campaigns : Choosing(k, d) => Choosing(k, d)' \/ Due(d)'
    BY <2>0, <2>3, <2>5 DEF Choosing
  <2> QED BY <1>j, <2>1, <2>2, <2>6, ReleaseKept
<1>5. CASE MarkApproved(h)
  <2>1. /\ handler[h].at = "approve" /\ SetRecipient(handler[h].of, "APPROVED")
        /\ Excuse(handler[h].of) /\ UNCHANGED <<campaign, job>>
    BY <1>5 DEF MarkApproved, OnStep
  <2>2. PICK at : Goto(h, at)
    BY <1>5 DEF MarkApproved
  <2> QED BY <1>1, <1>g, <1>j, <1>s, <2>1, <2>2
<1>6. CASE ApproveDraft(h)
  BY <1>1, <1>6, <1>g, <1>j DEF ApproveDraft, OnStep
<1>7. CASE EnqueueSend(h)
  <2> DEFINE r == handler[h].of
  <2>1. /\ handler[h].at = "dispatch" /\ AfterAction(h, handler[h].todo)
        /\ job' = Added(SendId(r), handler[h].msg)
        /\ UNCHANGED <<campaign, recipient, excused>>
    BY <1>7 DEF EnqueueSend, OnStep
  <2>2. \A j \in GenerationIds : job'[j] = job[j]
    BY <1>0, <2>1 DEF Added, SendId, GenerationIds, JobsTyped
  <2>3. \A j \in GenerationIds : Counting(j) => Counting(j)'
    BY <2>2 DEF Counting, Runs, At
  <2> QED BY <1>1, <1>a, <2>1, <2>3
<1>8. CASE SuppressLeadOf(h)
  BY <1>1, <1>8, <1>g, <1>j DEF SuppressLeadOf, OnStep
<1>9. CASE CloseRecipient(h)
  <2>1. /\ handler[h].at = "suppressRecipient" /\ AfterAction(h, handler[h].todo)
        /\ SetRecipient(handler[h].of, "SUPPRESSED")
        /\ Excuse(handler[h].of) /\ UNCHANGED <<campaign, job>>
    BY <1>9 DEF CloseRecipient, OnStep
  <2> QED BY <1>1, <1>a, <1>j, <1>s, <2>1
<1>10. CASE MarkLeadsSuppressed(h)
  BY <1>1, <1>10, <1>j, <1>r DEF MarkLeadsSuppressed, OnStep
<1>11. ASSUME NEW r \in Recipients, EnqueueGeneration(h, r) PROVE ReleaseIsDue'
  <2>1. /\ job' = Added([kind |-> "ai-gen", of |-> r, stamp |-> None], None)
        /\ handler[h].at = "enqueue" /\ UNCHANGED <<campaign, recipient, excused>>
    BY <1>11 DEF EnqueueGeneration, OnStep
  <2>2. Return(h) \/ TakeUp(h, "enqueue", handler[h].todo \ {r})
    BY <1>0, <1>11, <2>1 DEF EnqueueGeneration, HandlerShape, TakeUp
  <2> QED BY <1>1, <1>q, <1>r, <1>t, <2>1, <2>2
<1>12. ASSUME NEW r \in Recipients, CheckBeforeApproval(h, r) PROVE ReleaseIsDue'
  <2>1. handler[h].at = "next" /\ UNCHANGED <<campaign, recipient, job, excused>>
    BY <1>12 DEF CheckBeforeApproval, Taking, OnStep
  <2>2. AfterAction(h, handler[h].todo \ {r}) \/ \E m : Working(h, "approve", r, m)
    BY <1>12 DEF CheckBeforeApproval
  <2> QED BY <1>1, <1>a, <1>j, <1>w, <2>1, <2>2
<1>13. ASSUME NEW r \in Recipients, Regenerate(h, r) PROVE ReleaseIsDue'
  <2>1. /\ handler[h].at = "next" /\ Working(h, "regenerate", r, None)
        /\ SetRecipient(r, "PENDING") /\ UNCHANGED <<campaign, job, excused>>
    BY <1>13 DEF Regenerate, Taking, OnStep
  <2>2. \A q \in Recipients : recipient[q] = "PENDING" => recipient'[q] = "PENDING"
    BY <1>0, <2>1 DEF SetRecipient, RowsTyped
  <2> QED BY <1>1, <1>j, <1>w, <2>1, <2>2
<1>14. ASSUME NEW r \in Recipients, Skip(h, r) PROVE ReleaseIsDue'
  <2>1. /\ handler[h].at = "next" /\ AfterAction(h, handler[h].todo \ {r})
        /\ SetRecipient(r, "CANCELLED") /\ Excuse(r) /\ UNCHANGED <<campaign, job>>
    BY <1>14 DEF Skip, Taking, OnStep
  <2> QED BY <1>1, <1>a, <1>j, <1>s, <2>1
<1>15. ASSUME NEW r \in Recipients, SuppressRecipient(h, r) PROVE ReleaseIsDue'
  <2>1. /\ handler[h].at = "next" /\ Working(h, "suppressLead", r, None)
        /\ UNCHANGED <<campaign, recipient, job, excused>>
    BY <1>15 DEF SuppressRecipient, Taking, OnStep
  <2> QED BY <1>1, <1>j, <1>w, <2>1
<1>16. ASSUME NEW l \in Leads, UpsertEntry(h, l) PROVE ReleaseIsDue'
  <2>1. handler[h].at = "list" /\ UNCHANGED <<campaign, recipient, job, excused>>
    BY <1>16 DEF UpsertEntry, OnStep
  <2>2. PICK at \in {"list", "markLeads"} : TakeUp(h, at, handler[h].todo \ {l})
    BY <1>0, <1>16, <2>1 DEF UpsertEntry, HandlerShape, TakeUp
  <2> QED BY <1>1, <1>j, <1>t, <2>1, <2>2
<1>17. ASSUME NEW now \in Stamps, EnqueueRegeneration(h, now) PROVE ReleaseIsDue'
  <2>1. /\ handler[h].at = "regenerate" /\ AfterAction(h, handler[h].todo)
        /\ job' = Added([kind |-> "ai-gen-regen", of |-> handler[h].of, stamp |-> now], None)
        /\ UNCHANGED <<campaign, recipient, excused>>
    BY <1>17 DEF EnqueueRegeneration, OnStep
  <2> QED BY <1>1, <1>a, <1>q, <2>1
<1> QED
  BY <1>2, <1>3, <1>4, <1>5, <1>6, <1>7, <1>8, <1>9, <1>10, <1>11, <1>12, <1>13, <1>14,
     <1>15, <1>16, <1>17 DEF HandlerStep

\* Who counts goes on to count, releases the campaign, or leaves it to a PENDING
\* recipient.
LEMMA ReleaseGenerationStep ==
    ASSUME ReleaseIsDue, TypedInvariant, NEW j \in GenerationIds,
           GenerationStep(j) \/ Complete(j)
    PROVE  ReleaseIsDue'
<1> USE DEF rowVars, mailHistory, campaignHistory, history
<1>0. /\ RowsTyped /\ JobsTyped /\ j \in JobIds /\ GenerationIds \subseteq JobIds
      /\ j.of \in Recipients /\ j.of[1] \in Campaigns
  BY DEF TypedInvariant, GenerationIds, JobIds, Recipients
<1>i. PICK c \in Campaigns : c = j.of[1]
  BY <1>0
\* The other jobs, and the handlers, are as they were.
<1>1. ASSUME UNCHANGED handler, excused \subseteq excused',
             \A d \in Campaigns : campaign'[d] = "GENERATING" => campaign[d] = "GENERATING",
             \A r \in Recipients : recipient[r] = "PENDING" =>
                recipient'[r] = "PENDING" \/ Due(r[1])',
             \A k \in JobIds : k # j => job'[k] = job[k],
             Counting(j) => Counting(j)' \/ Due(c)' \/ campaign'[c] # "GENERATING"
      PROVE  ReleaseIsDue'
  <2>1. \A k \in GenerationIds : k # j => (Counting(k) => Counting(k)')
    BY <1>0, <1>1 DEF Counting, Runs, At
  <2>2. \A k \in GenerationIds : Counting(k) =>
           Counting(k)' \/ Due(k.of[1])' \/ campaign'[k.of[1]] # "GENERATING"
    BY <1>i, <1>1, <2>1
  <2>3. \A h \in Handlers, d \in Campaigns : Choosing(h, d) => Choosing(h, d)' \/ Due(d)'
    BY <1>1 DEF Choosing
  <2>4. \A d \in excused : d \in excused' \/ Due(d)'
    BY <1>1
  <2> QED BY <1>1, <2>2, <2>3, <2>4, ReleaseKept
<1>a. ASSUME NEW at, At(j, at), NEW step \in Steps, Advance(j, step)
      PROVE  /\ \A k \in JobIds : k # j => job'[k] = job[k]
             /\ At(j, step)' /\ Runs(j)' /\ job'[j].at = step
             /\ job'[j].stalls = job[j].stalls
  BY <1>0, <1>a, AdvanceKeepsTypes DEF At, Runs
<1>2. CASE Complete(j)
  <2>1. /\ At(j, "done") /\ UNCHANGED <<handler, campaign, recipient, excused>>
        /\ \A k \in JobIds : k # j => job'[k] = job[k]
    BY <1>0, <1>2, CompleteKeepsTypes DEF Complete, Ended, GenerationIds
  <2> QED BY <1>1, <2>1 DEF Counting, At
<1>3. CASE StartGeneration(j)
  <2>1. /\ Runs(j) /\ job[j].state = "waiting" /\ Advance(j, "draft")
        /\ UNCHANGED <<handler, campaign, recipient, excused>>
    BY <1>3 DEF StartGeneration, Runs
  <2>2. /\ \A k \in JobIds : k # j => job'[k] = job[k]
        /\ job'[j].state = "active" /\ job'[j].at = "draft"
        /\ job'[j].stalls = job[j].stalls
    BY <1>0, <2>1, AdvanceKeepsTypes DEF Steps
  <2>3. Counting(j) => Counting(j)'
    BY <2>1, <2>2 DEF Counting, At, Runs
  <2> QED BY <1>1, <2>1, <2>2, <2>3
<1>4. CASE GenerationFails(j)
  <2>1. /\ At(j, "draft") /\ Fail(j) /\ UNCHANGED <<handler, campaign, recipient>>
        /\ excused \subseteq excused' /\ (job[j].stalls > 0 => c \in excused')
    BY <1>i, <1>4 DEF GenerationFails
  <2>2. \A k \in JobIds : k # j => job'[k] = job[k]
    BY <1>0, <2>1, FailKeepsTypes
  <2>3. Counting(j) => Due(c)'
    BY <2>1 DEF Counting, At, Due
  <2> QED BY <1>1, <2>1, <2>2, <2>3
<1>5. ASSUME NEW m \in Messages, WriteDraft(j, m) PROVE ReleaseIsDue'
  <2>1. /\ At(j, "draft") /\ Advance(j, "mark")
        /\ UNCHANGED <<handler, campaign, recipient, excused>>
    BY <1>5 DEF WriteDraft
  <2>2. /\ \A k \in JobIds : k # j => job'[k] = job[k]
        /\ Runs(j)' /\ job'[j].at = "mark" /\ job'[j].stalls = job[j].stalls
    BY <1>a, <2>1 DEF Steps
  <2>3. Counting(j) => Counting(j)'
    BY <2>1, <2>2 DEF Counting, At
  <2> QED BY <1>1, <2>1, <2>2, <2>3
<1>6. CASE MarkReady(j)
  <2>1. /\ At(j, "mark") /\ Advance(j, "count") /\ SetRecipient(j.of, "READY_FOR_REVIEW")
        /\ UNCHANGED <<handler, campaign, excused>>
    BY <1>6 DEF MarkReady
  <2>2. At(j, "count")' /\ \A k \in JobIds : k # j => job'[k] = job[k]
    BY <1>a, <2>1 DEF Steps
  <2>3. Counting(j)' /\ Due(c)'
    BY <1>i, <2>2 DEF Counting, Due
  <2>4. \A r \in Recipients : r # j.of => recipient'[r] = recipient[r]
    BY <1>0, <2>1 DEF SetRecipient, RowsTyped
  <2>5. \A r \in Recipients : recipient[r] = "PENDING" =>
           recipient'[r] = "PENDING" \/ Due(r[1])'
    BY <1>i, <2>3, <2>4
  <2> QED BY <1>1, <2>1, <2>2, <2>3, <2>5
<1>7. CASE CountPending(j)
  <2>1. /\ At(j, "count") /\ UNCHANGED <<handler, campaign, recipient, excused>>
        /\ Advance(j, IF Pending(c) = {} THEN "release" ELSE "done")
    BY <1>i, <1>7 DEF CountPending
  <2>2. CASE Pending(c) = {}
    <3>1. At(j, "release")' /\ \A k \in JobIds : k # j => job'[k] = job[k]
      BY <1>a, <2>1, <2>2 DEF Steps
    <3> QED BY <1>1, <2>1, <3>1 DEF Counting
  <2>3. CASE Pending(c) # {}
    <3>1. \A k \in JobIds : k # j => job'[k] = job[k]
      BY <1>a, <2>1, <2>3 DEF Steps
    <3>2. Due(c)'
      BY <2>1, <2>3 DEF Due, Pending, Present
    <3> QED BY <1>1, <2>1, <3>1, <3>2
  <2> QED BY <2>2, <2>3
<1>8. CASE ReleaseCampaign(j)
  <2>1. /\ At(j, "release") /\ Advance(j, "done") /\ UNCHANGED <<handler, recipient, excused>>
        /\ campaign' = [campaign EXCEPT ![c] = "READY_FOR_REVIEW"]
    BY <1>i, <1>8 DEF ReleaseCampaign
  <2>2. \A k \in JobIds : k # j => job'[k] = job[k]
    BY <1>a, <2>1 DEF Steps
  <2>3. /\ campaign'[c] # "GENERATING"
        /\ \A d \in Campaigns : campaign'[d] = "GENERATING" => campaign[d] = "GENERATING"
    BY <1>0, <2>1 DEF RowsTyped
  <2> QED BY <1>1, <2>1, <2>2, <2>3
<1> QED BY <1>2, <1>3, <1>4, <1>5, <1>6, <1>7, <1>8 DEF GenerationStep

LEMMA ReleaseSendStep ==
    ASSUME ReleaseIsDue, TypedInvariant, NEW j \in JobIds, j \notin GenerationIds,
           SendStep(j) \/ Complete(j)
    PROVE  ReleaseIsDue'
<1> USE DEF rowVars, mailHistory, campaignHistory, history
<1>0. RowsTyped /\ JobsTyped
  BY DEF TypedInvariant
<1>1. ASSUME \A k \in JobIds : k # j => job'[k] = job[k]
      PROVE  \A k \in GenerationIds : Counting(k) => Counting(k)'
  BY <1>1 DEF Counting, Runs, At, GenerationIds
<1>2. ASSUME NEW step, Advance(j, step)
      PROVE  \A k \in GenerationIds : Counting(k) => Counting(k)'
  BY <1>0, <1>1, <1>2 DEF Advance, JobsTyped
<1>3. ASSUME Fail(j) \/ Complete(j)
      PROVE  \A k \in GenerationIds : Counting(k) => Counting(k)'
  BY <1>0, <1>1, <1>3, FailKeepsTypes, CompleteKeepsTypes
<1>4. ASSUME UNCHANGED <<handler, campaign, recipient, excused>>,
             \A k \in GenerationIds : Counting(k) => Counting(k)'
      PROVE  ReleaseIsDue'
  BY <1>4, ReleaseUntouched
<1>5. ASSUME NEW status, SetRecipient(j.of, status), Excuse(j.of),
             UNCHANGED <<handler, campaign>>,
             \A k \in GenerationIds : Counting(k) => Counting(k)'
      PROVE  ReleaseIsDue'
  <2>1. /\ excused \subseteq excused'
        /\ \A r \in Recipients : recipient[r] = "PENDING" =>
              recipient'[r] = "PENDING" \/ r[1] \in excused'
    BY <1>0, <1>5 DEF SetRecipient, Excuse, RowsTyped
  <2> QED BY <1>5, <2>1, ReleaseUntouched
<1>6. CASE StartSend(j)
  <2>1. \A k \in JobIds : k # j => job'[k] = job[k]
    BY <1>0, <1>6 DEF StartSend, Fail, JobsTyped
  <2> QED BY <1>1, <1>4, <1>6, <2>1 DEF StartSend
<1>7. CASE SuppressTarget(j)
  BY <1>2, <1>5, <1>7 DEF SuppressTarget
<1>8. CASE AttributeSent(j)
  BY <1>2, <1>5, <1>8 DEF AttributeSent
<1>9. CASE RefuseSend(j) \/ RecordSent(j) \/ MarkContacted(j) \/ HandOff(j)
  BY <1>2, <1>4, <1>9 DEF RefuseSend, RecordSent, MarkContacted, HandOff, Handing
<1>10. CASE HandOffTimesOut(j) \/ HandOffRefused(j) \/ Complete(j)
  BY <1>3, <1>4, <1>10 DEF HandOffTimesOut, HandOffRefused, Handing, Complete
<1> QED BY <1>6, <1>7, <1>8, <1>9, <1>10 DEF SendStep

LEMMA ReleaseStep ==
    ASSUME ReleaseIsDue, TypedInvariant, FreshInvariant, [Next]_vars
    PROVE  ReleaseIsDue'
<1> USE DEF rowVars, mailHistory, campaignHistory, history
<1>0. JobsTyped
  BY DEF TypedInvariant
<1>1. CASE WorkerCrash
  <2>1. UNCHANGED <<handler, campaign, recipient>> /\ excused \subseteq excused'
    BY <1>1 DEF WorkerCrash
  <2>2. ASSUME NEW j \in GenerationIds, Counting(j) PROVE Counting(j)' \/ Due(j.of[1])'
    <3>1. j \in JobIds
      BY DEF GenerationIds
    <3>2. CASE job'[j] = job[j]
      BY <2>2, <3>2 DEF Counting, At, Runs
    <3>3. CASE /\ job'[j].state = "waiting" /\ job'[j].at = "start"
               /\ job'[j].stalls > 0
      BY <3>3 DEF Counting, Runs
    <3>4. CASE j \in Active /\ job[j].stalls = MaxStalled
      <4>1. j.of[1] \in excused'
        BY <1>1, <3>4 DEF WorkerCrash
      <4> QED BY <4>1 DEF Due
    <3> QED BY <1>0, <1>1, <3>1, <3>2, <3>3, <3>4, CrashKeepsTypes
  <2>3. \A h \in Handlers, c \in Campaigns : Choosing(h, c) => Choosing(h, c)'
    BY <2>1 DEF Choosing
  <2> QED BY <2>1, <2>2, <2>3, ReleaseKept
<1>2. CASE ApiCrash
  <2>1. /\ UNCHANGED <<job, campaign, recipient>>
        /\ excused' = excused \cup {handler[h].of : h \in
                         {k \in Handlers : handler[k].op = "generate"}}
    BY <1>2 DEF ApiCrash
  <2>2. \A h \in Handlers, c \in Campaigns : Choosing(h, c) => Due(c)'
    BY <2>1 DEF Choosing, Due
  <2>3. \A j \in GenerationIds : Counting(j) => Counting(j)'
    BY <2>1 DEF Counting, At, Runs
  <2> QED BY <2>1, <2>2, <2>3, ReleaseKept
<1>3. CASE UNCHANGED vars
  <2>1. UNCHANGED <<job, handler, campaign, recipient, excused>>
    BY <1>3 DEF vars
  <2>2. \A j \in GenerationIds : Counting(j) => Counting(j)'
    BY <2>1 DEF Counting, At, Runs
  <2> QED BY <2>1, <2>2, ReleaseUntouched
<1>4. ASSUME NEW j \in JobIds, JobStep(j) PROVE ReleaseIsDue'
  BY <1>4, ReleaseGenerationStep, ReleaseSendStep DEF JobStep
<1> QED
  BY <1>1, <1>2, <1>3, <1>4, ReleaseRequests, ReleaseHandlerStep DEF Next

\* The last draft of a campaign releases it, whichever of its jobs writes it and
\* however often they stall, for any number of recipients, handlers and crashes
\* (ai-generation.processor:104).
THEOREM LastDraftsRelease == Spec => []LastDraftReleasesCampaign
<1>1. ReleaseIsDue => LastDraftReleasesCampaign
  BY DEF ReleaseIsDue, LastDraftReleasesCampaign, Due, Choosing, Counting, Runs, At, Quiet
<1>2. ReleaseIsDue /\ TypedInvariant /\ OutcomeInvariant /\ FreshInvariant /\ [Next]_vars
        => (ReleaseIsDue /\ TypedInvariant /\ OutcomeInvariant /\ FreshInvariant)'
  BY ReleaseStep, TypedStep, OutcomeStep, FreshStep
<1> QED BY ReleaseStarts, TypedStarts, OutcomeStarts, FreshStarts, <1>1, <1>2, PTL DEF Spec

-----------------------------------------------------------------------------
(* Sends: every step leaves them all, moves one of them or cuts them all *)

\* The send of a recipient is past its hand-off.
After == {"record", "attribute", "contact", "done"}
Past(r) == job[SendId(r)].state = "active" /\ job[SendId(r)].at \in After

\* A send that runs has one hand-off ahead of it, unless it is past it.
Owed(r) == IF Runs(SendId(r)) /\ ~ Past(r) THEN 1 ELSE 0

Counters ==
    /\ granted \in [Recipients -> Nat]
    /\ mailed \in [Recipients -> Nat]
    /\ unlearnt \in [Recipients -> Nat]

OnlySend(r) == \A q \in Recipients : q # r => job'[SendId(q)] = job[SendId(q)]

Resting ==
    /\ UNCHANGED <<granted, mailed, unlearnt>>
    /\ \A r \in Recipients : job'[SendId(r)] = job[SendId(r)]

Granting(r) ==
    /\ OnlySend(r) /\ UNCHANGED <<listed, mailed, unlearnt>>
    /\ job[SendId(r)].state = "absent" /\ job'[SendId(r)].state = "waiting"
    /\ granted' = [granted EXCEPT ![r] = granted[r] + 1]

Checking(r) ==
    /\ OnlySend(r) /\ UNCHANGED <<listed, granted, mailed, unlearnt>>
    /\ job[SendId(r)].state = "waiting" /\ r[2] \notin listed
    /\ job'[SendId(r)].state = "active" /\ job'[SendId(r)].at = "send"

Mailing(r) ==
    /\ OnlySend(r) /\ UNCHANGED <<listed, granted>>
    /\ job[SendId(r)].state = "active" /\ job[SendId(r)].at = "send"
    /\ mailed' = [mailed EXCEPT ![r] = mailed[r] + 1]
    /\ \/ job'[SendId(r)].state = "active" /\ job'[SendId(r)].at = "record" /\ UNCHANGED unlearnt
       \/ /\ job'[SendId(r)].state = "failed"
          /\ unlearnt' = [unlearnt EXCEPT ![r] = unlearnt[r] + 1]

Moving(r) ==
    /\ OnlySend(r) /\ UNCHANGED <<listed, granted, mailed, unlearnt>>
    /\ job'[SendId(r)].state # "active" \/ job'[SendId(r)].at # "send"
    /\ Runs(SendId(r)) /\ (Runs(SendId(r))' => (Past(r)' <=> Past(r)))

SendMoves(r) == Granting(r) \/ Checking(r) \/ Mailing(r) \/ Moving(r)

LEMMA HandlersRestOrGrant ==
    ASSUME Counters, TypedInvariant, FreshInvariant, NEW h \in Handlers, HandlerStep(h)
    PROVE  Resting \/ \E r \in Recipients : Granting(r)
<1> USE DEF rowVars, mailHistory, campaignHistory, history
<1>0. JobsTyped /\ HandlerFits(h)
  BY DEF TypedInvariant, FreshInvariant, AllFit
<1>1. ASSUME UNCHANGED <<job, granted, mailed, unlearnt>> PROVE Resting
  BY <1>1 DEF Resting
<1>q. ASSUME NEW id, id.kind # "send", job' = Added(id, None), UNCHANGED <<granted, mailed, unlearnt>>
      PROVE  Resting
  <2>1. \A r \in Recipients : SendId(r) # id /\ SendId(r) \in JobIds
    BY <1>q, SendIdIsOne
  <2> QED BY <1>0, <1>q, <2>1 DEF Added, JobsTyped, Resting
<1>2. CASE EnqueueSend(h)
  <2>0. PICK r : r = handler[h].of
    OBVIOUS
  <2>1. /\ handler[h].at = "dispatch" /\ job' = Added(SendId(r), handler[h].msg)
        /\ granted' = [granted EXCEPT ![r] = granted[r] + IF job' = job THEN 0 ELSE 1]
        /\ UNCHANGED <<listed, mailed, unlearnt>>
    BY <1>2, <2>0 DEF EnqueueSend, OnStep
  <2>2. r \in Recipients
    BY <1>0, <2>0, <2>1 DEF HandlerFits, Decision, Present
  <2>3. CASE job' = job
    <3>1. granted' = granted
      BY <2>1, <2>2, <2>3 DEF Counters
    <3> QED BY <1>1, <2>1, <2>3, <3>1
  <2>4. CASE job' # job
    <3>1. /\ job' = [job EXCEPT ![SendId(r)] =
                        [NoJob EXCEPT !.state = "waiting", !.data = handler[h].msg]]
          /\ job[SendId(r)].state = "absent"
          /\ granted' = [granted EXCEPT ![r] = granted[r] + 1]
      BY <2>1, <2>4 DEF Added
    <3>2. job'[SendId(r)].state = "waiting"
      BY <1>0, <2>2, <3>1, SendIdIsOne DEF NoJob, JobsTyped
    <3>3. OnlySend(r)
      BY <1>0, <2>2, <3>1, SendIdIsOne DEF OnlySend, JobsTyped
    <3> QED BY <2>1, <2>2, <3>1, <3>2, <3>3 DEF Granting
  <2> QED BY <2>3, <2>4
<1>3. CASE CreateCampaign(h) \/ EnrolTargets(h) \/ SelectPending(h)
  BY <1>1, <1>3 DEF CreateCampaign, EnrolTargets, SelectPending
<1>4. CASE MarkApproved(h) \/ ApproveDraft(h) \/ SuppressLeadOf(h)
  BY <1>1, <1>4 DEF MarkApproved, ApproveDraft, SuppressLeadOf
<1>5. CASE CloseRecipient(h) \/ MarkLeadsSuppressed(h)
  BY <1>1, <1>5 DEF CloseRecipient, MarkLeadsSuppressed
<1>6. ASSUME NEW r \in Recipients, EnqueueGeneration(h, r) PROVE Resting
  <2>1. /\ job' = Added([kind |-> "ai-gen", of |-> r, stamp |-> None], None)
        /\ UNCHANGED <<granted, mailed, unlearnt>>
    BY <1>6 DEF EnqueueGeneration
  <2> QED BY <1>q, <2>1
<1>7. ASSUME NEW now \in Stamps, EnqueueRegeneration(h, now) PROVE Resting
  <2>1. /\ job' = Added([kind |-> "ai-gen-regen", of |-> handler[h].of, stamp |-> now], None)
        /\ UNCHANGED <<granted, mailed, unlearnt>>
    BY <1>7 DEF EnqueueRegeneration
  <2> QED BY <1>q, <2>1
<1>8. ASSUME NEW r \in Recipients,
             \/ CheckBeforeApproval(h, r) \/ Regenerate(h, r) \/ Skip(h, r)
             \/ SuppressRecipient(h, r)
      PROVE  Resting
  BY <1>1, <1>8 DEF CheckBeforeApproval, Regenerate, Skip, SuppressRecipient, List
<1>9. ASSUME NEW l \in Leads, UpsertEntry(h, l) PROVE Resting
  BY <1>1, <1>9 DEF UpsertEntry, List
<1> QED
  BY <1>2, <1>3, <1>4, <1>5, <1>6, <1>7, <1>8, <1>9 DEF HandlerStep

LEMMA JobsRestOrMove ==
    ASSUME Counters, TypedInvariant, NEW j \in JobIds, JobStep(j)
    PROVE  Resting \/ \E r \in Recipients : SendMoves(r)
<1> USE DEF rowVars, mailHistory, campaignHistory, history
<1>0. JobsTyped /\ Counters /\ j.of \in Recipients
  BY DEF TypedInvariant, JobIds
<1>k. \A k \in JobIds : k # j => job'[k] = job[k]
  <2>1. (\E step : Advance(j, step)) \/ Fail(j) \/ Complete(j) \/ StartSend(j)
    BY DEF JobStep, GenerationStep, StartGeneration, GenerationFails, WriteDraft, MarkReady,
           CountPending, ReleaseCampaign, SendStep, RefuseSend, SuppressTarget, HandOff,
           HandOffTimesOut, HandOffRefused, RecordSent, AttributeSent, MarkContacted
  <2> QED BY <1>0, <2>1 DEF Advance, Fail, Complete, StartSend, JobsTyped
<1>1. CASE j.kind # "send"
  <2>1. \A r \in Recipients : SendId(r) # j /\ SendId(r) \in JobIds
    BY <1>1, SendIdIsOne
  <2>2. UNCHANGED <<granted, mailed, unlearnt>>
    BY <1>1 DEF JobStep, GenerationIds, Complete, GenerationStep, StartGeneration,
                GenerationFails, WriteDraft, MarkReady, CountPending, ReleaseCampaign
  <2> QED BY <1>k, <2>1, <2>2 DEF Resting
<1>2. CASE j.kind = "send"
  <2> DEFINE r == j.of
  <2> SUFFICES SendMoves(r)
    BY <1>0
  <2>0. SendId(r) = j /\ OnlySend(r)
    BY <1>0, <1>2, <1>k, SendIdIsOne DEF OnlySend
  <2>f. Fail(j) => job'[j].state = "failed"
    BY <1>0 DEF Fail, JobsTyped, JobRow
  <2>a. ASSUME NEW step \in Steps, Advance(j, step)
        PROVE  job'[j].state = "active" /\ job'[j].at = step
    BY <1>0, <2>a DEF Advance, JobsTyped, JobRow
  <2>m. ASSUME NEW at, At(j, at), NEW step \in Steps \ {"send"}, Advance(j, step),
               step \in After <=> at \in After, UNCHANGED <<listed, granted, mailed, unlearnt>>
        PROVE  Moving(r)
    BY <2>0, <2>a, <2>m DEF Moving, Past, At, Runs
  <2>1. CASE Complete(j)
    <3>1. job' = [job EXCEPT ![j] = NoJob] /\ UNCHANGED <<listed, granted, mailed, unlearnt>>
      BY <2>1 DEF Complete
    <3>2. job'[j].state = "absent"
      BY <1>0, <3>1 DEF JobsTyped, NoJob
    <3>3. job[j].state = "active"
      BY <2>1 DEF Complete, Ended, At
    <3> QED BY <2>0, <3>1, <3>2, <3>3 DEF Moving, Past, Runs, SendMoves
  <2>2. CASE StartSend(j)
    <3>1. job[j].state = "waiting" /\ UNCHANGED <<listed, granted, mailed, unlearnt>>
      BY <2>2 DEF StartSend
    <3>2. \/ job'[j].state = "failed"
          \/ job'[j].state = "active" /\ job'[j].at = IF r[2] \in listed THEN "refuse" ELSE "send"
      BY <1>0, <2>f, <2>2 DEF StartSend, JobsTyped, JobRow
    <3>3. CASE job'[j].state = "active" /\ job'[j].at = "send"
      BY <2>0, <3>1, <3>2, <3>3 DEF Checking, SendMoves
    <3>4. CASE job'[j].state # "active" \/ job'[j].at # "send"
      <4>1. ~ Past(r)' /\ ~ Past(r)
        BY <2>0, <3>1, <3>2, <3>4 DEF Past, After
      <4> QED BY <2>0, <3>1, <3>4, <4>1 DEF Moving, Runs, SendMoves
    <3> QED BY <3>3, <3>4
  <2>3. CASE RefuseSend(j)
    BY <2>3, <2>m DEF RefuseSend, After, Steps, SendMoves
  <2>4. CASE SuppressTarget(j)
    BY <2>4, <2>m DEF SuppressTarget, After, Steps, SendMoves
  <2>h. Handing(j) => /\ UNCHANGED <<listed, granted>> /\ At(j, "send")
                      /\ mailed' = [mailed EXCEPT ![r] = mailed[r] + 1]
    BY DEF Handing
  <2>5. CASE HandOff(j)
    <3>1. Handing(j) /\ Advance(j, "record") /\ UNCHANGED unlearnt
      BY <2>5 DEF HandOff
    <3>2. job'[j].state = "active" /\ job'[j].at = "record"
      BY <2>a, <3>1 DEF Steps
    <3> QED BY <2>0, <2>h, <3>1, <3>2 DEF Mailing, SendMoves, At
  <2>6. CASE HandOffTimesOut(j)
    <3>1. Handing(j) /\ Fail(j) /\ unlearnt' = [unlearnt EXCEPT ![r] = unlearnt[r] + 1]
      BY <2>6 DEF HandOffTimesOut
    <3> QED BY <2>0, <2>f, <2>h, <3>1 DEF Mailing, SendMoves, At
  <2>7. CASE HandOffRefused(j)
    <3>1. Fail(j) /\ At(j, "send") /\ UNCHANGED <<listed, granted, mailed, unlearnt>>
      BY <2>7 DEF HandOffRefused
    <3> QED BY <2>0, <2>f, <3>1 DEF Moving, Runs, At, SendMoves
  <2>8. CASE RecordSent(j)
    BY <2>8, <2>m DEF RecordSent, After, Steps, SendMoves
  <2>9. CASE AttributeSent(j)
    BY <2>9, <2>m DEF AttributeSent, After, Steps, SendMoves
  <2>10. CASE MarkContacted(j)
    BY <2>10, <2>m DEF MarkContacted, After, Steps, SendMoves
  <2> QED
    BY <1>2, <2>1, <2>2, <2>3, <2>4, <2>5, <2>6, <2>7, <2>8, <2>9, <2>10
       DEF JobStep, SendStep, GenerationIds
<1> QED BY <1>1, <1>2

LEMMA CrashForgets ==
    ASSUME Counters, TypedInvariant, WorkerCrash, NEW r \in Recipients
    PROVE  /\ unlearnt'[r] = unlearnt[r] + (IF Past(r) THEN 1 ELSE 0)
           /\ job'[SendId(r)].state # "active"
           /\ Runs(SendId(r))' => Runs(SendId(r))
<1> DEFINE lost(q) == {j \in Unrecorded : j.of = q}
<1>0. JobsTyped
  BY DEF TypedInvariant
<1>1. unlearnt' = [q \in Recipients |-> unlearnt[q] + Cardinality(lost(q))]
  BY DEF WorkerCrash
<1>2. lost(r) = IF Past(r) THEN {SendId(r)} ELSE {}
  BY SendIdIsOne DEF Past, After, Unrecorded, Active
<1>3. Cardinality({SendId(r)}) = 1 /\ Cardinality({}) = 0
  BY FS_Singleton, FS_EmptySet
<1>4. job'[SendId(r)].state # "active" /\ (Runs(SendId(r))' => Runs(SendId(r)))
  <2> DEFINE j == SendId(r)
             state == IF job[j].stalls < MaxStalled THEN "waiting" ELSE "failed"
             new == [job[j] EXCEPT !.at = "start", !.msg = None,
                         !.stalls = job[j].stalls + 1, !.state = state]
  <2>1. j \in JobIds
    BY SendIdIsOne
  <2>2. job'[j] = IF j \in Active THEN new ELSE job[j]
    BY <2>1 DEF WorkerCrash
  <2>3. new.state = state /\ state # "active"
    BY <1>0, <2>1 DEF JobsTyped, JobRow
  <2> HIDE DEF new, state
  <2> QED BY <2>1, <2>2, <2>3 DEF Active, Runs
<1> HIDE DEF lost
<1> QED BY <1>1, <1>2, <1>3, <1>4

\* Whatever happens, the sends rest, one of them moves, or all are cut.
LEMMA SendSteps ==
    ASSUME Counters, TypedInvariant, FreshInvariant, [Next]_vars
    PROVE  Resting \/ (\E r \in Recipients : SendMoves(r)) \/ WorkerCrash
<1> USE DEF rowVars, mailHistory, campaignHistory, history
<1>0. ASSUME UNCHANGED <<job, granted, mailed, unlearnt>> PROVE Resting
  BY <1>0 DEF Resting
<1>1. CASE CampaignRequest
  BY <1>0, <1>1 DEF CampaignRequest, ResolveTargets, TriggerGeneration, HandleStatusAction
<1>2. CASE ApprovalRequest
  BY <1>0, <1>2 DEF ApprovalRequest, EditDraft, Decide
<1>3. CASE LeadRequest
  BY <1>0, <1>3 DEF LeadRequest, AskSuppression, UpdateLeads, DeleteLeads
<1>4. CASE SuppressionRequest
  BY <1>0, <1>4 DEF SuppressionRequest, AskSuppression, RemoveSuppression
<1>5. CASE ApiCrash \/ UNCHANGED vars
  BY <1>0, <1>5 DEF ApiCrash, vars
<1>6. CASE \E h \in Handlers : HandlerStep(h)
  BY <1>6, HandlersRestOrGrant DEF SendMoves
<1>7. CASE \E j \in JobIds : JobStep(j)
  BY <1>7, JobsRestOrMove
<1> QED BY <1>1, <1>2, <1>3, <1>4, <1>5, <1>6, <1>7 DEF Next

-----------------------------------------------------------------------------
(* Mails and approvals *)

\* The grants of a recipient cover its mails and the one its job may still make.
GrantsCover ==
    /\ Counters
    /\ \A r \in Recipients : mailed[r] + Owed(r) <= granted[r] + unlearnt[r]

LEMMA GrantsStart == Init => GrantsCover
  BY SendIdIsOne DEF Init, GrantsCover, Counters, Owed, Runs, NoJob

LEMMA CountersStep ==
    ASSUME Counters, TypedInvariant, FreshInvariant, [Next]_vars
    PROVE  Counters'
<1>1. CASE Resting
  BY <1>1 DEF Resting, Counters
<1>2. ASSUME NEW r \in Recipients, SendMoves(r) PROVE Counters'
  BY <1>2 DEF SendMoves, Granting, Checking, Mailing, Moving, Counters
<1>3. CASE WorkerCrash
  <2>1. \A r \in Recipients : unlearnt'[r] \in Nat
    BY <1>3, CrashForgets DEF Counters
  <2>2. unlearnt' = [r \in Recipients |-> unlearnt'[r]] /\ UNCHANGED <<granted, mailed>>
    BY <1>3 DEF WorkerCrash
  <2>3. unlearnt' \in [Recipients -> Nat]
    BY <2>1, <2>2
  <2> QED BY <2>2, <2>3 DEF Counters
<1> QED BY <1>1, <1>2, <1>3, SendSteps

\* Only the add that takes effect owes a mail, and it is a grant; a run that dies past
\* its hand-off leaves a mail nobody learnt of, and its re-run owes one.
LEMMA GrantsStep ==
    ASSUME GrantsCover, TypedInvariant, FreshInvariant, [Next]_vars
    PROVE  GrantsCover'
<1>0. Counters /\ Counters'
  BY CountersStep DEF GrantsCover
<1> SUFFICES ASSUME NEW r \in Recipients
             PROVE  mailed'[r] + Owed(r)' <= granted'[r] + unlearnt'[r]
  BY <1>0 DEF GrantsCover
<1>1. /\ mailed[r] + Owed(r) <= granted[r] + unlearnt[r]
      /\ mailed[r] \in Nat /\ granted[r] \in Nat /\ unlearnt[r] \in Nat
  BY DEF GrantsCover, Counters
<1>2. Owed(r) \in {0, 1} /\ Owed(r)' \in {0, 1}
  BY DEF Owed
<1>3. job'[SendId(r)] = job[SendId(r)] => Owed(r)' = Owed(r)
  BY DEF Owed, Runs, Past
<1>4. CASE Resting
  <2>1. Owed(r)' = Owed(r) /\ UNCHANGED <<granted, mailed, unlearnt>>
    BY <1>3, <1>4 DEF Resting
  <2> QED BY <1>1, <2>1
<1>5. ASSUME NEW q \in Recipients, SendMoves(q)
      PROVE  mailed'[r] + Owed(r)' <= granted'[r] + unlearnt'[r]
  <2>1. CASE q # r
    <3>1. Owed(r)' = Owed(r)
      BY <1>3, <1>5, <2>1 DEF SendMoves, Granting, Checking, Mailing, Moving, OnlySend
    <3>2. mailed'[r] = mailed[r] /\ granted'[r] = granted[r] /\ unlearnt'[r] = unlearnt[r]
      BY <1>0, <1>5, <2>1 DEF SendMoves, Granting, Checking, Mailing, Moving, Counters
    <3> QED BY <1>1, <3>1, <3>2
  <2>2. CASE q = r /\ Granting(r)
    <3>1. granted'[r] = granted[r] + 1 /\ Owed(r) = 0 /\ UNCHANGED <<mailed, unlearnt>>
      BY <1>0, <2>2 DEF Granting, Owed, Runs, Counters
    <3> QED BY <1>1, <1>2, <3>1
  <2>3. CASE q = r /\ Mailing(r)
    <3>1. mailed'[r] = mailed[r] + 1 /\ Owed(r) = 1 /\ UNCHANGED granted
      BY <1>0, <2>3 DEF Mailing, Owed, Runs, Past, After, Counters
    <3>2. Owed(r)' = 0
      BY <2>3 DEF Mailing, Owed, Runs, Past, After
    <3>3. unlearnt'[r] = unlearnt[r] \/ unlearnt'[r] = unlearnt[r] + 1
      BY <1>0, <2>3 DEF Mailing, Counters
    <3> QED BY <1>1, <3>1, <3>2, <3>3
  <2>4. CASE q = r /\ (Checking(r) \/ Moving(r))
    <3>1. UNCHANGED <<granted, mailed, unlearnt>>
      BY <2>4 DEF Checking, Moving
    <3>2. Owed(r)' = 0 \/ Owed(r) = 1
      BY <2>4 DEF Checking, Moving, Owed, Runs, Past
    <3> QED BY <1>1, <1>2, <3>1, <3>2
  <2> QED BY <1>5, <2>1, <2>2, <2>3, <2>4 DEF SendMoves
<1>6. CASE WorkerCrash
  <2>1. UNCHANGED <<granted, mailed>>
    BY <1>6 DEF WorkerCrash
  <2>2. unlearnt'[r] = unlearnt[r] + (IF Past(r) THEN 1 ELSE 0)
    BY <1>0, <1>6, CrashForgets
  <2>3. Owed(r)' = 0 \/ Owed(r) = 1 \/ Past(r)
    BY <1>0, <1>6, CrashForgets DEF Owed
  <2> QED BY <1>1, <1>2, <2>1, <2>2, <2>3
<1> QED BY <1>0, <1>4, <1>5, <1>6, SendSteps

\* A recipient is mailed at most as often as approvals queued a job for it and runs
\* were cut between a hand-off and its record, whatever is approved, run again or
\* asked at once, for any number of recipients and requests (approval.service:147).
THEOREM MailsNeedGrants == Spec => []MailsAreGranted
<1>1. GrantsCover => MailsAreGranted
  <2> SUFFICES ASSUME GrantsCover, NEW r \in Recipients
               PROVE  mailed[r] <= granted[r] + unlearnt[r]
    BY DEF MailsAreGranted
  <2>1. /\ mailed[r] + Owed(r) <= granted[r] + unlearnt[r] /\ Owed(r) \in {0, 1}
        /\ mailed[r] \in Nat /\ granted[r] \in Nat /\ unlearnt[r] \in Nat
    BY DEF GrantsCover, Counters, Owed
  <2> QED BY <2>1
<1>2. GrantsCover /\ TypedInvariant /\ OutcomeInvariant /\ FreshInvariant /\ [Next]_vars
        => (GrantsCover /\ TypedInvariant /\ OutcomeInvariant /\ FreshInvariant)'
  BY GrantsStep, TypedStep, OutcomeStep, FreshStep
<1> QED BY GrantsStart, TypedStarts, OutcomeStarts, FreshStarts, <1>1, <1>2, PTL DEF Spec

-----------------------------------------------------------------------------
(* The refinement *)

\* The hand-offs nobody learnt of, and the one still to be recorded, were made.
LossesAreMails ==
    \A r \in Recipients : unlearnt[r] + (IF Past(r) THEN 1 ELSE 0) <= mailed[r]

LEMMA LossesStep ==
    ASSUME LossesAreMails, GrantsCover, TypedInvariant, FreshInvariant, [Next]_vars
    PROVE  LossesAreMails'
<1> SUFFICES ASSUME NEW r \in Recipients
             PROVE  unlearnt'[r] + (IF Past(r)' THEN 1 ELSE 0) <= mailed'[r]
  BY DEF LossesAreMails
<1>0. /\ Counters /\ unlearnt[r] \in Nat /\ mailed[r] \in Nat
      /\ unlearnt[r] + (IF Past(r) THEN 1 ELSE 0) <= mailed[r]
  BY DEF LossesAreMails, GrantsCover, Counters
<1>1. ASSUME UNCHANGED <<mailed, unlearnt>>, Past(r)' => Past(r)
      PROVE  unlearnt'[r] + (IF Past(r)' THEN 1 ELSE 0) <= mailed'[r]
  BY <1>0, <1>1
<1>2. ASSUME job'[SendId(r)] = job[SendId(r)] PROVE Past(r)' = Past(r)
  BY <1>2 DEF Past
<1>3. CASE Resting
  BY <1>1, <1>2, <1>3 DEF Resting
<1>4. ASSUME NEW q \in Recipients, SendMoves(q)
      PROVE  unlearnt'[r] + (IF Past(r)' THEN 1 ELSE 0) <= mailed'[r]
  <2>1. CASE r # q
    <3>1. Past(r)' = Past(r)
      BY <1>2, <1>4, <2>1 DEF SendMoves, Granting, Checking, Mailing, Moving, OnlySend
    <3>2. unlearnt'[r] = unlearnt[r] /\ mailed'[r] = mailed[r]
      BY <1>0, <1>4, <2>1 DEF SendMoves, Granting, Checking, Mailing, Moving, Counters
    <3> QED BY <1>0, <3>1, <3>2
  <2>2. CASE r = q /\ Mailing(q)
    <3>1. mailed'[r] = mailed[r] + 1 /\ ~ Past(r)
      BY <1>0, <2>2 DEF Mailing, Counters, Past, After
    <3>2. \/ unlearnt'[r] = unlearnt[r]
          \/ unlearnt'[r] = unlearnt[r] + 1 /\ ~ Past(r)'
      BY <1>0, <2>2 DEF Mailing, Counters, Past
    <3> QED BY <1>0, <3>1, <3>2
  <2>3. CASE r = q /\ ~ Mailing(q)
    <3>1. UNCHANGED <<mailed, unlearnt>>
      BY <1>4, <2>3 DEF SendMoves, Granting, Checking, Moving
    <3>2. Past(r)' => Past(r)
      BY <1>4, <2>3 DEF SendMoves, Granting, Checking, Moving, Past, After, Runs
    <3> QED BY <1>1, <3>1, <3>2
  <2> QED BY <2>1, <2>2, <2>3
<1>5. CASE WorkerCrash
  <2>1. mailed'[r] = mailed[r]
    BY <1>5 DEF WorkerCrash
  <2>2. ~ Past(r)' /\ unlearnt'[r] = unlearnt[r] + (IF Past(r) THEN 1 ELSE 0)
    BY <1>0, <1>5, CrashForgets DEF Past
  <2> QED BY <1>0, <2>1, <2>2
<1> QED BY <1>0, <1>3, <1>4, <1>5, SendSteps

LEMMA ClearedAre ==
    /\ Cleared = {r \in Recipients : job[SendId(r)].state = "active" /\ job[SendId(r)].at = "send"}
    /\ Cleared' = {r \in Recipients : job'[SendId(r)].state = "active" /\ job'[SendId(r)].at = "send"}
  BY DEF Cleared, At

\* Sends that end or are cut, and the losses that follow.
LEMMA InterruptIsContract ==
    ASSUME LossesAreMails, Counters, UNCHANGED <<granted, listed, mailed>>, Cleared' \subseteq Cleared,
           unlearnt' = [r \in Recipients |-> unlearnt'[r]],
           \A r \in Recipients : unlearnt'[r] = unlearnt[r] + (IF Past(r) THEN 1 ELSE 0)
                                   \/ unlearnt'[r] = unlearnt[r]
    PROVE  Contract!Interrupt
<1>1. ASSUME NEW r \in Recipients
      PROVE  unlearnt'[r] \in Nat /\ unlearnt[r] <= unlearnt'[r] /\ unlearnt'[r] <= mailed[r]
  <2>1. /\ unlearnt[r] \in Nat /\ mailed[r] \in Nat
        /\ unlearnt[r] + (IF Past(r) THEN 1 ELSE 0) <= mailed[r]
    BY DEF LossesAreMails, Counters
  <2> QED BY <2>1
<1>2. unlearnt' \in [Recipients -> Nat]
  BY <1>1
<1> QED BY <1>1, <1>2 DEF Contract!Interrupt, Contract!Recipients, Recipients

\* The check of a send passes while its address is not listed and a mail is owed.
LEMMA CheckIsContract ==
    ASSUME GrantsCover, NEW r \in Recipients, Checking(r)
    PROVE  Contract!Clear(r)
<1>1. r \notin Cleared /\ Cleared' = Cleared \cup {r}
  BY ClearedAre DEF Checking, OnlySend
<1>2. mailed[r] < granted[r] + unlearnt[r]
  <2>1. mailed[r] + Owed(r) <= granted[r] + unlearnt[r] /\ Owed(r) = 1
    BY DEF GrantsCover, Owed, Past, Runs, Checking
  <2>2. mailed[r] \in Nat /\ granted[r] \in Nat /\ unlearnt[r] \in Nat
    BY DEF GrantsCover, Counters
  <2> QED BY <2>1, <2>2
<1> QED BY <1>1, <1>2 DEF Checking, Contract!Clear

LEMMA MailIsContract ==
    ASSUME Counters, NEW r \in Recipients, Mailing(r)
    PROVE  Contract!Mail(r)
<1>1. r \in Cleared /\ Cleared' = Cleared \ {r}
  BY ClearedAre DEF Mailing, OnlySend
<1>2. \E unknown \in {0, 1} : unlearnt' = [unlearnt EXCEPT ![r] = unlearnt[r] + unknown]
  <2>1. unlearnt[r] + 0 = unlearnt[r] /\ unlearnt = [unlearnt EXCEPT ![r] = unlearnt[r]]
    BY DEF Counters
  <2> QED BY <2>1 DEF Mailing
<1> QED BY <1>1, <1>2 DEF Mailing, Contract!Mail

\* Every step of the service is a step of the contract, or none.
LEMMA ContractStep ==
    ASSUME LossesAreMails, GrantsCover, TypedInvariant, TypedInvariant', FreshInvariant,
           [Next]_vars
    PROVE  [Contract!Next]_(Contract!vars)
<1>0. Counters /\ listed' \subseteq Leads
  BY DEF GrantsCover, TypedInvariant, LeadsTyped
<1>1. CASE Resting
  <2>1. Cleared' = Cleared
    BY <1>1, ClearedAre DEF Resting
  <2> QED BY <1>0, <1>1, <2>1 DEF Resting, Contract!ChangeList, Contract!Next
<1>2. ASSUME NEW r \in Recipients, SendMoves(r) PROVE Contract!Next
  <2>0. r \in Contract!Recipients
    BY DEF Contract!Recipients, Recipients
  <2>1. CASE Checking(r)
    BY <2>0, <2>1, CheckIsContract DEF Contract!Next, GrantsCover
  <2>2. CASE Mailing(r)
    BY <1>0, <2>0, <2>2, MailIsContract DEF Contract!Next
  <2>3. CASE Moving(r)
    <3>1. Cleared' \subseteq Cleared
      BY <2>3, ClearedAre DEF Moving, OnlySend
    <3> QED BY <1>0, <2>3, <3>1, InterruptIsContract DEF Moving, Counters, Contract!Next
  <2>4. CASE Granting(r)
    <3>1. Cleared' = Cleared \/ Cleared' = Cleared \ {r}
      BY <2>4, ClearedAre DEF Granting, OnlySend
    <3>2. r \notin Cleared
      BY <2>4, ClearedAre DEF Granting
    <3> QED BY <2>0, <2>4, <3>1, <3>2 DEF Granting, Contract!Approve, Contract!Next
  <2> QED BY <1>2, <2>1, <2>2, <2>3, <2>4 DEF SendMoves
<1>3. CASE WorkerCrash
  <2>1. Cleared' \subseteq Cleared
    BY <1>0, <1>3, CrashForgets, ClearedAre
  <2>2. /\ unlearnt' = [r \in Recipients |-> unlearnt'[r]]
        /\ UNCHANGED <<granted, listed, mailed>>
    BY <1>3 DEF WorkerCrash, rowVars
  <2> QED BY <1>0, <1>3, <2>1, <2>2, CrashForgets, InterruptIsContract DEF Contract!Next
<1> QED BY <1>0, <1>1, <1>2, <1>3, SendSteps

LEMMA ContractStarts == Init => Contract!Init /\ LossesAreMails
<1>1. Init => Cleared = {}
  BY SendIdIsOne DEF Init, Cleared, At, NoJob
<1>2. Init => LossesAreMails
  BY SendIdIsOne DEF Init, LossesAreMails, Past, NoJob
<1> QED BY <1>1, <1>2 DEF Init, Contract!Init, Contract!Recipients, Recipients

(***************************************************************************)
(* The service implements SendContract, for any number of campaigns,       *)
(* requests, stalls and crashes: each mail has a check of its own, made    *)
(* while its address was not listed, and each check an approval not yet    *)
(* spent or a mail no run recorded (email-send.processor:62-142).          *)
(***************************************************************************)
THEOREM DispatchKeepsContract == Spec => SendsKeepContract
<1>1. /\ LossesAreMails /\ GrantsCover /\ TypedInvariant /\ FreshInvariant
      /\ TypedInvariant' /\ [Next]_vars
      => [Contract!Next]_(Contract!vars)
  BY ContractStep
<1>2. /\ LossesAreMails /\ GrantsCover /\ TypedInvariant /\ OutcomeInvariant /\ FreshInvariant
      /\ [Next]_vars
      => (LossesAreMails /\ GrantsCover /\ TypedInvariant /\ OutcomeInvariant /\ FreshInvariant)'
  BY LossesStep, GrantsStep, TypedStep, OutcomeStep, FreshStep
<1> QED
  BY ContractStarts, GrantsStart, TypedStarts, OutcomeStarts, FreshStarts, <1>1, <1>2, PTL
     DEF Spec, SendsKeepContract, Contract!Spec

=============================================================================
