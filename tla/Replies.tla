------------------------------ MODULE Replies -------------------------------
(***************************************************************************)
(* What comes back from the mail provider, and what is answered: the       *)
(* webhook endpoint, the webhook and inbound processors, the inbox, and    *)
(* the commits of the send processor that the webhooks race with.          *)
(* One action is one awaited call, or consecutive ones that no property    *)
(* here tells apart; Dispatch has every step of a send.  The provider      *)
(* delivers an event any number of times, in any order, also twice at once.*)
(***************************************************************************)
EXTENDS Naturals, FiniteSets, Sequences

CONSTANTS
    Prospects,      \* addresses with a lead row at the start
    Strangers,      \* addresses without one
    CampaignMails,  \* approved campaign messages whose send is queued
    ReplyMails,     \* ids of messages people write from the inbox
    EventKinds,     \* kinds of events the provider sends in an instance
    NoAddress,      \* no address
    MaxStalls,      \* BullMQ's maxStalledCount
    ReplyClasses,   \* what replies of an instance are classified as
    MaxTrouble      \* bound: deliveries of events and crashes

Addresses == Prospects \cup Strangers
Mails == CampaignMails \cup ReplyMails

ASSUME RepliesBounds ==
    /\ {MaxStalls, MaxTrouble} \subseteq Nat
    /\ NoAddress \notin Addresses

VARIABLES
    prospect,     \* address -> [crm, valid], or NoRow
    blocked,      \* addresses in suppressionEntry
    mail,         \* outgoing message -> [status, recorded, to, send, stalls]
    target,       \* campaign message -> status of its campaignRecipient
    talks,        \* conversation ids: <<address, number>>
    hooks,        \* webhook requests in flight
    stored,       \* webhookEvent rows
    processed,    \* those with processed = true
    hookJob,      \* event -> its webhook job
    inboundJob,   \* <<event, n>> -> an inbound job
    inboundRows,  \* inboundMessage rows
    replies,      \* inbox requests in flight
    (* History *)
    deliveries,   \* deliveries made
    eventRows,    \* event -> emailEvent rows written for it
    cut,          \* events whose request died after storing them
    gap,          \* listed addresses whose lead row was made, or whose run was
                  \* cut, before the row could be marked
    replyFaults

repliesVars == <<prospect, blocked, mail, target, talks, hooks, stored, processed,
                 hookJob, inboundJob, inboundRows, replies, deliveries, eventRows,
                 cut, gap, replyFaults>>

-----------------------------------------------------------------------------
(* Values *)

Kinds == {"delivered", "bounced", "complained", "opened", "reply"}
StatusOf(kind) ==
    CASE kind = "delivered"  -> "DELIVERED"
      [] kind = "bounced"    -> "BOUNCED"
      [] kind = "complained" -> "COMPLAINED"
      [] kind = "reply"      -> "REPLIED"
      [] OTHER               -> "none"
Suppresses(kind) == kind \in {"bounced", "complained"}

ReplyClassification == {"INTERESTED", "MEETING_REQUEST", "NOT_INTERESTED", "UNSUBSCRIBE", "QUESTION"}
StageOf(class) ==
    CASE class = "INTERESTED"      -> "INTERESTED"
      [] class = "MEETING_REQUEST" -> "MEETING_REQUESTED"
      [] class = "NOT_INTERESTED"  -> "LOST"
      [] OTHER                     -> "REPLIED"
Stages == {"IMPORTED", "CONTACTED", "REPLIED", "INTERESTED", "MEETING_REQUESTED",
           "LOST", "SUPPRESSED"}

\* about: the address the code reads from the event (its first "to").
Events == {e \in [kind : EventKinds, mail : Mails, about : Addresses] :
              e.kind = "reply" \/ e.about \in Prospects}
NoRow == [crm |-> "none", valid |-> "none"]
BlockedRow(row) == IF row = NoRow THEN NoRow
                   ELSE [crm |-> "SUPPRESSED", valid |-> "SUPPRESSED"]

\* A webhook job: it found the message or not.  An inbound job: its class.
NoRun == [state |-> "absent", at |-> "start", found |-> FALSE, class |-> "none",
          stalls |-> 0]
\* An event's job runs once and once more each time it stalls.
InboundIds == {e \in Events : e.kind = "reply"} \X (1 .. MaxStalls + 1)

RepliesTypeOK ==
    /\ prospect \in [Addresses -> [crm : Stages, valid : {"VALID", "SUPPRESSED"}] \cup {NoRow}]
    /\ blocked \subseteq Addresses
    /\ mail \in [Mails -> [status : {"none", "APPROVED", "SENT", "FAILED", "DELIVERED",
                                     "BOUNCED", "COMPLAINED", "REPLIED"},
                           recorded : BOOLEAN, to : Addresses \cup {NoAddress},
                           send : {"idle", "waiting", "record", "attribute", "ended"},
                           stalls : 0 .. MaxStalls + 1]]
    /\ target \in [CampaignMails -> {"APPROVED", "SENT", "SUPPRESSED", "DELIVERED",
                                     "BOUNCED", "COMPLAINED", "REPLIED"}]
    /\ talks \subseteq Addresses \X (Nat \ {0})
    /\ processed \subseteq stored /\ stored \subseteq Events
    /\ \A e \in Events : hookJob[e].stalls <= MaxStalls + 1

RepliesInit ==
    /\ prospect = [a \in Addresses |-> IF a \in Prospects
                                       THEN [crm |-> "IMPORTED", valid |-> "VALID"]
                                       ELSE NoRow]
    /\ blocked = {}
    /\ mail \in [Mails -> [status : {"none", "APPROVED"}, recorded : {FALSE},
                           to : Prospects \cup {NoAddress}, send : {"idle", "waiting"},
                           stalls : {0}]]
    /\ \A m \in Mails : /\ m \in CampaignMails <=> mail[m].status = "APPROVED"
                        /\ m \in CampaignMails <=> mail[m].to # NoAddress
                        /\ m \in CampaignMails <=> mail[m].send = "waiting"
    /\ target = [m \in CampaignMails |-> "APPROVED"]
    /\ talks = {}
    /\ hooks = {}
    /\ stored = {}
    /\ processed = {}
    /\ hookJob = [e \in Events |-> NoRun]
    /\ inboundJob = [i \in InboundIds |-> NoRun]
    /\ inboundRows = {}
    /\ replies = {}
    /\ deliveries = 0
    /\ eventRows = [e \in Events |-> 0]
    /\ cut = {}
    /\ gap = {}
    /\ replyFaults = 0

-----------------------------------------------------------------------------
(* email-send.processor, from the hand-off on *)

SendVars == <<mail, target, prospect>>
NoSendChange == UNCHANGED <<blocked, talks, hooks, stored, processed, hookJob,
                            inboundJob, inboundRows, replies, deliveries, eventRows,
                            cut, gap, replyFaults>>

SendAt(m, at) == mail[m].send = at

\* The list is checked, then the provider has the mail.
CheckAndHand(m) ==
    /\ SendAt(m, "waiting")
    /\ IF mail[m].to \in blocked
       THEN /\ mail' = [mail EXCEPT ![m].status = "FAILED", ![m].send = "ended"]
            /\ target' = [n \in CampaignMails |-> IF n = m THEN "SUPPRESSED" ELSE target[n]]
       ELSE mail' = [mail EXCEPT ![m].send = "record"] /\ UNCHANGED target
    /\ UNCHANGED prospect /\ NoSendChange

\* SENT and the provider's id in one write, over whatever a webhook wrote.
CommitSent(m) ==
    /\ SendAt(m, "record")
    /\ mail' = [mail EXCEPT ![m].status = "SENT", ![m].recorded = TRUE,
                            ![m].send = "attribute"]
    /\ UNCHANGED <<target, prospect>> /\ NoSendChange

\* The recipient's status and the lead's stage, over whatever they are.
AttributeMail(m) ==
    /\ SendAt(m, "attribute")
    /\ target' = [n \in CampaignMails |-> IF n = m THEN "SENT" ELSE target[n]]
    /\ prospect' = [prospect EXCEPT ![mail[m].to].crm = "CONTACTED"]
    /\ mail' = [mail EXCEPT ![m].send = "ended"]
    /\ NoSendChange

-----------------------------------------------------------------------------
(* webhooks.service *)

HookVars == <<hooks, stored, hookJob, deliveries>>
NoHookChange == UNCHANGED <<SendVars, blocked, talks, processed, inboundJob, inboundRows,
                            replies, eventRows, cut, gap, replyFaults>>

\* A reply is about its sender, known or not; the others are about the addressee.
Possible(e) ==
    /\ \/ mail[e.mail].send \in {"record", "attribute"}
       \/ mail[e.mail].send = "ended" /\ mail[e.mail].status # "FAILED"
       \/ mail[e.mail].stalls > 0
    /\ e.kind # "reply" => e.about = mail[e.mail].to

\* The duplicate check is a read of its own: two deliveries can both pass it.
ReceiveWebhook(e) ==
    /\ Possible(e)
    /\ deliveries + replyFaults < MaxTrouble /\ deliveries' = deliveries + 1
    /\ hooks' = IF e \in stored THEN hooks
                ELSE hooks \cup {[event |-> e, no |-> deliveries, at |-> "store"]}
    /\ UNCHANGED <<stored, hookJob>> /\ NoHookChange

\* Mutant: no unique providerEventId.
StoreEventTwice(q) ==
    /\ q \in hooks /\ q.at = "store"
    /\ hooks' = (hooks \ {q}) \cup {[q EXCEPT !.at = "enqueue"]}
    /\ stored' = stored \cup {q.event}
    /\ UNCHANGED <<hookJob, deliveries>> /\ NoHookChange

\* providerEventId is unique: the second create throws and nothing is queued.
StoreEvent(q) ==
    /\ q \in hooks /\ q.at = "store"
    /\ hooks' = (hooks \ {q}) \cup
          (IF q.event \in stored THEN {} ELSE {[q EXCEPT !.at = "enqueue"]})
    /\ stored' = stored \cup {q.event}
    /\ UNCHANGED <<hookJob, deliveries>> /\ NoHookChange

EnqueueEvent(q) ==
    /\ q \in hooks /\ q.at = "enqueue"
    /\ hooks' = hooks \ {q}
    /\ hookJob' = [hookJob EXCEPT ![q.event] = [NoRun EXCEPT !.state = "waiting"]]
    /\ UNCHANGED <<stored, deliveries>> /\ NoHookChange

-----------------------------------------------------------------------------
(* webhook.processor *)

HookAt(e, at) == hookJob[e].state = "active" /\ hookJob[e].at = at

\* The awaits of a run that found the message or not, in order.
HookPlan(e, found) ==
    (IF ~found THEN <<>>
     ELSE <<"event">> \o
          (IF StatusOf(e.kind) = "none" THEN <<>>
           ELSE <<"status">>))
    \o (IF Suppresses(e.kind) THEN <<"list", "mark">> ELSE <<>>)
    \o (IF e.kind = "reply" THEN <<"dispatch">> ELSE <<>>)
    \o <<"processed">>

HookAdvance(e) ==
    LET plan == HookPlan(e, hookJob[e].found)
        next == CHOOSE i \in 1 .. Len(plan) : i > 1 /\ plan[i - 1] = hookJob[e].at
    IN  hookJob' = [hookJob EXCEPT ![e].at = plan[next]]

NoProcessorChange ==
    UNCHANGED <<talks, hooks, stored, inboundRows, replies, deliveries, cut,
                gap, replyFaults>>

\* Mutant: the message is found by an id of ours, recorded or not.
LookUpUnrecorded(e) ==
    /\ hookJob[e].state = "waiting"
    /\ hookJob' = [hookJob EXCEPT ![e].state = "active", ![e].found = TRUE,
                                  ![e].at = HookPlan(e, TRUE)[1]]
    /\ UNCHANGED <<SendVars, blocked, processed, inboundJob, eventRows>>
    /\ NoProcessorChange

\* A message is found by the provider's id, so only once its send recorded it.
LookUp(e) ==
    /\ hookJob[e].state = "waiting"
    /\ LET found == mail[e.mail].recorded
       IN  hookJob' = [hookJob EXCEPT ![e].state = "active", ![e].found = found,
                                      ![e].at = HookPlan(e, found)[1]]
    /\ UNCHANGED <<SendVars, blocked, processed, inboundJob, eventRows>>
    /\ NoProcessorChange

RecordEvent(e) ==
    /\ HookAt(e, "event")
    /\ eventRows' = [eventRows EXCEPT ![e] = @ + 1]
    /\ HookAdvance(e)
    /\ UNCHANGED <<SendVars, blocked, processed, inboundJob>> /\ NoProcessorChange

\* The message, and the recipient of one that has a recipient.
SetOutcome(e) ==
    /\ HookAt(e, "status")
    /\ mail' = [mail EXCEPT ![e.mail].status = StatusOf(e.kind)]
    /\ target' = [n \in CampaignMails |-> IF n = e.mail THEN StatusOf(e.kind) ELSE target[n]]
    /\ HookAdvance(e)
    /\ UNCHANGED <<prospect, blocked, processed, inboundJob, eventRows>>
    /\ NoProcessorChange

BlockAddress(e) ==
    /\ HookAt(e, "list")
    /\ blocked' = blocked \cup {e.about}
    /\ HookAdvance(e)
    /\ UNCHANGED <<SendVars, processed, inboundJob, eventRows>> /\ NoProcessorChange

BlockProspect(e) ==
    /\ HookAt(e, "mark")
    /\ prospect' = [prospect EXCEPT ![e.about] = BlockedRow(@)]
    /\ HookAdvance(e)
    /\ UNCHANGED <<mail, target, blocked, processed, inboundJob, eventRows>>
    /\ NoProcessorChange

\* Mutant: the job is queued under the provider's id of the mail answered.
DispatchReplyKeyed(e) ==
    /\ HookAt(e, "dispatch")
    /\ inboundJob' = IF \E i \in InboundIds : i[1].mail = e.mail /\ inboundJob[i] # NoRun
                     THEN inboundJob
                     ELSE [inboundJob EXCEPT ![<<e, 1>>].state = "waiting"]
    /\ HookAdvance(e)
    /\ UNCHANGED <<SendVars, blocked, processed, eventRows>> /\ NoProcessorChange

\* Queued without a job id: a run more of the webhook job is a reply more.
DispatchReply(e) ==
    /\ HookAt(e, "dispatch")
    /\ LET n == Cardinality({i \in InboundIds : i[1] = e /\ inboundJob[i] # NoRun}) + 1
       IN  inboundJob' = [inboundJob EXCEPT ![<<e, n>>].state = "waiting"]
    /\ HookAdvance(e)
    /\ UNCHANGED <<SendVars, blocked, processed, eventRows>> /\ NoProcessorChange

\* Mutant: the flag is never set.
MarkProcessedNot(e) ==
    /\ HookAt(e, "processed")
    /\ hookJob' = [hookJob EXCEPT ![e] = [NoRun EXCEPT !.stalls = hookJob[e].stalls]]
    /\ UNCHANGED <<SendVars, blocked, inboundJob, eventRows, processed>> /\ NoProcessorChange

\* The last step of the job, which BullMQ then removes; its stalls stay known.
MarkProcessed(e) ==
    /\ HookAt(e, "processed")
    /\ processed' = processed \cup {e}
    /\ hookJob' = [hookJob EXCEPT ![e] = [NoRun EXCEPT !.stalls = hookJob[e].stalls]]
    /\ UNCHANGED <<SendVars, blocked, inboundJob, eventRows>> /\ NoProcessorChange

-----------------------------------------------------------------------------
(* inbound-email.processor *)

InboundAt(i, at) == inboundJob[i].state = "active" /\ inboundJob[i].at = at
InboundGoto(i, at) ==
    inboundJob' = [inboundJob EXCEPT ![i].state = "active", ![i].at = at]
InboundEnds(i, state) ==
    inboundJob' = [inboundJob EXCEPT ![i] = [NoRun EXCEPT !.state = state]]
Sender(i) == i[1].about

NoInboundChange ==
    UNCHANGED <<mail, target, hooks, stored, processed, hookJob, replies, deliveries,
                eventRows, cut, replyFaults>>

LocateLead(i) ==
    /\ inboundJob[i].state = "waiting"
    /\ InboundGoto(i, IF prospect[Sender(i)] = NoRow THEN "newLead" ELSE "talk")
    /\ UNCHANGED <<prospect, blocked, talks, inboundRows, gap>> /\ NoInboundChange

\* normalizedEmail is unique: of two replies of a stranger one job throws.
CreateLead(i) ==
    /\ InboundAt(i, "newLead")
    /\ IF prospect[Sender(i)] # NoRow
       THEN InboundEnds(i, "failed") /\ UNCHANGED <<prospect, gap>>
       ELSE /\ prospect' = [prospect EXCEPT ![Sender(i)] = [crm |-> "REPLIED", valid |-> "VALID"]]
            /\ gap' = gap \cup ({Sender(i)} \cap blocked)
            /\ InboundGoto(i, "talk")
    /\ UNCHANGED <<blocked, talks, inboundRows>> /\ NoInboundChange

TalksOf(a) == {t \in talks : t[1] = a}

\* Mutant: the conversation is not looked for.
FindNoConversation(i) ==
    /\ InboundAt(i, "talk")
    /\ InboundGoto(i, "newTalk")
    /\ UNCHANGED <<prospect, blocked, talks, inboundRows, gap>> /\ NoInboundChange

FindConversation(i) ==
    /\ InboundAt(i, "talk")
    /\ InboundGoto(i, IF TalksOf(Sender(i)) = {} THEN "newTalk" ELSE "classify")
    /\ UNCHANGED <<prospect, blocked, talks, inboundRows, gap>> /\ NoInboundChange

\* Nothing is unique here: two replies at once make two conversations.
CreateConversation(i) ==
    /\ InboundAt(i, "newTalk")
    /\ talks' = talks \cup {<<Sender(i), Cardinality(TalksOf(Sender(i))) + 1>>}
    /\ InboundGoto(i, "classify")
    /\ UNCHANGED <<prospect, blocked, inboundRows, gap>> /\ NoInboundChange

ClassifyReply(i, class) ==
    /\ InboundAt(i, "classify")
    /\ inboundJob' = [inboundJob EXCEPT ![i].class = class,
                         ![i].at = IF class = "UNSUBSCRIBE" THEN "list" ELSE "draft"]
    /\ UNCHANGED <<prospect, blocked, talks, inboundRows, gap>> /\ NoInboundChange

\* classifyReply or draftReply throws: nothing tries the job again.
ProviderFails(i) ==
    /\ InboundAt(i, "classify") \/ InboundAt(i, "draft")
    /\ InboundEnds(i, "failed")
    /\ UNCHANGED <<prospect, blocked, talks, inboundRows, gap>> /\ NoInboundChange

BlockSender(i) ==
    /\ InboundAt(i, "list")
    /\ blocked' = blocked \cup {Sender(i)}
    /\ InboundGoto(i, "mark")
    /\ UNCHANGED <<prospect, talks, inboundRows, gap>> /\ NoInboundChange

\* Mutant: only the stage is written.
MarkSenderStage(i) ==
    /\ InboundAt(i, "mark")
    /\ prospect' = [prospect EXCEPT ![Sender(i)].crm = "SUPPRESSED"]
    /\ InboundGoto(i, "draft")
    /\ UNCHANGED <<blocked, talks, inboundRows, gap>> /\ NoInboundChange

MarkSender(i) ==
    /\ InboundAt(i, "mark")
    /\ prospect' = [prospect EXCEPT ![Sender(i)] = BlockedRow(@)]
    /\ InboundGoto(i, "draft")
    /\ UNCHANGED <<blocked, talks, inboundRows, gap>> /\ NoInboundChange

\* The draft is made and the message stored with it; then the stage is written,
\* over SUPPRESSED too.  The job stays in Redis, completed.
StoreInbound(i) ==
    /\ InboundAt(i, "draft")
    /\ inboundRows' = inboundRows \cup {i}
    /\ prospect' = [prospect EXCEPT ![Sender(i)].crm = StageOf(inboundJob[i].class)]
    /\ InboundEnds(i, "completed")
    /\ UNCHANGED <<blocked, talks, gap>> /\ NoInboundChange

-----------------------------------------------------------------------------
(* inbox.service, sendReply *)

NoReplyChange ==
    UNCHANGED <<target, blocked, talks, hooks, stored, processed, hookJob, inboundJob,
                inboundRows, deliveries, eventRows, cut, gap, replyFaults>>

\* A listed address refuses the request.
CheckReply(t, m, stage) ==
    /\ t[1] \notin blocked
    /\ mail[m].status = "none" /\ \A q \in replies : q.mail # m
    /\ replies' = replies \cup {[mail |-> m, to |-> t[1], stage |-> stage, at |-> "create"]}
    /\ UNCHANGED <<mail, prospect>> /\ NoReplyChange

CreateReply(q) ==
    /\ q \in replies /\ q.at = "create"
    /\ mail' = [mail EXCEPT ![q.mail].status = "APPROVED", ![q.mail].to = q.to]
    /\ replies' = (replies \ {q}) \cup {[q EXCEPT !.at = "enqueue"]}
    /\ UNCHANGED prospect /\ NoReplyChange

\* Queued, and then the stage is written if the request has one.
EnqueueReply(q) ==
    /\ q \in replies /\ q.at = "enqueue"
    /\ mail' = [mail EXCEPT ![q.mail].send = "waiting"]
    /\ prospect' = IF q.stage = "none" THEN prospect
                   ELSE [prospect EXCEPT ![q.to].crm = q.stage]
    /\ replies' = replies \ {q}
    /\ NoReplyChange

-----------------------------------------------------------------------------
(* Crashes *)

Stalled(run) ==
    IF run.state # "active" THEN run
    ELSE [run EXCEPT !.at = "start", !.class = "none", !.found = FALSE,
             !.stalls = @ + 1,
             !.state = IF run.stalls < MaxStalls THEN "waiting" ELSE "failed"]

\* Running jobs go back to waiting, or fail when they stalled too often.
RepliesWorkerCrash ==
    /\ deliveries + replyFaults < MaxTrouble /\ replyFaults' = replyFaults + 1
    /\ LET hookRuns == {e \in Events : hookJob[e].state = "active"}
           inboundRuns == {i \in InboundIds : inboundJob[i].state = "active"}
           sends == {m \in Mails : mail[m].send \in {"record", "attribute"}}
       IN  /\ hookRuns # {} \/ inboundRuns # {} \/ sends # {}
           /\ gap' = gap \cup {e.about : e \in {x \in hookRuns : HookAt(x, "mark")}}
                         \cup {Sender(i) : i \in {x \in inboundRuns : InboundAt(x, "mark")}}
           /\ mail' = [m \in Mails |->
                 IF m \notin sends THEN mail[m]
                 ELSE [mail[m] EXCEPT !.stalls = @ + 1,
                          !.send = IF mail[m].stalls < MaxStalls THEN "waiting" ELSE "ended"]]
    /\ hookJob' = [e \in Events |-> Stalled(hookJob[e])]
    /\ inboundJob' = [i \in InboundIds |-> Stalled(inboundJob[i])]
    /\ UNCHANGED <<prospect, blocked, target, talks, hooks, stored, processed, inboundRows,
                   replies, deliveries, eventRows, cut>>

\* A stored event whose request dies is a duplicate when it is delivered again.
RepliesApiCrash ==
    /\ hooks # {} \/ replies # {}
    /\ deliveries + replyFaults < MaxTrouble /\ replyFaults' = replyFaults + 1
    /\ cut' = cut \cup {q.event : q \in {x \in hooks : x.at = "enqueue"}}
    /\ hooks' = {} /\ replies' = {}
    /\ UNCHANGED <<SendVars, blocked, talks, stored, processed, hookJob, inboundJob,
                   inboundRows, deliveries, eventRows, gap>>

-----------------------------------------------------------------------------
(* Specification *)

RepliesSendStep(m) ==
    CheckAndHand(m) \/ CommitSent(m) \/ AttributeMail(m)

HookRequestStep == \E q \in hooks : StoreEvent(q) \/ EnqueueEvent(q)

HookJobStep(e) ==
    \/ LookUp(e) \/ RecordEvent(e) \/ SetOutcome(e) \/ BlockAddress(e)
    \/ BlockProspect(e) \/ DispatchReply(e) \/ MarkProcessed(e)

InboundStep(i) ==
    \/ LocateLead(i) \/ CreateLead(i) \/ FindConversation(i) \/ CreateConversation(i)
    \/ \E class \in ReplyClasses : ClassifyReply(i, class)
    \/ ProviderFails(i) \/ BlockSender(i) \/ MarkSender(i) \/ StoreInbound(i)

InboxStep ==
    \E q \in replies : CreateReply(q) \/ EnqueueReply(q)

RepliesNext ==
    \/ \E m \in Mails : RepliesSendStep(m)
    \/ \E e \in Events : ReceiveWebhook(e) \/ HookJobStep(e)
    \/ HookRequestStep
    \/ \E i \in InboundIds : InboundStep(i)
    \/ \E t \in talks, m \in ReplyMails, stage \in {"none", "INTERESTED"} :
          CheckReply(t, m, stage)
    \/ InboxStep
    \/ RepliesWorkerCrash \/ RepliesApiCrash

RepliesSpec == RepliesInit /\ [][RepliesNext]_repliesVars

-----------------------------------------------------------------------------
(* Properties *)

\* However often and however close together the provider delivers an event, it
\* is recorded once per run of its job, and that job runs more than once only
\* when the worker died in it (webhooks.service:45, the unique providerEventId).
EventsRecordedOnce == \A e \in Events : eventRows[e] <= 1 + hookJob[e].stalls

\* A webhookEvent marked processed has had its effect: the address of a bounce
\* or complaint is on the list, a reply has its inbound job
\* (webhook.processor:102-139).
ProcessedIsHandled ==
    \A e \in processed :
        /\ Suppresses(e.kind) => e.about \in blocked
        /\ e.kind = "reply" => \E n \in 1 .. MaxStalls + 1 : inboundJob[<<e, n>>] # NoRun

\* The lead of a listed address is not selectable, whatever stage is written over
\* it later, but for a run between its two writes, one that died there, and a row
\* made after the address was listed (webhook.processor:104-122).
ListedLeadIsBlocked ==
    \A a \in blocked :
        \/ prospect[a].valid # "VALID"
        \/ \E e \in Events : e.about = a /\ HookAt(e, "mark")
        \/ \E i \in InboundIds : Sender(i) = a /\ InboundAt(i, "mark")
        \/ a \in gap

\* What the provider said of a mail is not written over by the send that mailed
\* it, unless that send ran again: the provider's id, by which an event finds the
\* mail, is written with SENT (webhook.processor:31, email-send.processor:150).
OutcomeIsNotOverwritten ==
    [][\A m \in Mails :
          mail[m].status \in {"DELIVERED", "BOUNCED", "COMPLAINED", "REPLIED"}
              /\ mail'[m].status \in {"SENT", "FAILED"} => mail[m].stalls > 0]_repliesVars

\* A sender has no more conversations than replies whose job started: the run
\* that starts again after one that died finds what that one made, and only
\* replies processed at the same time make more than one
\* (inbound-email.processor:44-65).
ConversationsAreOfReplies ==
    \A a \in Addresses :
        Cardinality(TalksOf(a))
          <= Cardinality({i \in InboundIds : Sender(i) = a /\ inboundJob[i] # NoRun})

\* An event the endpoint stored is processed, or about to be, or its job failed,
\* unless the API died before queueing it: then every later delivery is taken for
\* a duplicate (webhooks.service:49-77).
StoredEventsAreKept ==
    \A e \in stored : \/ e \in processed \cup cut
                      \/ hookJob[e].state # "absent"
                      \/ \E q \in hooks : q.event = e /\ q.at = "enqueue"

=============================================================================
