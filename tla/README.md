# Shaliach in TLA+

Shaliach AI turns leads into e-mail conversations: leads are imported or
scraped, a language model drafts an outreach mail for each, a person approves
it, a worker sends it through Resend, and delivery events and replies update
the lead. The repository holds two implementations of the server and one
console:

- the **Python services**, which `infrastructure/docker` builds:
  `apps/api/app` (FastAPI, SQLAlchemy) and `apps/worker/worker` (ARQ);
- the **TypeScript services**: `apps/api/src` (NestJS, Prisma) and
  `apps/worker/src` (BullMQ), with `packages/shared`;
- the **web console** `apps/web` (Next.js, TanStack Query).

This directory holds TLA+ models of all three, the TLC configurations that
check them and TLAPS proofs about them. The two servers offer the same
operations but differ in what makes them hard: a Python handler commits its
transaction at once and then enqueues; a TypeScript handler has no
transaction at all and every awaited statement is a point where others run.
They are therefore modelled separately.

## The system

### Python services

| Component | State | Operations | Interacts with |
|---|---|---|---|
| Campaigns (`campaigns_service.py`) | `campaigns.status`, `campaign_recipients` | create, update, delete, START/PAUSE/RESUME/CANCEL/RESET, trigger generation, approve all | enqueues `generate_outreach`; reads leads, messages |
| Approval queue (`approval_service.py`) | recipient and message status | edit draft, APPROVE, REGENERATE, SKIP, SUPPRESS, bulk, approve all | enqueues `send_email`, `generate_outreach` |
| Drafting (`ai_generation.py`) | `email_messages`, recipient status, campaign status | one task per recipient | model provider |
| Sending (`email_send.py`, `email_provider.py`) | message, recipient, lead status | `send_email`, `send_reply` | suppression list, Resend |
| Job queue and worker (`queue.py`, `worker/main.py`) | Redis jobs and results | enqueue, run, retry, expire, start-up recovery | everything above |
| Suppression list (`suppression_service.py`) | `suppression_entries`, lead columns | add, remove | every sender reads it |
| Leads, CRM (`leads_service.py`, `crm_service.py`) | `leads`, revenue entries | update, bulk actions, stage, revenue | campaigns, drip |
| Webhooks (`webhooks_service.py`, `tasks/webhook.py`) | `webhook_events`, `email_events`, message status | receive, process, suppress | Resend, job queue |
| Inbound mail, inbox (`inbound_email.py`, `inbox_service.py`) | conversations, inbound messages | receive, classify, reply, compose, delete | webhooks, CRM, suppression, sending |
| Autopilot (`autopilot.py`), social drip (`social_collab.py`) | pause keys, daily counters in Redis | cron drip, follow-up, Telegram commands | leads, `send_email` |
| CSV import (`csv_import.py`, `imports_service.py`) | `import_jobs`, `import_rows`, leads | create, process in chunks, cancel, recover | job queue, suppression |
| Lead discovery (`lead_finder.py`, `social_scraper.py`) | leads | scrape and insert | external sites |
| Authentication, settings | sessions in Redis, sender profiles | login, logout, change password, profile default | every router |

Every API request and every task has a database session of its own (Postgres,
READ COMMITTED). The patterns that make the system hard to test are always the
same four:

- a request **commits and then enqueues** the job the commit calls for; a crash
  or a Redis error between the two loses the job;
- a task **loads rows, awaits a slow call** (model 10 s and more, Resend up to
  30 s) **and writes back** the columns that differ from what it loaded, so
  whatever others committed meanwhile is partly overwritten;
- job ids are sometimes fixed (`send-{id}`, `ai-gen-regen-{id}`), and then ARQ
  drops a call while the id is queued, running or its result is kept, and
  sometimes random, and then nothing stops a second job for the same thing;
- ARQ runs a job again when the worker stops in the middle of it, and the worker
  has a recovery of its own at start-up.

### TypeScript services

| Component | State | Operations | Interacts with |
|---|---|---|---|
| Campaigns (`campaigns.service.ts`) | `campaign.status`, `campaignRecipient` | create, generate, RUNNING/PAUSED/CANCELLED | queue `ai-generation`, leads |
| Approval (`approval.service.ts`) | recipient and message status | APPROVE, REGENERATE, SKIP, SUPPRESS, bulk, edit | queues `email-send`, `ai-generation`, suppression |
| Drafting, sending (`ai-generation.processor.ts`, `email-send.processor.ts`) | messages, recipients, leads | one job per recipient | AI provider, Resend, suppression |
| Suppression, leads (`suppression.service.ts`, `leads.service.ts`) | `suppressionEntry`, `lead` | add, remove, update, bulk, delete | every sender reads the list |
| Webhooks (`webhooks.service.ts`, `webhook.processor.ts`) | `webhookEvent`, `emailEvent`, message status | receive, deduplicate, process | Resend, suppression, inbound queue |
| Inbound mail, inbox (`inbound-email.processor.ts`, `inbox.service.ts`) | conversations, inbound messages, lead stage | classify a reply, answer it | AI provider, `email-send` |
| CRM (`crm.service.ts`, `analytics.service.ts`) | stage, revenue columns, `revenueEntry` | stage change, booking, totals | - |
| CSV import (`imports.service.ts`, `csv-import.processor.ts`) | `importJob`, `importRow`, leads | create, cancel, read in chunks | queue, suppression |
| Sign-in, sender profiles (`auth.*`, `settings.service.ts`) | sessions in Redis, users, profiles | login, guard, logout, password, default profile | every request |
| Dashboard, health (`dashboard.service.ts`, `health.service.ts`, worker `main.ts`) | cached figures, heartbeat key | read, store, drop; send, set or refuse a heartbeat, check | Redis |
| AI provider (`groq-ai.provider.ts`) | attempts of a call | try, wait, fall back | Groq |

What is hard here: requests and jobs interleave statement by statement;
BullMQ ignores an `add` under an id it still has, failed jobs included; a job
whose worker died runs again from the start over the rows its first run wrote;
Resend delivers an event twice, also at the same time, and before the send
that caused it has recorded its id; sums and defaults are read, then written.

### Web console

| Component | State | Operations | Interacts with |
|---|---|---|---|
| Lists (all pages) | the cache of TanStack Query, the page mounted | visit, poll, fetch, every mutation and the lists it invalidates | API |
| Sign-in (`auth-context.tsx`, `login/page.tsx`, layout) | user, route, Turnstile token, failures, lockout | log in, log out, redirect | API, Turnstile |
| Inbox page | selection, threads, the reply being typed | select, reply, compose, delete | lists |
| Leads page | filter, cursor and its history, ticks, dialogs | page, tick, suppress, discover, create a campaign | lists, campaigns |

Answers cross each other and the operator: a list is fetched before an
operation and arrives after it, a thread is refetched while its reply is
typed, an answer clears a selection on which a dialog was opened.

## Modules

| Module | What it is |
|---|---|
| `Outreach` | Python: campaigns, approval queue, drafting, sending, suppression list, job queue, crashes and recovery as one state machine |
| `MailContract` | the abstract promise: each mail has an approval and a check; one check allows one mail |
| `OutreachClaims` | three statements of the repository that the Python code does not keep |
| `MCOutreach` | `Outreach` and its claims for TLC (symmetry sets) |
| `OutreachProofs` | TLAPS proofs about `Outreach` |
| `Dispatch` | TypeScript: campaigns, approval, drafting and sending jobs, suppression list, leads, crashes, one awaited call per action |
| `SendContract` | the abstract promise of `Dispatch`: each mail has a check of its own while its address was not listed, each check an approval not yet spent |
| `MCDispatch` | `Dispatch` for TLC (symmetry sets) |
| `Replies` | TypeScript: webhooks, inbound mail, inbox, and the commits of a send they race with |
| `Revenue` | TypeScript: stages, bookings, the two revenue totals |
| `Imports` | TypeScript: CSV imports, their cancellation and re-runs |
| `Accounts` | TypeScript: sessions, the guard, passwords, the default sender profile |
| `Monitoring` | TypeScript: dashboard cache |
| `Health` | TypeScript: the worker's heartbeat, health check |
| `Drafting` | TypeScript: retries and fallback of the AI provider |
| `MCServices` | the seven modules above side by side |
| `Screens` | console: every list, every operation on it, what its answer refreshes |
| `SignIn` | console: who is signed in, redirects, the login form and its lockout |
| `InboxPage` | console: the open conversation and the reply being written |
| `LeadsPage` | console: pages, ticks and the campaign made for ticked leads |
| `MCConsole` | the four console modules side by side |
| `OutcomeProofs` | TLAPS: `Outreach` implements `MailContract`, and what it records of a mail is true |
| `DispatchProofs` | TLAPS: the safety of `Dispatch`, and that it implements `SendContract` |
| `RepliesProofs` | TLAPS proofs about `Replies` |
| `ImportProofs` | TLAPS: the figures of `Imports` |
| `ServicesProofs` | TLAPS proofs about `Accounts`, `Imports` (cancels), `Monitoring`, `Health`, `Drafting` and `Revenue`, and about the sum `MCServices` |
| `ScreensProofs` | TLAPS proofs about `Screens` |
| `ConsoleProofs` | TLAPS proofs about `SignIn`, `InboxPage`, `LeadsPage` and the sum `MCConsole` |

`MCServices` and `MCConsole` are disjoint sums: a behaviour is one of a single
component, chosen at the start. Their components share no row that a property
relates, so nothing is lost by not interleaving them, and one run checks them
all. The interactions that do matter are inside modules: `Dispatch` holds
everything that competes for recipients, messages and leads; `Replies` holds
the part of a send that webhooks race with; `Screens` holds pages that show
the same list.

### Outreach

One action is one database transaction, one external call or one Redis call.
Everything a handler does up to an `await` that others can interleave with is
one action.

| Code | Actions | State between them |
|---|---|---|
| `trigger_ai_generation` | `TriggerGeneration`, `SelectPending` / `StaleTrigger`, `Enqueue` per job | `triggers`, `outbox` |
| `handle_action` APPROVE, `approve_all` | `LoadApproval` / `LoadApproveAll`, `CommitApproval` / `StaleApproval`, `Enqueue` | `approvals` (what was read), `outbox` |
| `generate_outreach` | `StartDrafting`, `CommitDraft` / `RecipientGone`, `CountPending`, `CommitReady` | `job[id].seen` (the status read) |
| `send_email` | `RefuseSuppressed` / `SendWithoutMessage` / `ClearForSending`, `ProviderAccepts` / `ProviderTimesOut` / `ProviderRefuses`, `CommitSent` / `CommitFailed` | `job[id].seen`, `seenCrm` |
| ARQ | `Enqueue`, `EnqueueFails`, `GiveUp`, `ExpireResult`, `WorkerCrash` | `job` |
| `_recover_stuck_campaigns` | `SelectStuckCampaigns`, `RecoverCampaign`, `StaleRecovery` | `booting`, `recovering` |

`Flush` is SQLAlchemy's rule that a column is written only when its new value
differs from the one loaded; `CanFlush` is its `StaleDataError` for a row that
was deleted. A lead stands for its unique `normalized_email`. A message stands
for its id: its text is not in the model. Four history variables record what
the properties speak of: `ticket` (which recipient and message each approval
named), `mails` (hand-offs to Resend per approval and message), `lost`
(approvals one of whose hand-offs has an outcome the worker never learnt) and
the two counters of the bounds.

Abstractions: the two SELECTs of an approval are one step; SKIP and
REGENERATE read and commit in one step; the two commits of `SelectPending`
(attaching leads, skipping stale recipients) are one; a job that starts and
stops before its suppression check uses up no try; two `generate_outreach`
calls with the same fixed id that wait to be enqueued at once are one; a
database that fails in the middle of a task, and deletion of leads (foreign keys keep every lead
that has a recipient or a message) are left out. All
campaigns are in AI mode, since only those can be generated. Each START, RESUME
and CANCEL request fails: the handler assigns `started_at` or `completed_at`,
which `models/campaign.py:75-81` declares without a setter, so these requests
change nothing and have no action. Mail sent by the autopilot and the inbox
uses the same task with a message id and no recipient; it is not modelled.

### MailContract

Five variables and four actions: people approve, the suppression list changes,
an approval is cleared when its address is not suppressed and nothing was
mailed for it (or the outcome of what was mailed is lost), and a cleared
approval mails its message once. `Outreach` implements it with `ticket` as
grants, the tickets of the jobs in state `cleared` as cleared approvals, and
`mails`, `lost` and `suppressed` under their own names (`MailsKeepContract`).

### Dispatch

| Code | Actions | State between them |
|---|---|---|
| `create` (campaigns) | `ResolveTargets`, `CreateCampaign`, `EnrolTargets` | `handler[h]` |
| `triggerAiGeneration` | `TriggerGeneration`, `SelectPending`, `EnqueueGeneration` per recipient | `handler[h].todo` |
| `handleStatusAction` | `HandleStatusAction` | - |
| `handleAction`, `bulkAction` | `Decide`, then `CheckBeforeApproval`, `MarkApproved`, `ApproveDraft`, `EnqueueSend` / `Regenerate`, `EnqueueRegeneration` / `Skip` / `SuppressRecipient`, `SuppressLeadOf`, `CloseRecipient` | `handler[h].of`, `.msg`, `.todo` |
| `editDraft` | `EditDraft` | - |
| suppression, leads | `AskSuppression`, `UpsertEntry`, `MarkLeadsSuppressed`, `RemoveSuppression`, `UpdateLeads`, `DeleteLeads` | `handler[h]` |
| `processAiGenerationJob` | `StartGeneration`, `WriteDraft` / `GenerationFails`, `MarkReady`, `CountPending`, `ReleaseCampaign` | `job[j].at` |
| `processEmailSendJob` | `StartSend`, `RefuseSend`, `SuppressTarget` / `HandOff` / `HandOffTimesOut` / `HandOffRefused`, `RecordSent`, `AttributeSent`, `MarkContacted` | `job[j].at`, `.msg` |
| BullMQ | `Added` (ignored under a live id), `Complete` (removes the job), `WorkerCrash` (stall: waiting again, or failed after `MaxStalled`) | `job[j].stalls` |
| API process | `ApiCrash` drops every request where it stands | - |

The twelve history variables record grants, hand-offs (by message and, as
`mailed`, by recipient), what a run never recorded, what was past its check when an address was listed, and who took a
campaign out of generation by hand; no guard reads them except to bound a run.
A send that was refused at its check ends at a step of its own (`refused`), so that
a crash before BullMQ learns of its end is not counted as a mail nobody recorded:
the model used not to tell the two apart, which made `MailsAreGranted` weaker than
it reads; the refinement below showed it.

### SendContract

Five variables and five actions: an approval takes effect, the list changes, a
recipient is cleared while its address is not listed and it has fewer mails than
approvals and mails of unknown outcome, a cleared recipient is mailed once, and
sends are cut, which may lose outcomes of mails but no more than were mailed.
`Dispatch` implements it (`SendsKeepContract`) with `granted`, `listed` and `mailed`
under their own names, `unlearnt` as `lost`, and as cleared the recipients whose
send job stands between its check and the hand-off (`Cleared`). Job ids, ignored
adds, stalls and the order of statements have disappeared from it.

### Replies, Revenue, Imports, Accounts, Monitoring, Health, Drafting

`Replies` merges steps no property of it tells apart (check and hand-off,
recipient and lead, status and suppression target, the processed mark and the
completion of the job, storing the inbound message and the stage): `Dispatch`
has every step of a send, `Replies` adds what the provider sends back.
`Revenue` splits a booking into its entry (`AddRevenue`), the sum
(`SumEntries`) and the write of the lead's column (`WriteConfirmed`).
`Imports` reads a file of rows in chunks, with what a run has seen, listed and
counted in its own record, and a cancel that writes the row and then removes
the job. `Accounts` has the guard's two awaits (`ReadSession`, `CheckUser`) and
the two statements that make a profile the default. `Monitoring` has a clock
against which the cache expires; a request for the figures reads, then stores, or
ends with an error. `Health` counts ticks of 15 seconds, the worker's interval.
The worker awaits its first heartbeat and stops when that is refused; the others
it sends without waiting for the one before, and it may skip intervals, as a busy
event loop does. Redis sets what was sent later and in any order, also when the
worker has been killed since, or refuses it, which the code swallows
(`main.ts:117-121`). The check reads the key; a read that is refused leaves
"none" (`health.service.ts:55-65`). The worker and the API are taken to read the
same clock, and a command Redis has answered is not sent again. `Drafting` has the
retry loop of a call, the error classes that lead to a wait or to the fallback model, and a
rate limit shared by calls.

### Screens, SignIn, InboxPage, LeadsPage

In `Screens` what a list holds is the number of operations that changed it, so
that "the list shows the operation" is a comparison of numbers; `query` is
TanStack Query's entry (data, invalidated, the fetch under way and whether it
restarts), each mutation is a record of the lists it changes and the lists its
`onSuccess` invalidates, with the condition under which its control is shown.
`astray` holds, until the list is fetched again, the lists for which the code
has no refresh (below) or whose answer was lost. `SignIn` has a clock of
seconds for the lockout timer. `InboxPage` follows the reply text through the
effect that fills it when the thread changes (`Populate`). `LeadsPage` follows
the ticked leads from the table through the dialog to the request.

## Properties

**Outreach**

- `TypeOK` - every variable has its type.
- `MailedOnlyAsApproved` - the provider is only handed the very message a person
  approved, and it belongs to the lead of the recipient that was approved,
  whatever drafts replaced it meanwhile.
- `OneMailPerApproval` - a second hand-off under one approval needs an earlier one
  whose outcome was lost.
- `CopiesBoundedByTries` - even then ARQ's `max_tries` bounds the copies.
- `OutcomesAreBacked` - SENT messages, SENT recipients and contacted leads rest on
  a mail of that message, for that recipient, to that lead.
- `MailIsRecorded` - a mail whose outcome was not lost has its lead marked as
  contacted, or a worker is about to mark it.
- `SuppressionClosesGate` - while an address stays suppressed no further send passes
  the check towards it.
- `MailsKeepContract` - refinement of `MailContract`.
- `SendIsDecided` - every queued send with a message ends SENT or FAILED, or its
  job has used up its tries.
- `MailInvariant` - the inductive invariant of the proofs (below).

**Dispatch**

- `TypeOK` - every variable has its type.
- `MailsAreGranted` - a recipient is mailed no more often than approvals queued a
  job for it, plus runs cut before they could record their mail.
- `LateMailsAreBounded` - after an address is listed only sends already past their
  check reach it, each once.
- `ApprovalIsNotDropped` - an approved recipient has a request about to queue its
  send, or a job, or a job that ended, unless the API died in the request.
- `LastDraftReleasesCampaign` - no campaign stays GENERATING with nothing left to
  do, however its jobs count the remaining recipients, unless people took the
  last recipient out by hand or its re-run failed.
- `OpenCampaignsTakeFreshLeads` - a campaign whose leads the service chose shares
  none with a campaign created before it was asked for.
- `OutcomesAreBacked` - what is recorded as sent was mailed.
- `GenerationEnds`, `SendIsSettled` - liveness: generation that nobody excused
  ends, and a queued send is settled.
- `SendsKeepContract` - refinement of `SendContract`.
- `MailedIsReviewed` - the claim of `SECURITY.md:34`, violated.

**Replies**: `EventsRecordedOnce` (an event is recorded once per run of its job,
however often it is delivered), `ProcessedIsHandled` (a processed event has had
its effect), `StoredEventsAreKept` (a stored event is handled, its job failed, or
the API died before queueing it), `ListedLeadIsBlocked` (the lead of a listed
address is not selectable), `OutcomeIsNotOverwritten` (a send does not write SENT
over what the provider reported of it), `ConversationsAreOfReplies` (a sender has no
more conversations than jobs that began on its replies, so a job that runs again
opens no other).
**Revenue**: `RevenueReportsAgree` (pipeline and analytics report the same
revenue once nothing is in flight, and a lead's column is the sum of its entries.
Overlapping payments of a lead may leave its column behind, never ahead; the next
payment made alone must repair it).
**Imports**: `ImportAccountsForRows` (the final figures count every row once,
also after a re-run), `CancelledStaysQuiet` (a cancel that succeeded ends the
import unless it overtook the request that queues it).
**Accounts**: `AdmittedWereLive` (whoever is admitted had an open session and an
active account when the request arrived), `OneDefaultProfile` (one profile at most
is the default; what overlapping requests left is cleared by the next one made
alone).
**Monitoring**: `DashboardIsRecent` (figures are no older than the cache keeps
them and the slowest request took; figures a request stores after the cache was
dropped are within that bound, not excluded).
**Health**: `HealthIsTrue` (a worker that is up reads "none" only when the read was
refused or it has gone too long without a heartbeat being set; one that is down is not
read as active once its heartbeats are out of date, however late Redis set them;
"stale" appears only when a heartbeat was set late).
**Drafting**: `GivesUpLast` (a call fails only after the fallback model).
**Console**: `OwnChangesAreShown` (at rest, every list on the screen shows the
operator's operations), `LockoutLimitsGuesses` (at most `MaxFailures` refusals,
and one more per lockout run out), `ReplyFitsItsThread` (a reply goes to the
conversation its text was loaded for), `TickedCampaignNamesLeads` (a campaign
made for ticked leads names some; without names it would enrol every lead not
yet contacted).
`ServicesTypeOK` and `ConsoleTypeOK` are the type invariants of the sums.

Where a property has an exception ("unless ..."), the exception is what the code
really does in that case; "What the models show of the code" lists them.

## Runs

| Run | Question | Result |
|---|---|---|
| `outreach_faults` | safety under worker and API crashes and Redis errors | holds, about 178,000 states |
| `outreach_requests` | the check and the refinement with four racing requests | holds, about 44,000 states |
| `outreach_leads` | attribution with two recipients in one campaign | holds, about 19,000 states |
| `outreach_live` | liveness of sends | holds, about 27,000 states |
| `outreach_duplicate` | is a message mailed at most once without crashes? | no: two overlapping `approve_all` |
| `outreach_no_draft` | is an approved recipient dispatched? | no: `approve_all` approves recipients without a draft |
| `outreach_stuck` | does recovery restart every GENERATING campaign? | no: one without PENDING recipients stays |
| `dispatch_sends` | safety of mails and approvals, and the refinement, with racing decisions and a crash | holds, about 1,040,000 states |
| `dispatch_campaigns` | enrolment and liveness with two campaigns over two leads | holds, about 98,600 states |
| `dispatch_reviewed` | is only mailed what was shown for review? | no: approval takes any message of the recipient, the page shows the newest |
| `services` | the seven components beside the campaigns | holds, about 1,200,000 states |
| `console` | the four console modules | holds, about 748,000 states |

The four violated claims are quoted in `OutreachClaims` and `Dispatch` and listed
as findings in `PROJECT.json`.

**Bounds of the Outreach runs.** `MaxRequests` bounds what people ask, `MaxFaults` what breaks; what
follows from a request or a fault is unbounded. Three requests are enough for
create - edit or trigger - approve with a crash at any later step, and with
two faults a job is interrupted twice, which is where `MaxTries = 2` ends it.
Four requests add the racing one: a second approval, a regeneration, a
suppression or its removal, a deletion. Two messages let a draft be replaced,
two tokens let two approvals or two jobs coexist; with two leads one
`approve_all` makes two jobs. ARQ's real `max_tries` is 5; the bound only cuts
the number of equal retries, and the proofs hold for every value. Tokens,
messages and leads are interchangeable, so the safety runs use symmetry; the
liveness run does not.

**Bounds of the Dispatch runs.** `dispatch_sends` has one campaign with one lead,
two messages, two handlers, three requests and one crash: two decisions of one
recipient (single or bulk) overlap a third operation, a regeneration replaces a
draft whose send is queued, and the worker dies at any statement and runs the job
again (`MaxStalled` is BullMQ's default 1). Its initial campaign exists with a
PENDING recipient, which creation produces in three steps the other run has.
`dispatch_campaigns` has two campaigns and two leads, so that jobs of one
campaign count its recipients concurrently and two creations overlap; it has no
crash, since fairness excuses none.

**Bounds of the services run.** Two deliveries or crashes let an event be
delivered twice at once, or once more after a crash; with the reply mail and the
campaign mail an event can arrive before its send has recorded the id. Replies
are classified UNSUBSCRIBE only: that class is the one whose job lists the
sender before it writes the stage, and a model that fails stands for a reply
that lists nobody. Three
bookings by two requests of two leads; amounts 1 and 3 make sums distinct. Files
of one, three and four rows with `ChunkSize` 2 repeat an address within a chunk
and across chunks, with an address that does not parse; two faults interrupt a
run and its re-run. Two sessions, two concurrent calls and four calls in all
cross login, logout, expiry, deactivation and a password change, or two
requests that make a profile the default. The six ticks of `Monitoring` outlive
the cache (4). In `Health` six ticks, two heartbeats under way, a key kept for 2 and
an age of 4 let a heartbeat be set three ticks late and read stale, two
intervals in a row bring none, and a worker stop, start again and be told apart from
what the former one sent. Two calls with three attempts each meet a limit
of two requests per window.

**Bounds of the console run.** Two operations and one failure: the second
operation is what crosses the first one's refresh. The tours pair only pages
that share a list; the layout's branding is on each. The lockout is 3 seconds
after 2 refusals within 10 seconds, enough for two lockouts and the refusal
between them; the proof covers 30 seconds after 5. Two conversations with one
change and two requests let the selection move under a reply. Three leads on
pages of one row, turned twice, give a non-empty `cursorHistory`; two posts let
the create dialog be sent again while the first answer is under way.

Deadlock checking is off in all runs because the system may stop: people need
not ask for anything and all jobs may have ended.

**Fairness.** `Outreach!FairSpec` assumes weak fairness of `SendStep(id)` for each
job: ARQ polls its queue for ever, the call to Resend ends within 30 s and a job
within `job_timeout`. The fairness is taken over the variables without the
counters of the bounds. Nothing is assumed of people, of faults or of the
enqueueing of a committed approval, so `SendIsDecided` starts from a queued job.
`Dispatch!FairSpec` assumes weak fairness of the steps of requests taken together
and of the steps of jobs taken together: Node's event loop and BullMQ's worker
go on while there is something to go on with. No request has to come and no call
has to succeed. The other runs check safety only.

## What the models show of the code

Besides the four findings, the properties hold only with exceptions that name
what the code does:

- `Outreach`: a hand-off whose outcome is lost, the time-out of the call to Resend
  included, is mailed again (no idempotency key). No property forbids it, since
  nothing in the code prevents it: what is shown is that each further mail has a lost
  outcome of its own, and that there are `max_tries` of them at most.
- `Dispatch`: an API that dies between the status write and `queue.add` leaves a
  recipient APPROVED without a job; a campaign whose last PENDING recipient is
  skipped or suppressed by hand stays GENERATING.
- `Replies`: an event stored by a request that dies before it queues it is lost:
  each later delivery is taken for a duplicate. A lead created by a reply after
  its address was listed is selectable.
- `Revenue`: overlapping bookings of one lead leave its column behind its entries,
  until the next payment of it that is made alone.
- `Accounts`: two overlapping requests can make two default profiles, until the
  next such request that is made alone.
- `Monitoring`: a request that read the figures before the analytics job dropped
  the cache stores them after it, for another minute (`dashboard.service.ts:99`).
- `Health`: a worker that is up reads "none" after one heartbeat that Redis refused,
  set late or never got: the key is kept for two intervals, so it runs out at the
  moment the heartbeat after the missing one is due. It reads "none" too when the API
  cannot read the key.
- `Imports`: a cancel that overtakes the request that queues the import does not
  stop it.
- `Screens`: after a payment the lead stays in its former column until the next
  fetch (`crm/page.tsx:114`); a campaign made from the leads page does not refresh
  the campaigns list (`leads/page.tsx:125`). `OwnChangesAreShown` holds for the lists
  that an operation does refresh; these two it leaves out (`GapOf`).
- `InboxPage`: when a thread does not load, the composer keeps the text of the
  conversation before (`inbox/page.tsx:148`).
- `SignIn`: the lockout starts anew when the page is loaded again.

## Proofs

`OutreachProofs` proves, for all sets of leads, campaigns, messages and tokens
and all bounds,

- `TypeCorrect`: `Spec => []TypeOK`,
- `Invariance`: `Spec => [](TypeOK /\ MailInvariant)`,
- `OnlyApprovedIsMailed`, `ApprovalMailsOnce`, `CopiesAreBounded`: the invariants
  `MailedOnlyAsApproved`, `OneMailPerApproval` and `CopiesBoundedByTries`,
- `GateStaysClosed`: `Spec => SuppressionClosesGate`.

Assumptions, all declared in `Outreach` and evaluated by TLC in each run:
`NoneIsNoValue` and `NoneIsNoGrant` (NULL is no identifier), `InputsAreValues`,
`TriesArePositive`, `BoundsAreNumbers`.

The three mail properties are not inductive. What they rest on is that an
approval's ticket travels from the commit through the queue to the task without
ever being shared: `SendsAreGranted` (each send carries the ticket of its own
approval), `TicketsAreUsedOnce` (no two waiting or running sends share one),
`MailsAreGranted` (mails and losses belong to approvals; a send still to be
enqueued has had none), `MailsFitTheJob` (how many mails the ticket of a live
job can have had, given its state and tries) and `MessagesAreAddressed` (whoever
refers to a message refers to one of its own lead). The proof that steps
preserve them sorts the steps into those that touch neither sends, tickets nor
mails (lemma `QuietMail` does them at once) and the five that do: the commit of
an approval, the enqueue, the hand-off, its answer and the worker's crash.

`OutcomeProofs` rests on `Invariance` and proves, from the same assumptions,

- `OutreachKeepsContract`: `Spec => MailsKeepContract`, the refinement of
  `MailContract`. Its mapping takes grants, mails and the list as they are, and as
  checks in force the tickets of the tasks that are between their check and the
  provider (`ClearedTickets`); at the start there are none. A step moves one
  job at most and leaves the list alone, unless the worker stops
  (`SendStepMovesOne`); so a step of `Outreach` is a check, a hand-off, a
  grant, a change of the list or a stutter of the contract, and the proof has one
  lemma for each of these;
- `RecordsAreBacked` and `MailsAreRecorded`: `[]OutcomesAreBacked` and
  `[]MailIsRecorded`. The one fact `Invariance` does not have is
  `AcceptedIsMailed`: a job that holds the provider's answer has had its mail. The
  commit of the answer is then the only step that records one, and nothing takes a
  record back.

`DispatchProofs` proves, for all sets of campaigns, leads, messages and handlers
and any number of requests, stalls and crashes,

- `DispatchIsTyped`: `Spec => []TypeOK`,
- `ListedAreMailedNoMore`: `Spec => []LateMailsAreBounded`,
- `ApprovalsAreNotDropped`: `Spec => []ApprovalIsNotDropped`,
- `ChosenLeadsAreFresh`: `Spec => []OpenCampaignsTakeFreshLeads`,
- `RecordsAreBacked`: `Spec => []OutcomesAreBacked`,
- `LastDraftsRelease`: `Spec => []LastDraftReleasesCampaign`,
- `MailsNeedGrants`: `Spec => []MailsAreGranted`,
- `DispatchKeepsContract`: `Spec => SendsKeepContract`, the refinement of
  `SendContract`.

Of the assumptions it uses `NoneIsNoValue` and, for the stalls, `BoundsAreNumbers`.
Each theorem has an inductive invariant of its own, over the shape of the rows it
reads:

- `TypedInvariant`: the type invariant of the runs, and that a job which runs has
  stalled no more often than `MaxStalled` and that what a request has still to do
  names recipients and leads;
- `LateInvariant`: the late mails of a listed address and the sends to it that
  are past their check are together no more than what was past its check when
  the address was listed. A hand-off moves one from the second to the first; a
  re-run leaves the second and has to pass the check again. The counts are
  cardinalities of sets of jobs, from the theorems on finite sets;
- `ApprovalInvariant`: the property itself, once it is known that one id names the
  job of a recipient (`SendIdIsOne`): a job leaves the queue only by `Complete`,
  which answers for its recipient, and an `add` that is ignored finds a job;
- `FreshInvariant`: the campaigns before an open one have ended their creation and
  gain no recipient any more (`BeforeIsClosed`), and what it has still to enrol is
  in none of them (`TargetsAreFresh`); what requests and jobs have in hand are
  campaigns and recipients that exist (`AllFit`);
- `OutcomeInvariant`: the message an approval or a send has in hand is one of its
  recipient's drafts (`HandlerNames`, `SendNames`), and one at its records was
  handed over. It rests on `AllFit`;
- `ReleaseIsDue`: each GENERATING campaign is excused or has somebody who will
  see to its release: a request that is choosing its recipients, a PENDING
  recipient, or a job of it that has still to count. A job that counts none
  leaves the campaign to the release that follows; one that counts some
  leaves it to the PENDING recipient it counted;
- `GrantsCover`: mails of a recipient and the one its job may still make are
  covered by its grants and the runs that were cut. A crash before the record
  moves one mail to `unlearnt` and gives the job another hand-off.

The last and the refinement rest on `SendSteps`: whatever happens, all sends rest,
one of them is granted, checked, mailed or moves on (`SendMoves`), or all are cut by
a crash. For each of these `ContractStep` names the action of the contract or the
stutter. That a check is allowed (an approval is unspent) is `GrantsCover`; that a
crash loses no more than was mailed is `LossesAreMails`, the one new invariant: the
hand-offs nobody learnt of, with the one still to be recorded, were made.

`MailsAreGranted` compares counters of one recipient. Summing `handed` over its
messages would say the same but needs an induction over the set of messages, out
of the prover's reach; the history variable `mailed` is that sum, kept as the
hand-offs happen.

`RepliesProofs` proves, from `RepliesBounds` (bounds are numbers, and `NoAddress` is no
address),

- `EventsAreRecordedOnce`, `ProcessedAreHandled` and `StoredAreKept`:
  `RepliesSpec => []EventsRecordedOnce`, `[]ProcessedIsHandled`,
  `[]StoredEventsAreKept`;
- `ListedLeadsAreBlocked`: `RepliesSpec => []ListedLeadIsBlocked`;
- `OutcomesAreNotOverwritten`: `RepliesSpec => OutcomeIsNotOverwritten`, an action
  property;
- `ConversationsComeFromReplies`: `RepliesSpec => []ConversationsAreOfReplies`;
- `RepliesAreTyped`: `RepliesSpec => []RepliesTypeOK`.

A webhook job follows a plan that is a sequence put together from its event
(`HookPlan`). The lemmas `PlanGoesOn` and `AdvanceMoves` say where each place of
each plan leads, so that the rest reasons about places. `RepliesShape` keeps
the rows in shape and the jobs on their plans. `HooksInvariant` has two ideas:
`QueuedOnce`, an event is queued by the one request that stored it, before which
nothing happened to it; and `RunFits`, its rows and its inbound jobs are at
most one more than the runs of its job that died, and one fewer before the place
where a run writes them. `ListedLeadIsBlocked` is inductive over the shape:
whatever a step writes over a stage leaves the column that excludes the lead.
`OutcomeInvariant` says that only a mail whose id is recorded has an outcome,
and such a mail is past its hand-off or its worker died. For the conversations
`TalksInvariant` counts: those of an address are numbered from 1, and together with
the jobs about to make one (`Making`) they are no more than the jobs from it that
began (`RunsOf`). It speaks of cardinalities, since that jobs are finitely many is
itself part of what is shown. For the types `StallsInvariant` adds that a job which
still runs has stalled no more often than `MaxStalls`.

`ImportProofs` proves, from `ImportsBounds`, for any files, chunk size, stalls
and crashes,

- `ImportsAccountForRows`: `ImportsSpec => []ImportAccountsForRows`,
- `ImportsAreTyped`: `ImportsSpec => []ImportsTypeOK`.

`RowsInvariant` follows a run: its tally adds up to the rows read and the
addresses it has seen are those of that part of the file that were not listed
before (`RowsCounted`); rows already passed were written once by this run and
at most once by each that died (`RunFits`); an import has figures only when a
run has ended (`FiguresFit`). That a chunk ends is the least-number principle
(`LeastNumber`, from the theorem on well-founded minima).

`ServicesProofs` proves, for all values of the constants, from `NobodyIsNoOne`,
`MonitoringBounds`, `HealthBounds`, `DraftingBounds` and `RevenueBounds` (the theorem about the sum
also from `RepliesBounds` and `ImportsBounds`),

- `AdmissionsAreLive` and `DefaultsAreUnique`: `AccountsSpec => []AdmittedWereLive`
  and `[]OneDefaultProfile`. For the guard, a call whose session or account had
  ended when it came stays one that reads nothing or is turned away
  (`DeadAreTurnedAway`), since no session is opened under an old token and no
  account is activated again; for the profiles, since a request began alone
  one at most is between its two statements (`OnlyOneIsMaking`) and
  what it cleared is still clear (`OthersAreCleared`);
- `CancelsHold`: `ImportsSpec => []CancelledStaysQuiet`. No request that could
  queue an import is under way once its cancel has succeeded, unless the cancel
  overtook it (`NoneWillQueue`);
- `DashboardsAreRecent`: `MonitoringSpec => []DashboardIsRecent`.
  `DashboardInvariant` bounds the age of what is cached by the slowest request;
- `HealthTellsTheTruth`: `HealthSpec => []HealthIsTrue`. `DatesFit` says that nothing
  is dated after the present, and what a worker that is down has sent not after it
  stopped; `KeyFits` that Redis keeps the key `BeatTtl` ticks from when it was set,
  which was `latest` ticks after its date at most, and that each tick an up worker
  ends without a heartbeat takes one from what is left. Of the constants it needs
  that they are numbers: how long a key is kept and from when it reads stale may
  be in any order;
- `FallbackGivesUpLast`: `DraftingSpec => []GivesUpLast`. `CallFits` says, for each
  place a call can be at, how often each model has been asked;
- `ReportsAgree`: `RevenueSpec => []RevenueReportsAgree`. A sum read is never more
  than the entries are when it is written (`SumsAreBooked`); a lead whose bookings
  do not overlap, or no longer do, has one in flight at most, whose sum is that of all entries, and
  with none its column is that sum (`UnclashedAgree`). The two totals then add up
  equal functions over equal sets, so nothing needs to be known of the fold;
- `AccountsAreTyped`, `MonitoringIsTyped`, `HealthIsTyped`, `DraftingIsTyped` and `RevenueIsTyped`:
  the components' type invariants. The one for the figures needs that an amount has
  a greatest value (in `RevenueBounds`, as the column's precision has), since it
  bounds a lead's sum by that amount times the number of requests;
- `ServicesAreTheirParts`: a behaviour of the sum is, on each component's
  variables, one of that component. The theorems about the components therefore
  hold in the run `services`, and `ServicesAreTyped`: `ServicesSpec =>
  []ServicesTypeOK`, follows from their type theorems.

`ScreensProofs` proves, for any tours, columns and number of operations, from
`ScreensBounds` and `ToursArePages` (a tour is a set of the console's pages),

- `ScreensAreTyped`: `ScreensSpec => []ScreensTypeOK`,
- `ListsShowOwnChanges`: `ScreensSpec => []OwnChangesAreShown`.

`OpsFit` goes through the operations of every page once: what one changes it
refreshes, or the list is among those `GapOf` names. `ListsAreShownOrDue` is
the inductive invariant: a list that is not astray holds what the API has, or
somebody is due to correct it (an answer under way that will invalidate it, a
fetch that will be restarted), or nobody is looking and the next visit fetches it.
An answer read before an operation and arriving after it is the case in which
the fetch restarts.

`ConsoleProofs` proves, for all values of the constants,

- `RepliesFitTheirThreads`: `InboxPageSpec => []ReplyFitsItsThread`,
- `TickedCampaignsNameLeads`: `LeadsPageSpec => []TickedCampaignNamesLeads`,
- `LockoutHolds`: `SignInSpec => []LockoutLimitsGuesses`,
- `ConsoleIsTyped`: `ConsoleSpec => []ConsoleTypeOK`,

from `InboxPageBounds` (bounds are numbers, `NoTalk` is no conversation),
`LeadsPageBounds` (leads are positive numbers), `SignInBounds` (threshold, lockout
length and horizon are positive) and those of `Screens`. The inductive invariants
are

- for the reply, `TextIsOfThread`: while a thread that has loaded is shown, the
  text below it is of that thread. It survives a change of the selection or of
  the thread because the effect runs with it (`Populate`);
- for the ticks, `TickedStay`: a dialog opened for ticked leads stays open only
  while there are ticks; whatever clears the selection has closed it;
- for the lockout, `RefusalsCounted` (the API's refusals are the failures the
  form counts) and `LockoutsServed` (the seconds gone by pay for each failure
  beyond the threshold). The step from seconds to whole lockouts is the lemma
  `DivisionBound` about integer division;
- for the types, `ConsoleInvariant`, the conjunction of the parts' own. A step of
  the sum is a step or a stutter of each part (`ConsoleParts`).

Every safety invariant, action property and refinement the passing runs check is
stated by a theorem. Only model-checked:

- the liveness properties `SendIsDecided`, `GenerationEnds` and `SendIsSettled`
  (liveness under fairness is out of the prover's reach);
- the four claims that are violated.

## Plan

1. Deeper properties for the hazards without one: an answer to `refreshUser` that
   overtakes a login, the cursor history of a changed filter.
2. Python services beside the outreach: webhooks and inbound mail, CSV import,
   sessions; they differ from `Replies`, `Imports` and `Accounts` in that a
   handler commits once.
3. The autopilot and social drips: selection by cron and by command, daily
   limit, pause keys, follow-ups.

## Not modelled

- Infrastructure, scripts, schema creation and seeding; the scraping of external
  sites; dashboards, analytics pages and exports (read-only); the audit log
  (append-only, never throws, read by no other code).
- Python webhooks, inbox, imports, sessions and drips (plan, 2 and 3).
- TypeScript: campaigns with a manual template, edits of campaign texts and
  limits, the stored upload, server-side pagination, branding and logo (one row
  overwritten), the unsubscribe link (no endpoint serves it). The models use the
  tables, relations and status members the services name; where the Prisma schema
  or the shared enums name them differently, the services' names are taken, and
  a lead that a recipient refers to cannot be deleted.
- Console: what fields and dialogs hold where no property is about it, pages that
  only show a query, the forgotten-password dialog (it sends nothing), what
  another page shows within 30 s of an operation (TanStack Query's `staleTime`).
