# OrOn-CRM: TLA+ models, checks and proofs

OrOn-CRM is a multi-tenant CRM with a WhatsApp channel, AI agents and a
telephony runtime, all of whose durable state is in PostgreSQL. What makes it
hard is not any single handler but what happens between them: workers that
lease rows and lose the lease, HTTP calls to providers that run outside every
transaction, answers that come late or never, receipts that come in any order,
processes that die half way. This directory models that part of the system.

Paths below are relative to the repository; `DB` stands for
`services/ts/messaging-worker/src/database.ts`, `V/` for `db/alembic/versions/`.

## 1. Inventory

For each component: the state it keeps, its operations, whom it interacts with,
what is hard about it, and what makes it correct.

**Durable job queue** (`V/cebe5f87cf18`, `V/b672f9a6c310`, `V/f5fd1748ca3f`,
`DB:6566-6647`). State: rows of `ops.jobs` (status, attempts, max_attempts,
claim_token, locked_by, lease_expires_at, available_at) and, in each worker
process, the calls of `processJob` in flight with their `claimLost` flag.
Operations: insert; `claim_jobs_all_tenants` (sweep of exhausted rows, then
lease one); `renew_messaging_job_claim` every 15 s; `withOwnedJobTransaction`
(check ownership, body, check the captured deadline, commit);
`fail_messaging_job_claim`; completion, cancellation, polling and rescheduling
updates inside a body. Hard: one worker runs several calls under one
`locked_by`; a lease can run out at any line; a commit can succeed without an
answer. Correct when: only the current claim writes anything; a settled row is
final; a waiting row has an attempt left; every job settles.

**WhatsApp outbound delivery** (`packages/ts/crm/src/whatsapp-outbound.ts`,
`DB:6902-7260`, `services/ts/messaging-worker/src/providers.ts:690-811`,
`packages/ts/crm/src/messaging.ts:1133-1186`). State: the request, message and
job rows of one message, delivery events, the call's local progress, and
Meta's side of it. Operations: admission, load (marks the request `sending`),
revalidation before each POST, POST with the retry loop for 429, completion,
the error handler, receipt ingestion. Hard: the provider does not deduplicate,
so a retry of a POST whose outcome is unknown is a second message to a
customer; consent may be revoked at any moment. Correct when: at most one
message per request; the rows never claim that something was not sent when it
was; statuses of job, request and message agree; receipts do not regress them.

**Inbound provider events** (`V/9e43a5b02d81`, `V/2b2b64433c98`,
`V/d1e7a304269b`, `DB:366-642`). State: `ops.inbound_events` with attempts and
a 60 s lease, the messages and conversations ingested. Operations: accept,
claim (one at a time), ingest, complete, fail, surface the exhausted. Hard:
completion is fenced by worker id and not by token; a crash during the last
attempt leaves a row that nobody claims and no alert mentions; retries change
the order of a conversation. Correct when: each message is ingested once, an
exhausted event is reported, nothing waits on an event that nobody will take.

**AI reply turns and conversation ownership** (`DB:3700-6565`,
`inbound-debounce.ts`, `handoff-resume.ts`). State: ownership and its epoch,
the trigger of a pending reply job, turn results. Operations: debounce, turn
start, checks of trigger and ownership before every effect, finalisation,
takeover and resume by a human. Hard: a newer message supersedes a turn at any
point; the reply job of the older one dies on purpose. Correct when: every
inbound message is answered or handed to a human; never two answers to one
trigger; no AI message after a takeover.

**Fair AI admission, memory summaries, poll loop and shutdown**
(`V/e3f9c526481d`, `V/f5fd1748ca3f:202`, `DB:7326-7546`, `worker.ts`). State:
admission cursor per tenant, live claims, the in-process maps `activeReplies`
and `activeSummaries`. Operations: claim under caps of 4 in all, 2 per tenant
and 1 per conversation, in turn over tenants; drain at shutdown. Hard: the caps
count leases and not calls; the maps are keyed by job and not by claim. Correct
when: caps hold, no tenant starves, the drain waits for every call.

**Audio transcription work** (`audio-transcription-work.ts`, `V/b9c581d2047e`). State:
a versioned record of provider phases beside its job. Operations: upload, submit,
poll, reschedule, publish, give up. Hard: a crash between a persisted in-flight
phase and the answer; answers that are lost. Correct when: no paid submission is
repeated, and the customer hears the transcript's answer or the fallback.

**Opening menu, model accounting spool, tenant and conversation deletion, flow
runtime, voice simulation jobs** interact with the queue: the menu gates which
jobs of a conversation may run, the spool replays usage records after a crash,
deletion (`V/eb2660eb37ec`) cancels waiting jobs and refuses while something is
being sent, the flow runtime is polled by its job, voice simulations claim,
work and settle in one transaction.

**Voice dispatcher** (`packages/py/oron-dispatcher/.../dispatcher.py`). State:
per process, `_pending`, `_active`, `_unfinalized`, `_busy_rooms`,
`_busy_completed`, `_draining`; durable, the session rows. Operations: join,
outbound and browser start, agent completion, room_finished, hangup, drain;
each is a coroutine that awaits persistence or LiveKit between its steps. Hard:
every await is a place where another event of the same room runs. Correct when:
capacity holds, no bot or leg outlives its room unseen, every started session
gets a final status or is owed one.

**LiveKit webhook pump and ledger** (`webhook_pump.py`, `webhook_ledger.py`,
`V/e93f1b8c0e73`): leases with tokens as in the job queue, handlers cancelled on
lease loss, settlement as processed, failed or quarantined.

**Campaign dialer** (`packages/py/oron-sessions/.../runner.py`, `crud.py`,
`sweeper.py`). State: `campaign_contacts`, campaigns, sessions. Operations:
claim under the tenant's advisory lock and the campaign's row lock, dial outside
the transaction, record the session, reconcile, redial, sweep. Hard: the dial's
outcome is unknown after a timeout or a crash. Correct when: the concurrency
ceilings hold for calls and not only for rows, nobody is dialled twice at once,
a campaign ends when its list is done.

**Billing, authentication, CRM records, web application, voice agent runtime,
Hebrew normalisation**: single-transaction record keeping, user interface, media
pipelines and text functions. The reasons why each is left out are in
`PROJECT.json`.

## 2. Modules

| module | models | instances |
|---|---|---|
| `FencedWork` | what the queue promises: grants in sequence, writes under the current grant only | refined by `JobQueue` |
| `JobQueue` | the job queue | `MCJobQueue` |
| `JobQueueProofs` | theorems about `JobQueue` | |
| `MessagePromise` | what the sending promises: what the inbox shows of a message against what the customer was given | refined by `OutboundDelivery` |
| `OutboundDelivery` | WhatsApp delivery on top of `JobQueue` | `MCOutboundDelivery` |
| `OutboundDeliveryProofs` | theorems about `OutboundDelivery` | |
| `InboundEvents` | the provider's events: reception, claims, ingestion, alerts | `MCInboundEvents` |
| `InboundEventsProofs` | theorems about `InboundEvents` | |
| `ConversationTurns` | the AI's turns in one conversation, on top of `InboundEvents` | `MCConversationTurns` |
| `ConversationTurnsProofs` | theorems about `ConversationTurns` | |
| `Dispatcher` | the voice dispatcher, with the session rows it writes | `MCDispatcher` |
| `DispatcherProofs` | theorems about `Dispatcher` | |
| `FairAdmission` | the AI's replies admitted in turn, and the shutdown that waits for them | `MCFairAdmission` |
| `FairAdmissionProofs` | theorems about `FairAdmission` | |
| `CampaignDialer` | the campaign dialer of one tenant | `MCCampaignDialer` |
| `CampaignDialerProofs` | theorems about `CampaignDialer` | |
| `NotePromise` | what the work on a voice note promises: what is bought, what the customer is told | refined by `AudioWork` |
| `AudioWork` | the transcription of one voice note: its record, its job, the provider | `MCAudioWork` |
| `AudioWorkProofs` | theorems about `AudioWork` | |

### JobQueue

One function over `Jobs` per column of `ops.jobs`, one function over
`Executors` per field of a call. An *executor* is one `processJob` call together
with its renewal loop; `WorkerOf` gives the process it runs in, so two executors
of one worker share `locked_by`, as a foreground job and an AI reply do.

| action | code |
|---|---|
| `Enqueue` | an INSERT, due now or after a debounce |
| `ClaimJob`, `SweepExhausted` | one call of `claim_jobs_all_tenants`, which always sweeps first |
| `Renew`, `RenewalFails` | the loop of `withRenewedJobLease`, and its `catch` |
| `BeginTx` | `FOR UPDATE` and `requireOwnedJob`; from here to the commit the row is `Locked` |
| `Validate`, `Reject` | the end of the body with its verdict, and the second check of the deadline |
| `Commit` | COMMIT with everything the verdict writes; acknowledged, or not acknowledged and thrown in the call |
| `Err` | any other error; the first one enters the `catch` block, one in there ends the call |
| `Leave`, `Crash` | a call that returns without settling its row; a process that dies |
| `Tick` | time |

The body of a transaction is abstracted to what it decides about the job: `keep`
(an intermediate commit), `succeed`, `cancel`, `fail`, `quarantine` (no further
attempt: `max_attempts = attempts`), `poll` (attempt given back), `defer` (queued
again, attempt kept). Time is relative: `lease[j]` and `due[j]` count down, and a
lease is owned while positive and reclaimable while negative, which is how the
two strict comparisons with `clock_timestamp()` leave an instant that is neither.
A claim token is the number of the claim, since `gen_random_uuid()` never repeats;
`stamp` is a history variable, the claim under which a row was last written.
Renewals wait for a locked row in the code; in the model they are disabled
meanwhile, and `RenewalFails` covers the time-out of that wait. Claims of several
rows (`p_limit`) are left out: the worker always asks for one.

### OutboundDelivery

EXTENDS `JobQueue` with the rows of the request and its message, what the world
does (eligibility, POSTs on the wire, POSTs accepted) and where a call of
`processWhatsAppOutbound` stands (`pc`). Every action conjoins a queue action
with what happens to the rows, so that the protocol is the queue's own and not a
second version of it: load is a transaction with verdict `keep`, completion one
with verdict `succeed`, the error handler one with `fail` or `quarantine`. The
POST and its answer are actions of their own outside any transaction. An answer
may be lost (`GiveUp`), and the POST may be acted on afterwards (`Unheard`).
Three transactions precede each POST (two revalidations and the credential
projection); they check the same conditions one after the other, and the model
has the last of them.

`MessagePromise` is the same seen from outside: of a request, `shown` is the status of
the message in the inbox (`msg`), `given` the number of POSTs the provider accepted and
`reason` the kind of the failure. Nothing of jobs, claims, calls or retries is left in it.
It says which steps there are: given once, never after a certain refusal, shown as
`sent` only when given, and from there moved by receipts. `Receive` is
`ingestWhatsAppStatus` with any receipt in any order. `Onward` is the order in which the
documents say receipts are applied, and the promise is in two parts: `Spec` has it for
receipts of progress (a late one of lower rank takes nothing back), `Monotonic` for all of
them, reported failures included. `ImplementsMessagePromise` is the first under the mapping,
and holds; `StatusIsMonotonic` is the second, and does not (finding 3).

### InboundEvents

One function over `Events` per column of `ops.inbound_events`, one over `Workers`
for the call of `processInbound` a worker has. A webhook is two steps, because
`received_at` is the start of its transaction and `receipt_sequence` is drawn by
the insert; a repeated delivery finds the row and changes nothing. `Claim` is
`claim_inbound_events` with a limit of one, in its order. `Ingest` is the
transaction that ingests and completes, and it commits its effects whether or not
`complete_inbound_event` still finds the row its own; `IngestThrows`, `Fail` and
`Surface` are its catch block. A status report throws until the message it refers
to is known (`RecordWamid`). Time is left out: leases and backoffs may end at any
moment. `grant` is a history variable, the attempt a call was given, to say whose
claim settles a row that knows only the worker's name. `SurfaceInTurn` is the other
place that alerts spent events, `requireNoNewerPendingInbound`, which a turn calls.

### ConversationTurns

EXTENDS `InboundEvents`: its events are the messages of one customer, and every
action conjoins an action of the inbox or leaves the inbox alone (`ImplementsInbound`).

| action | code |
|---|---|
| `IngestTurn` | the ingestion with the assignment of the default agent and the queueing of a reply job, debounced or not |
| `TakeOver`, `Resume` | `setConversationOwnership`, and the takeover by an answer from the phone |
| `Admit`, `Lapse`, `SweepReply` | the job's claim, the loss of it, the sweep |
| `Load` | `loadAiWork`: ownership, trigger and epoch, before the model is asked |
| `Answer`, `HandOver` | the final transaction: checks again, handoff if any, outbound request, job done |
| `Overtaken`, `Errs` | the catch block: a `TypeError` is permanent, anything else is retried |
| `ClearAnswer`, `RefuseAnswer`, `Deliver` | the send's revalidation, its refusal, its end |

What the model and the tools decide is a choice between an answer with and
without a handoff; a callback that keeps the AI's ownership and the fallback after
a failed model are answers too. Real WhatsApp sending is assumed enabled. Of a
call that lost its claim nothing is kept: that it writes nothing is what
`JobQueue` shows. `Fair` chooses between the two claim functions; the runs use the
ordinary claim, which allows more. The queue's delays are left out: a job may be
admitted at once.

### FairAdmission

`Admit` is `claim_fair_ai_reply` under its advisory lock with the launch of the call
it gave (or no call, if the answer to the claim is lost); `locked` are the rows that
SKIP LOCKED passes over. `held` is `activeReplies`: the end of a call deletes its job's
entry, whichever call that is of. A call goes on when its lease lapses. `Stop` is
`close()`, which takes the promises that are in the map then; `Drained` closes the
pool, after which calls write nothing. `clock` orders admissions, `ahead` and
`doubled` are history variables: who passed over a tenant, and which jobs had two
calls at once in a process. What a call writes is in `JobQueue`, whose fence is
repeated here as one condition of `End`.

### Dispatcher

One asyncio loop: an action is what a task does between two awaits. `slot` is
`_pending` and `_active`, `owed` is `_unfinalized`; `start`, `bot` and `closing` are
the program counters of the room's starting task, of its agent and of the task
that took it out of `_active`. Every write may fail, or land and lose its answer.
`leg` is LiveKit's side: `adrift` is a leg a refused teardown or a dead process left,
which only LiveKit's own timeouts end. `abandoned` is a history variable for the
three ways the code gives a status up to the sweeper: an evicted record, a
`begin()` that raised after writing, a process that died. A room is never reused,
as its name holds a random part or an idempotency key. `drain()` may be called at
any moment. The rooms refused for capacity and the announcements are left out.

### CampaignDialer

One tenant. A runner is a replica's loop; `pc` tells the transaction it is in or
about to enter. `Reconcile` reads and decides, `Write` commits the decision on rows
that were never locked; `EnterGate` takes the tenant's advisory lock and the
campaign's row and counts, `Claim` or `Finish` commits; `Dial` is outside any
transaction and may be carried out with its answer lost; `Record` and `GiveUp` follow.
`Abort` is any other error, or the death of the replica, at every step. `lost` is
a history variable: the row does not know of the contact's live call. Two
comparisons of times are assumed, as the defaults have them: a redial rests
longer than a reconcile's transaction lasts, and a dial times out before its
contact counts as stuck. Uploads and settings, which the code allows only while
the campaign does not run, are left out.

### AudioWork

`row` is the row of `messaging.audio_transcription_work`, changed only by
`CompareAndSet` (`advance_audio_transcription`); a call is known by the number of
its claim, `seen` is its local record and `pc` its place in
`runAudioTranscriptionWork` or, from `mark` to `record`, in the provider's adapter.

| action | code |
|---|---|
| `Load`, `Attempt`, `Read` | the load and its early returns, the attempt counted, the audio read |
| `Mark`, `Record` | the checkpoints before and after a paid request |
| `Post`, `Answered`, `Rejected`, `Unanswered`, `Poll` | the request and its answers |
| `Accept`, `Lose` | the provider's side; it may accept what the caller gave up on |
| `Keep`, `Retry`, `Terminal`, `Publish`, `Cleanup` | the ends of a step |
| `Settle`, `Abandon` | the job's row after the step, or after an error |
| `Refused` | a transaction that finds the claim, the version or the authorization gone, or no database |

Guards that only precede a request or a checkpoint are merged with it. A transaction
may commit and lose its acknowledgement: the row is then ahead of `seen`. Inside
the adapter a throw after an accepted POST becomes the outcome `unknown`, elsewhere
it ends the call (`Thrown`). Time is left out: leases, pauses and the age limit may
end at any moment. `terminal_handled` is set exactly when the row is settled and
has no field. `DB:1265-1352` supplies no cleanup port, so cleanup ends `blocked`.
The claims of this job are a counter; the fence behind them is `JobQueue`'s.

`NotePromise` is what is left without claims, records and checkpoints: how many files and
transcriptions were bought, how many transcripts and fallbacks the customer got, and how
the note ended. A file is bought before the transcription of it, each once; a transcript is
told only of a transcription that was bought; after any end but `unknown` nothing is
bought. `ImplementsNotePromise` maps `uploads`, `submits` and the settled phases to it.

## 3. Runs

| run | what it asks | verdict |
|---|---|---|
| `queue` | two jobs, one that polls and one that puts itself off, two calls of one process: fence, dead only when spent, refinement of `FencedWork`, in which a settled row is final; a job that does not put itself off settles | holds |
| `queue_audio` | every job settles, the one that puts itself off included | **violated** (finding 1) |
| `outbound_safety` | at most one message, rows that tell the truth and show the furthest receipt, refinement of `MessagePromise` and of `JobQueue` | holds |
| `outbound_stuck` | a request being sent reaches an end | **violated** (finding 2) |
| `outbound_receipts` | statuses are applied monotonically, reported failures included | **violated** (finding 3) |
| `inbound_safety` | an event takes effect once; only its latest claim settles it; every event is processed or alerted | holds when no worker dies in a last attempt |
| `inbound_alert` | a spent event is processed or alerted | **violated** (finding 4) |
| `turns_safety` | no message answered twice, out of order or across a takeover; the newest message always has a job or an answer; the last one is attended to | holds |
| `fair_safety` | caps over calls, bounded overtaking, a drain that misses no reply | holds |
| `dispatcher_safety` | capacity, accounted sessions, attended callers, quiet after a drain | holds |
| `campaign_safety` | ceilings over calls, one call at a time, done means done, settled contacts final | holds |
| `audio_safety` | the row names what was paid; the customer hears one thing; refinement of `NotePromise`: nothing is paid twice | holds |

**Bounds.** Two attempts per job: the smallest number for which a first attempt,
a retry and an exhaustion all happen; nothing in the code looks at the number
beyond `attempts < max_attempts`. A lease of 2 ticks (1 in the larger models)
with `Tick` free to happen anywhere lets a lease run out between any two steps;
longer leases only add steps in which nothing changes. `Backoff` 1 separates due
from not due. `MaxPolls` 1 and `MaxTries` 2 let the loop be taken and be cut off.
Two calls of one process are what the fence has to tell apart, as `locked_by` does not;
calls of two processes are in `outbound_safety`, whose steps are the queue's
(`ImplementsQueue`), and in the proofs, as is any number of them. The properties of a row
mention one job at a time and rows interact only through priority and the sweep,
which two jobs show; their priorities are equal, so that a claim may take either,
and unequal ones only take choices away. The lease is 1 there. Deadlock
is not checked where everything may settle: a queue or an inbox that is done has
nothing to do.

`inbound_safety`: a message and a report, two attempts, two workers: one event
waiting for another, a worker reclaiming what another lost. `MayDieLast` is off
there for the liveness property only, and `inbound_alert` turns it on.
`turns_safety`: two messages, because every ordering question is about an older and
a newer one; one attempt per event (retries of events are in `inbound_safety`) and
two per job; epochs up to 3 allow a takeover and a return after the assignment.
Liveness holds for the last message as long as the conversation does not change
hands. `dispatcher_safety`: an inbound and an outbound room with one slot, so that
each is refused while the other is starting, active or closing, and room for one
owed status, so that eviction happens. `campaign_safety`: two replicas, two
campaigns of one contact each under a tenant ceiling of one, two dials for one
of them, two failures to brake: with both campaigns in every phase the ceiling,
the finish and the redial interfere. `fair_safety`: three jobs of one tenant, two of them of
one conversation, and one of another, so that three could be live under a cap of two;
one job has a second attempt, so that it can run twice; two workers of two calls
each, taken as interchangeable (symmetry; all its properties are invariants).
`audio_safety`: three claims and a budget of two steps: the first step uploads and submits
or meets a 429 at either, the second polls or asks again, and a crash, a lost claim or the
cleanup takes the third. Three overlapping calls are an older one, its successor, and one
that finds what both left; the proofs cover any number.

**Fairness.** `WF(Tick)`: time passes. `WF(Work(e))`: a call goes on, because
statement, connection and provider timeouts bound each of its waits.
`SF(Conclude(e))`: a call makes finitely many transactions before one that
decides, though each may find its lease gone; weak fairness would not do, as
the conclusion is disabled between transactions. `WF(Poll(e))`: `runWorker`
comes back to the claim functions after every batch. No fairness is assumed of
crashes, renewals, errors or the provider. `DeliveryFairSpec` gives each call
weak fairness of whatever it can do next, `GiveUp` (the 8 s timeout) included.
`InboundFairSpec`: a worker polls and finishes the call it has, leases and backoffs
end, a webhook that began is stored. `TurnsFairSpec`: reply jobs are admitted,
swept and carried on, answers are sent or refused; nothing is assumed of people,
the inbox or lapsing claims.

**Mutants.** Each property of a passing run has a faulty variant of one definition
(`X_Faulty...`, beside `X`) that a plausible slip would produce: a lock not taken,
`>` for `>=`, a receipt applied last-wins, a timeout retried
like a rate limit. Substituted for the definition, each one breaks its property.

## 4. Findings

1. **An audio job rescheduled on its last attempt is lost** (`queue_audio`).
   `DB:1356` puts the row back to `queued` and keeps its attempt. With
   `attempts = max_attempts` it is neither claimable (`attempts < max_attempts`)
   nor swept (`status = 'running'`), so it waits for ever.
   `docs/architecture/database-eventing.md:20-21` promises a terminal failure
   state for every job. It is rare: the job has `max_attempts` 20 (`DB:1214`), and the
   record's own budget of 8 counted steps (`audio-transcription-work.ts:145`) ends the work
   first, unless a dozen claims are spent without being counted there, by lapsed leases,
   crashes or errors. The run gives the job two attempts.
2. **A request can stay `sending` for ever** (`outbound_stuck`). If the worker
   dies during the last attempt after the load, the sweep declares the job dead
   and leaves the request. `V/eb2660eb37ec:62-64` tells administrators to retry
   the deletion of a tenant once the operation "reaches a terminal state".
3. **A receipt can undo what is shown of a message** (`outbound_receipts`). The CASE at
   `packages/ts/crm/src/messaging.ts:1162` tests `failed` first, so a failure that is
   processed late makes a delivered or read message a failed one; and it protects `read`
   and `delivered` but not `failed`, so a `sent` or `delivered` receipt processed after the
   failure turns the message back. TLC shows the first; the second is not monotonic in any
   order of the statuses. Receipts are processed in any order, because each is an event of
   its own that may be retried. `docs/security/threat-model.md:229` calls status application
   monotonic, `docs/architecture/whatsapp-cloud-api.md:23` says "apply
   sent/delivered/read/failed monotonically", and lines 102-104 there that late lower-ranked
   receipts do not regress a delivered or read message, which is true of receipts other than
   `failed`. `docs/readiness/workers-inventory.md:63` already notes that failure is always
   accepted.
4. **A spent event may stay unreported** (`inbound_alert`). A process that dies
   during the last attempt leaves the event `processing`; the claim wants
   `attempts < max_attempts` and the alert wants `failed` (`V/d1e7a304269b:66`).
   `inbound-debounce.ts:53` promises "an operator-visible alert record". Such a row also
   blocks: `requireNoNewerPendingInbound` counts it as pending, so older
   messages of that customer are not answered by the AI either.

Observations without a run. A reply whose claim lapsed runs on beside its successor on the same
job and, when it ends, deletes the successor's entry from `activeReplies`: a fifth
call may start then, and a shutdown does not wait for the successor. `CallsWithinCaps`
and `RepliesAreAwaited` except exactly such jobs. A campaign that an operator stops while a call is in
progress is not reconciled any more (`runner.py:86-115` looks at running and paused
ones), so its contact stays `calling` and keeps counting against the tenant's
ceiling until the campaign is resumed. In `dispatcher.py:336` the dial awaits while
the agent may complete and the room be torn down: LiveKit then creates the room
anew for a leg without an agent. Two orders of a customer's messages are in use:
`DB:3823` orders by `received_at`, the start of the webhook's transaction, and only then
by receipt sequence; the debounce orders by receipt sequence alone, and the comment at
`DB:3814-3815` names only that. With two overlapping webhooks a debounced trigger may
be superseded by a message with the earlier receipt sequence, which no job answers;
`Waits` in `ConversationTurns` asks for a message that is the last in both orders. A
voice note whose authorization changes while it is transcribed ends in a dead job with
neither transcript nor fallback; `OneOutcome` speaks of jobs that succeeded. The poll of
a flow run is not the only update that gives an attempt back: an operator alert without
a configured destination does too (`DB:6100`), every minute and with no deadline, on
purpose. Such a job does not settle until it is configured; `JobQueue` has only the
bounded poll, and its liveness and its bound on claims are about jobs of the other kinds.

## 5. Proofs

`JobQueueProofs` proves for any finite or infinite `Jobs`, `Executors` and
`Workers`, any positive attempts and lease, from `JobQueueAssumption` alone:

* `TypeCorrect`, `Fencing`, `DeadOnlyWhenSpent`: the invariants `TypeOK`,
  `FencedTransaction`, `DeadWhenSpent` of the runs;
* `UniqueClaims`: the invariant `ClaimsAreUnique`, and `SettledStaysSettled`: the
  action property `SettledIsFinal`, which no run checks apart;
* `NoStranding`: `NoStrandedJob`, under the assumption `AudioJobs = {}`. The
  assumption is needed, as finding 1 shows; no run checks it apart either;
* `FinitelyManyClaims`: a job is claimed at most `MaxAttempts` times plus once per poll,
  because the row's claims are its attempts and its polls (`ClaimsCounted`);
* `WritesOrdered`: the writes of a row follow the order of its claims, so nothing an older
  claim still has in hand lands on what a newer one wrote;
* `Refinement`: `JobQueue` implements `FencedWork`.

The inductive invariant is `IInv`. `FencedTransaction` is not inductive: that a
reclaim by a second call of the same worker cannot be mistaken for the first
depends on the claims handed out being at most the row's token (`ClaimIssued`) and
never shared (`ClaimsAreUnique`); that a commit leaves `polls` and `attempts` in
range depends on the licence a verdict was given (`VerdictLicensed`) and on
running rows having spent an attempt (`AttemptsCounted`). One lemma per action shows
that it preserves `IInv`. `RowSteps` then says what any step does to any row, in
five disjuncts that mirror the actions of `FencedWork`; finality, the absence of
stranded rows and the refinement all follow from that lemma.

`OutboundDeliveryProofs` proves for any jobs, calls, processes, attempts and tries, from
`JobQueueAssumption` and `DeliveryAssumption` (every job is a send job):

* `DeliveryImplementsQueue`: every step of the delivery is a step of the queue or
  leaves it alone (lemma `QueueStep`), so all the theorems above hold of the jobs
  that send, `NoStranding` included;
* `SendJobsAreFinite`: two of them carried over, the bound on claims and no stranded job;
* `DeliveryTypeCorrect`, `SentAtMostOnce`, `RequeuedOnlyUnsent`, `RefusedNeverSent`,
  `RowsKeepAgreeing`, `LatePostOnce`: every invariant of the run `outbound_safety`;
* `DeliveryKeepsPromise`: the delivery implements `MessagePromise`'s `Spec`, whatever receipts
  come in whatever order. `RefusedMeansUnsent` is a consequence of it, proved as well and not
  checked apart. `Monotonic` is no part of it: it is false (finding 3).

The inductive invariant is `DInv`. `AtMostOnce` alone says nothing of the calls, and
the danger is in them: a call that lost its lease between its last revalidation
and its POST still posts. The invariant therefore speaks of *senders*, calls past
the load that have met no error but a rate limit, whether or not they still have
their claim. A request has at most one sender, and none while it is `queued`
(`SenderAlone`); the number of POSTs accepted or on the wire follows from where the
sender is (`SentOnce`); a call in its error handler with a certain refusal knows
that nothing was sent and that no sender is left (`RefusalCertain`); and a verdict
is reached only from the place the code reaches it from (`VerdictPlaced`). No receipt is
known before the wamid is, and until one reports a failure the message shows the furthest of
them (`ReceiptsShown`), which is the part of `RowsAgree` about their order. The fence
of the queue enters where a transaction commits: the row runs under the
committing call's claim, so no other call is live (`CommitFacts`), and only a stale
sender, which the invariant counts, can be left. Steps are grouped by what they
disturb: those that only move calls (`QuietDInv`), errors (`ErrorDInv`), the exchange
(`ExchangeDInv`), commits (`KeepDInv`, `FinalDInv`), admission and receipts. For the
refinement a step is one of the promise for each request: what a commit does is known from
the place its verdict was reached at (`CommitTold`), that a message marked failed has the
code that says why is `MessagesExplained`, and receipts of progress are compared with `Onward`
case by case (`ReceiptRanked`).

`InboundEventsProofs` proves `InboundTypes`, `IngestedAtMostOnce`, `LatestClaimSettles` and
`AlertsAreFinal` for any finite set of events, any workers and attempts. The inductive
invariant says that a worker's call and its grant belong to a claim that was made
(`grant` at most `attempt`), that an event under an owner whose call has it was
granted to that very call, and that an alerted event is failed and spent. Without
it the fence by worker name proves nothing: it is the one call per worker that
makes the name as good as a token.

`LastAttemptAttended` is the safety half of the alert, under `~MayDieLast`: an event whose
attempts are spent is processed or alerted, or the call of its last claim is still
there to do one or the other. Without that assumption it is false, which is finding 4.

`ConversationTurnsProofs` proves the safety properties of the run `turns_safety`
for any messages, workers, attempts and epochs, with or without debouncing and fair
admission. A step of the turns is a step of `InboundEvents` or leaves it alone
(`InboxSteps`, `TurnsDriveInbox`), so the theorems about events hold here too. On top of it,
`TriggersAreOwn` says that a job is about an ingested message no other job is about:
a trigger moves only to a message that took effect just then. `AnswersInOrder` needs
that no two messages were received at the same time (`ArrivalsDiffer`), that what was
told was told by jobs that are done (`ToldByJobs`) and that a cleared answer is about
the latest message of the inbox. `NoAnswerAcrossTakeover` rests on
`AnswersCarryEpoch`: ownership never returns to an epoch it left, so an answer whose
epoch is the current one was composed under it. `NewestMessageKept` (`NobodyForgotten`) is
the safety half of `LastMessageAttended`: the newest message has a job or an answer after
every step. Three things could take it away, and each needs a fact of its own. A debounce moves
a trigger, but only to a message received later (`QueueFacts`), and nothing is later than the
newest; a turn gives up when it is overtaken, but a turn about the newest message under the
epoch it was asked in is current (`WaitingIsCurrent`), which takes that no job was loaded
before its message was asked about (`AskedBefore`); and ingesting the newest message itself gives it a job,
or the job that waits (`IngestKeeps`).

`DispatcherProofs` proves every invariant of the run `dispatcher_safety` for any
finite set of rooms and any limits. `AgentsWithinCapacity` rests on agents at work
having a slot, which is what the order "pop, remember, cancel" in one step gives;
`StartedIsAccounted` and `CallerIsAttended` on how the program counters of a room's
three tasks exclude each other; `DrainedMeansQuiet` on no slot being taken again
once the drain has passed its stages.

`FairAdmissionProofs` proves every invariant of the run `fair_safety` for any finite
set of jobs and any tenants, processes and limits, the orphans included that the run
has none of. The caps of the code are on live rows, the property is on calls: the
invariant says that no two live rows share a conversation, and a call with a valid
claim is determined by its row, so calls are no more than rows (`CallsPerJob`). The
worker's own cap and the drain rest on `MapAgrees`: the map misses a call only of a
job that had two.

`CampaignDialerProofs` proves every property of the run `campaign_safety` for any
replicas, campaigns and limits and any finite set of contacts. That a reconcile may
write rows it never locked rests on `DecisionsHold`: as long as it is under way,
nothing its decision was taken from changes, unless another reconcile has written
the same decision already, or the call is one the row lost. `DialsAlone` says that
nobody has decided about a contact while it is dialled, `GateHolds` that the count
taken under the lock is still right at the claim, as the others can only settle
rows meanwhile; the ceilings over rows (`RowsWithinCeilings`) carry over to calls
because a call that is not lost has its row in `calling` (`CallsAreKnown`).

`AudioWorkProofs` proves every property of the run `audio_safety` for any number of
claims and any budget, and `PaidOnce`, which `NotePromise` contains. That a paid request is made once says nothing of who may still
make it; the invariant speaks of *holders*: calls with a record of the row's version
that have reached the request and not yet ended in `unknown`. There is one at most (`OneHolder`),
because a version is passed on only by the write that made it; what it knows of the
requests follows from its place (`Turns`), and for a row that is not in flight from
its phase (`Accounts`). A write by the holder therefore finds no request of another
call on the way, and whoever comes later finds the phase in flight and can only end
in `unknown`. `Placed` ties a call's record to its place, `Records` says that a record of the
row's version is the row and an older one is behind it. `WorkKeepsPromise` adds one fact,
that a transcription is asked only of a file that was accepted (`FileFirst`); the rest is
that only the provider buys (`BooksStep`), only a transaction moves the phase, along `Moves`
(`PhaseStep`), and `OneOutcome` before and after a step says what was told in it.

Only model-checked: liveness (`SteadyJobsSettle`, `EveryEventSettles`,
`LastMessageAttended`), because everything that needs fairness or ENABLED is out of the
prover's reach. What those properties rest on is proved where it is a safety property:
finitely many claims and no stranded job, no spent event left alone, no newest message
without a job. The violated
properties are refuted by TLC's counterexamples.

## 6. Plan

Done so far: the job queue and the delivery on top of it, the inbox and the turns
on top of that, fair admission, the dispatcher, the campaign dialer, the audio work. In order:

1. `WebhookPump`, as a second implementation of `FencedWork`, composed with the
   dispatcher's handler being cancelled.
2. `Deletion` of tenants and conversations against running jobs, one action per
   statement: the cancelling UPDATE, the final check and the commit that makes the
   revoked channels visible each see another state of the queue. The opening menu.
3. Liveness of a campaign.
