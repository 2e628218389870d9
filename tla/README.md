# Verification of the ZZap - Chatwoot integration

The program connects ZZap, a marketplace with a message service, to Chatwoot, a
help desk. A worker polls ZZap and turns new messages into jobs that write to
Chatwoot; a web process receives Chatwoot's webhooks and turns the operator's
messages into jobs that write to ZZap. PostgreSQL is the only thing both share.

This directory holds TLA+ modules that model the program, TLC configurations
that check them on small instances, and proofs checked by TLAPS. `PROJECT.json`
ties every definition to the lines it models, every run to its properties and
every property to a plausible bug that breaks it.

## 1. Inventory

| Component | State | Operations | Talks to |
| --- | --- | --- | --- |
| Job queue and worker (`workers/jobs.py`, `db/repositories.py`, `workers/locks.py`) | `sync_jobs`, status of `message_mappings`, advisory lock | create, claim, stale reset, run, retry, fail, note | both sides, through the processors |
| Thread synchronisation (`workers/jobs.py:315-426`, `636-925`, `services/inbound.py:45-63`) | `zzap_threads` with cursor and guard, `message_mappings` | poll summaries, fetch a thread, import, echo test | ZZap; creates inbound jobs |
| Action queue, limiter, backoff (`workers/zzap_scheduler.py`, `workers/rate_limit.py`) | in memory: FIFO of actions, pending sets, earliest next poll, last finish | enqueue, pop, delay | paces every call to ZZap |
| Inbound delivery (`services/inbound.py:67-209`) | `chatwoot_contacts`, `chatwoot_conversations` | contact, conversation, message | Chatwoot |
| Outbound delivery (`services/outbound.py:103-186`) | payload of the job, outbound mappings | download, upload, send, record | Chatwoot, ZZap |
| Webhook (`api/webhooks.py`, `services/webhooks.py`, `services/outbound.py:49-100`) | `webhook_deliveries` | verify, deduplicate, create a job | Chatwoot |
| Poll health (`services/poll_health.py`) | `service_state`, a copy in memory | attempt, result, observe, monitor | metrics |
| Readiness, metrics (`api/health.py`, `services/readiness.py`, `api/metrics.py`) | caches | read | operators |
| Cleanup (`workers/cleanup.py`) | none | delete old rows | all tables |
| Clients, diagnostics, settings, CLI, migrations | none | I/O, start-up | |

What is hard to get right here, component by component (the full list, with
lines, is under `hazards` in `PROJECT.json`):

- **Job queue.** A claim and its outcome are two transactions with calls to
  another system in between. A crash in the middle leaves a `processing` row,
  which a later iteration resets after ten minutes; a call may be applied and
  its answer lost; the lock that should leave one worker active lives on a
  connection of its own. Right means: one owner per job, bounded attempts,
  duplicates only when nobody could know better, the operator told of every
  failure, the two records of a message in agreement, outcomes final, and every
  job ended.
- **Thread synchronisation.** Summary, fetch and import happen at different
  times, and ZZap changes in between. Right means: the cursor never passes a
  message that was not imported, no message is forgotten or imported twice, and
  the operator's own messages stay out.
- **Scheduler.** One limiter for polls, fetches, uploads and sends; flags that
  repeat what the queue holds; jobs that go first; hold-offs after errors. Right
  means: spacing kept, nothing queued twice or lost, polls and fetches in turn.
- **Webhook and outbound.** Webhooks are repeated and race the import that
  creates the conversation. Right means: one job per message, none lost, all
  files sent.
- **Inbound delivery.** Three calls that create something in Chatwoot, one
  transaction that records it. Right means: one contact and one conversation
  unless an answer or the process was lost.
- **Poll health.** Two tasks update one state and save the whole of it, and the
  web process shows a cached copy. Right means: an outage is never silent, the
  row is what the flag says, the incident has one start.

## 2. Plan

| # | Module | Content | State |
| --- | --- | --- | --- |
| 1 | `SyncJobs`, `JobContract`, `SyncJobs_proofs` | job queue, its contract, the refinement, proofs | done |
| 2 | `ThreadSync`, `ThreadSync_proofs` | one thread between ZZap and the mappings, proofs | done |
| 3 | `ZZapScheduler`, `ZZapScheduler_proofs` | action queue, limiter, poll interval, hold-off, jobs that share the limiter, proofs | done |
| 4 | `ChatwootBridge`, `ChatwootBridge_proofs` | webhook deliveries, conversation, uploads; refines `JobContract` too; proofs | done |
| 5 | `PollHealth`, `PollHealth_proofs` | worker and monitor over one state, the exporter, proofs | done |

Every invariant and every action property of the passing runs is proved (section 5);
liveness stays with TLC. What could follow: the order of the jobs of one thread
when a failed one waits (a hazard without a property), and the pages of one fetch.

The modules meet at narrow places. `SyncJobs` knows a delivery as one count;
`ChatwootBridge` says what it consists of and leaves retry times and stale locks to
`SyncJobs`; both implement `JobContract`. `ThreadSync` has the fetch of its thread as
one flag, `ZZapScheduler` the whole queue and no messages. `PollHealth` sees of the
scheduler only that a poll follows the last one after the interval.

## 3. Modules

### SyncJobs

`job` is the table `sync_jobs`, one row per job of a fixed set, `absent` before it
is inserted; `mapping` the status of the message mapping of each inbound job;
`worker` where each process is in `run_worker_iteration`; `lockHolder` the
session with the advisory lock. `sent`, `unsure` and `abandoned` are history: how
often the other side applied the message, which jobs have an application that
nobody recorded, which jobs the stale reset failed.

| Action | Code |
| --- | --- |
| `CreateInbound`, `CreateOutbound` | `persist_inbound_message_job` (the jobs of a fetch in one transaction, so with one `created_at`), `create_outbound_sync_job` |
| `Start`, `LoseLock`, `Crash` | `run_worker_loop`: take the lock or exit; the database drops the connection; the process dies and its transaction is rolled back |
| `ClaimNext`, `ResetOnly` | first transaction: `reset_stale_processing_jobs`, then `claim_next_job` |
| `LoadJob`, `LeaveJob` | second transaction: the job is loaded again and left if it is someone else's |
| `Deliver`, `CallFails`, `Block` | the processor: applied (and the answer perhaps lost), failed, or read-only |
| `Commit` | the rest of `process_claimed_job` and the commit: status, next attempt, mapping, note, lock |
| `Tick` | time; instants are relative to now and capped at `Horizon` |

The claim orders rows by `next_attempt_at NULLS FIRST, created_at`. Instants of
one tick leave the order open, which is wider than the code. The second
transaction writes only the columns the code assigns; `attempt_count` comes from
the row and not from the copy in memory.

`JobContract` says what the queue promises without any of this: a message is
applied at most `Limit` times and only while its job is open, a job ends once,
and *done* means applied. `KeepsContract` is the refinement.

### ThreadSync

One ZZap thread (`log`), the operator's open messages (`outbox`), the row of
`zzap_threads`, the rows of `message_mappings`, the fetch in the worker's queue,
and the worker's position. The worker is sequential, so one process suffices;
people act between its steps: between the poll and its transaction, between the
fetch and its transaction, between the start of a send and the send.

| Action | Code |
| --- | --- |
| `CustomerWrites`, `ThreadIsRead` | ZZap, external: messages arrive with non-decreasing dates |
| `OperatorWrites` | `persist_outbound_webhook_event`, if a conversation may exist (`MayHaveConversation`) |
| `ListThreads`, `ProcessSummary`, `PollFails` | summary poll and `_process_summary_threads`; a failure rolls the row back and leaves the queue |
| `FetchMessages`, `PersistMessages`, `FetchFails`, `SkipUnknownThread` | thread fetch and `_persist_thread_messages`, with `should_import_zzap_message`, bootstrap window and echo test as operators |
| `CloseInbound` | the outcome of an inbound job (see `SyncJobs`) |
| `BeginSend`, `SendMessage`, `RecordSent`, `SendFails` | `OutboundProcessor.process_job` |
| `Cleanup`, `Crash`, `Restart`, `Tick` | `cleanup_old_records`, the process, time |

`InOrder` sorts the fetched messages by giving each the number of messages
`Before` it; `ImportRun` is a recursive function with one state per message, because
each import moves the cursor that the next test reads. An answer carries, beside
what the code sees, the `index` of each message in the log, so that the history
variables can tell twins apart; `RecordSent` needs it when a customer wrote between
the send and its record. No test of the code's reads it. The fingerprint of an outbound mapping names the
thread's user as sender, as the code does; the echo's own fingerprint names the
operator, so only the text hash and the dates can recognise it. The code hashes
`created_at` in the zone in which the webhook wrote it and ZZap's dates in Moscow time, so
this fingerprint may equal that of a customer's message (sender `"customer"`) or
that of none (`"nobody"`); `RecordSent` allows both. `FlagsMayMiss` says whether ZZap may
leave the unread flags out.

The row of the conversation is written by the first inbound job that gets so far, is
kept when the posting fails, and is never cleaned up; `MayHaveConversation` therefore asks
only that a message of the thread was imported. That the job has run by then is left open.

Left out: page breaks inside one fetch (a fetch is one snapshot: between two pages
messages are only added, one seen on both is known the second time, and a page is
longer than the window of the unread count), `read_only`, names, messages the
operator writes at the ZZap site (they are imported like a customer's), and late
messages with a date before one that ZZap already showed.

### ZZapScheduler

`queue`, `pendingSummary`, `pendingFetches`, `scheduledAgo`, `holdOff` are the fields of
`ZZapActionQueue`, `finishedAgo` is the limiter's; `worker` is where the iteration is, with
the action or job in hand. Instants are ages, so that time can go on for ever in a
finite model, and the fairness of polls can be asked.

| Action | Code |
| --- | --- |
| `Submit`, `ClaimOutbound`, `ClaimOther`, `LeaveOutbound` | the first half of `run_worker_iteration`: a job that makes calls to ZZap, or none |
| `Schedule` | `enqueue_summary_poll_if_due` |
| `PopNext`, `NoAction` | limiter test and `pop_next`; a fetch of an unknown thread ends here |
| `BeginCall`, `CallAnswered`, `CallFails` | a call with its wait and its `finally`; the classes of error in `ZZapClient._request_json` |
| `FinishSummary`, `FinishFetch`, `SaveFails`, `ActionFails` | the transaction after the answer, and the handler: queue again, hold off, flag |
| `FinishOutbound`, `OutboundFails` | the end of the job, as far as limiter and flag are concerned |
| `Crash`, `Tick` | memory is lost, flag and rows stay; time |

`Tick` does not fall between `Schedule` and the pop. The code reads the clock twice
there without waiting; if a hold-off ends between the two readings, a fetch goes
before the poll that is due. Were the two apart by a tick each time, polls could
starve, which says more about ticks than about nanoseconds.

### ChatwootBridge

One thread and its conversation. `contacts`, `conversations`, `posted`, `written` are
Chatwoot; `contactRow`, `conversationRow`, `seen`, `job`, `mapped` the tables;
`handler` the requests in progress, each a transaction whose writes show at its end;
`worker` the job in progress, whose writes are in its fields until `Finish` or `Fail`
commits them; `uploads`, `sent` what reached ZZap.

| Action | Code |
| --- | --- |
| `Write`, `Post` | operator and Chatwoot; `Post` includes `classify_chatwoot_message_created` |
| `RecordDelivery`, `FindConversation`, `CreateJob`, `RequestFails` | `persist_outbound_webhook_event`, one action per statement; an insert waits for an open transaction with the same key |
| `TakeJob` | claim and load; the queue itself is in `SyncJobs` |
| `CreateContact`, `KnownContact`, `CreateConversation`, `KnownConversation`, `PostMessage` | `InboundProcessor.process_job`; each call may take effect without an answer that can be used |
| `Upload`, `Send` | `OutboundProcessor.process_job` |
| `CallFails`, `ChatwootDenies`, `OtherHostDenies` | errors, by what they do to the flag |
| `Finish`, `Fail`, `Crash` | the end of `process_claimed_job`: an error is caught and what was written before it is committed |

A crash makes a job `unsure` only if a call of the attempt `TookEffect`: the send, or an upload that
is not yet saved. `KeptAfter` is what the ORM does with the shared list of URLs, see finding 4. The
mapping of a sent message may meet the row of an equal one and is then not stored:
that a message is sent once rests on the job's unique index alone.

### PollHealth

`memory`, `dirty`, `lock`, `retryAfter` are the fields of the worker's object, `row` is in
`service_state`, `task` what worker and monitor are doing with the object, `snapshot`
and `expires` belong to the exporter. Of the state only what some test reads is kept.

| Action | Code |
| --- | --- |
| `Start`, `StartFails`, `Crash` | `initialize`, the end of the process |
| `BeginPoll`, `CallZZap`, `PollSucceeds`, `PollFails` | the poll in `process_next_zzap_action` with its records |
| `Proceed`, `Observe` | change under the lock: `attempt`, `result`, `observe` |
| `Save`, `SaveFails`, `GiveUp` | `save`; an error or time-out, before or after the commit; a wait for the lock that is too long |
| `Refresh`, `Gauge` | `MetricsExporter.render`, `render_metrics` |

## 4. Runs

| Run | Shows | Bounds |
| --- | --- | --- |
| `sync_safety` | all safety properties of the queue and the refinement | 2 workers, an inbound and an outbound job, 2 note rows, 2 attempts, 2 crashes: enough for a reset of a first and of a last attempt, a claim that overtakes a waiting job, and a note for a note-worthy job while another job runs |
| `sync_liveness` | every job ends | 1 worker, 2 crashes, so that the last attempt may die as well |
| `sync_lost_lock` | what is left without the lock: a bound on attempts and sends, and one worker per attempt | 2 workers on one job |
| `exhaustion_unreported` | finding | as `sync_safety` |
| `thread_safety` | cursor, forgotten messages, second imports, echoes | 2 texts, 2 messages, 3 instants, cleanup after 1, an operator's message, a crash |
| `thread_liveness` | arrival of unread messages, the bootstrap, the cursor over three messages | 1 text, 3 messages, 3 instants, a crash, flags always given |
| `echo_imported` | finding | as `thread_safety` |
| `bootstrap_race` | finding | as `thread_safety` |
| `scheduler` | queue and flags agree, fetches are not lost, spacing, readiness flag, polls and fetches go on if jobs come to an end | 2 threads (one may keep failing while the other waits), an outbound job that becomes due again and again, with up to 2 calls, fetches of up to 2 pages, pauses of 2, 3 and 4 ticks against an interval of 2, a restart |
| `poll_health` | alarm, incident, row, gauge | 5 instants against a threshold of 2: an alarm, a recovery and the way to a second alarm; one failed save, one crash |
| `bridge` | webhook, conversation, files, readiness flag, refinement of the contract | 2 requests at once out of 3, 2 delivery ids or none, 1 inbound job, 1 message with 2 files, 2 attempts, a crash |
| `uploads_repeated` | finding | 1 request, no crash |

Two attempts stand for three and five: the policy is a sequence of delays and a
limit, and one retry before the last attempt shows each case. `StaleAfter = 1`
and `Horizon = 2` tell fresh, stale and older apart. In `ThreadSync` three
messages are needed for the order of imports (one for the first cursor, two for
a fetch with two new messages), two for every other property. `Tolerance = 0`
means that one tick is longer than the two minutes of the echo test;
`FailedRetention < Retention` as in the settings.

### Fairness

`SyncJobs`: time passes; a worker that went down is started again (`restart:
unless-stopped`); a live worker keeps iterating, since each call it makes has a
time-out. Nothing is assumed of the other side: calls may fail for ever, and a
job then ends as failed. `ThreadSync`: the worker restarts and iterates, a queued
fetch has its turn because the queue is first in, first out, and ZZap does not
fail every poll and every fetch from some point on (strong fairness of the poll,
its transaction, the fetch and its transaction). `ZZapScheduler`: the iteration goes on, since each call and
transaction has a time-out, and the clock does not stop; ZZap may fail every call.
`PollHealth`: saves end (time-outs), the monitor finds the lock free often enough
(strong fairness); polls may hang. `ChatwootBridge` has safety properties only.
`FetchSucceeds` names the effect
of `PersistMessages` on the worker's position; the two are enabled together.

### Findings

1. `exhaustion_unreported`: an outbound job whose last attempt dies with the worker is
   failed by the stale reset, and nobody writes the private note the design asks for.
2. `echo_imported`: cleanup deletes the only record by which the worker knows the operator's
   last message; the next fetch imports it as the customer's. `is_cursor_guard`,
   which should keep such rows, is never set. The same deletion is behind the
   second imports that `ReimportExplained` allows.
3. `bootstrap_race`: at the first fetch of a thread without unread flags, a message that came
   after the poll, in a later second, pushes an older unread one out of the window. It alone is
   imported, the cursor moves to its second, and the older message is dropped at every
   later fetch. Two messages of one second do less harm: the next fetch still imports the
   other one, so `UnreadNotPassed` asks only about messages older than the cursor. With
   flags the stronger `BootstrapImportsUnread` holds (`thread_liveness`, `BootstrapHolds`).
4. `uploads_repeated`: of the files uploaded in one attempt only the first is saved, because
   all versions of the payload share one list and the ORM sees no change; after a
   refused send the others are uploaded again. What is saved is right (`FilesSent`).

`EchoExplained`, `NothingForgotten` and `ReimportExplained` name their exceptions: the
slow send, the refused mapping, the deleted record, the twins of one second and
text. Each is reachable in the run.

Known differences from the documents that no run states:

- Sends and uploads do not wait in the FIFO queue of the polls (README.md:92, design
  spec :302): a due job goes before any action (`ClaimOutbound`) and leaves the slot taken,
  so an unending stream of jobs stops the polls. `PollsGoOn` and `FetchesRun` hold
  on the condition `JobsEnd`; without it TLC finds that loop.
- `/ready` reports `chatwoot_auth_failed` after a 401 or 403 of any host that serves an
  image or file, and an outbound job that reused all its files clears it (design
  spec :365 has "actual Chatwoot auth failure"). `FlagCurrent` excludes these by `misled`.
- The hold-off counts from the start of the action, so that after a call that timed
  out at 30 seconds the interval of the limiter is all that is left of the 30.
- A message that an operator writes before the transaction with its conversation
  commits may be dropped; `AcceptedHasJob` is about the others.

## 5. Proofs

Each component has a module of proofs. They hold for every set of jobs, workers,
threads, messages and requests, every policy, interval and bound that the assumptions
named in the component's module allow. In each module the argument is the same: an
invariant that implies the property, holds initially, and is kept by every action;
the last step of the theorem combines the three with temporal logic.

The assumptions are `JobsAssumption` and `PolicyAssumption`, `HashAssumption` and
`TimesAssumption`, `SchedulerAssumption`, `BridgeAssumption`, `HealthAssumption`. They say that
the kinds of jobs (of actions, of ids) do not overlap, that `Null` is none of the
values it stands beside, that limits and times are natural numbers (positive where
the settings demand it), that workers, and the threads of an answer, are finitely
many, and that in `ThreadSync` the hash of a text is no fingerprint (a fingerprint is
modelled by what is hashed, so that hashes do not collide).

### SyncJobs_proofs

| Theorem | Statement | If the lock is not lost under a live worker |
| --- | --- | --- |
| `TypeCorrect` | `Spec => []TypeOK` | |
| `OwnerHolds` | `Spec => []OneOwner` | needed |
| `AttemptsHold` | `Spec => []AttemptsBounded` | needed |
| `OutcomeHolds` | `Spec => OutcomeIsFinal` | needed |
| `MappingHolds` | `Spec => []MappingAgrees` | needed |
| `DuplicatesHold` | `Spec => []DuplicatesExplained` | needed |
| `InformedHolds` | `Spec => []OperatorInformed` | needed |
| `ContractHolds` | `Spec => KeepsContract` | needed |
| `DamageHolds` | `Spec => []DamageBounded` | |
| `AttemptOwnerHolds` | `Spec => []OneWorkerPerAttempt` | |

The argument goes through ownership. `OneOwner` is inductive relative to the
types: a worker that is not down holds the lock, so there is at most one, and
only that one claims, resets or commits. The bound on attempts is strengthened to
`CountInv`: a job was applied at most as often as it was attempted, and less often
while its worker has not called yet, so that each claim pays for at most one
application. `AppliedInv` adds that a reported success has an application behind
it. With the three, every step maps to a step of `JobContract` or to a stutter,
and no step changes a status that is final.

Three more follow from ownership and the order of the statuses. `MappingAgrees`: the
mapping changes only together with the job's status, in the reset of stale locks and
in the commit of the worker that owns the row. `DuplicatesExplained`: while an
application is neither recorded nor lost, its worker still holds the result, so no
other claim can reach the message. `OperatorInformed` needs `InformedInv`: what the reset
gave up has failed, a row not used yet is about nobody, and an outbound job has its
one note exactly when its operator has been told.

The condition `~LockMayBeLost` is what docs/monitoring.md:144-150 concedes. Without it
two properties are left. One is `DamageBounded`, by counting workers (`DamageInv`): those that claimed
the job and have not called are paid for by attempts (`Paid`); and once the attempts
are used up, a worker can make the job wait again only if it loaded the row before
that, which it can do once, so that there are fewer extra claims than workers (`Overrun`).
The other is `OneWorkerPerAttempt`, which rests on the test of the reload (`Owned`): with the
lock kept that test never fails, and here it alone keeps a worker that was reset and
overtaken between its two transactions from running the other's attempt. `SharedInv`
adds that only the worker of the row's own attempt number may find itself named on it.

### ThreadSync_proofs

| Theorem | Statement |
| --- | --- |
| `TypeCorrect` | `Spec => []TypeOK` |
| `SkipsNone` | `Spec => []NoneSkipped` |
| `ForgetsNothing` | `Spec => []NothingForgotten` |
| `ReimportHolds` | `Spec => []ReimportExplained` |
| `EchoHolds` | `Spec => []EchoExplained` |
| `BootstrapHolds` | `Spec => []BootstrapImportsUnread`, if ZZap gives the unread flags |
| `CursorHolds` | `Spec => CursorMonotone` |

Induction over the messages of a fetch is first-order here: `Induction` speaks about a
set of numbers, not about an operator, and rests on the well-foundedness of `<`.
`Sorts` says that `InOrder` lists every fetched message once, earlier ones first; `RunSteps`
that `ImportRun` goes on by one message; `LoopStep` that one message keeps what the loop
keeps (`LoopOK`): the invariants below, and that the messages behind it are handled.

`IInv` is the invariant. `RecordsInv` ties the mappings to the imports: an inbound mapping
belongs to an imported message, and an imported message has a mapping until a cleanup
deletes it, and is not past the cursor. `GuardInv` names the message the cursor
stands on and that the guard tells apart from others of its second: the key to
`NoneSkipped` and `ReimportExplained`, since the test for a new message is one of dates
and the guard. `SummaryInv` and `SeenInv` are for `NothingForgotten`: every summary, stored
or in flight, shows a message that was in the thread, and a message that waits for its import
is in a queued or running fetch or came after the summary last stored; it then
differs from that summary unless it has a twin. `EchoInv` and `SentInv` say for the
operator's messages that a record the echo test finds exists, or why not, and what the
worker knows between the send and its record. `UnreadInv` is the bootstrap.
`CursorHolds`: the import takes
nothing dated before the cursor, and each message it takes moves the cursor to its date.

### ZZapScheduler_proofs

| Theorem | Statement |
| --- | --- |
| `TypeCorrect` | `Spec => []TypeOK` |
| `PendingHolds` | `Spec => []PendingMatchesQueue` |
| `OwedHolds` | `Spec => []FetchesOwed` |
| `AuthFlagHolds` | `Spec => []AuthFlagCurrent` |
| `CallsSpaced` | `Spec => Spaced` |

`Inv` says that the queue lists the pending actions, each once (`QueueOK`, with lemmas on
sequences that list a set: appended, concatenated, with the head removed); that the
limiter knows of every call the process made, and that the slot a poll was popped with
is still free when its call begins (`LimiterInv`), so that the wait in front of the
later calls, and the pop in front of the first, keep the spacing; that a fetch which is
owed has its row (`OwedInv`), so that its turn is never skipped; and how far the verdict
is ahead of the flag between an answer and its transaction (`AuthInv`).

### ChatwootBridge_proofs

| Theorem | Statement |
| --- | --- |
| `TypeCorrect` | `Spec => []TypeOK` |
| `FilesHold` | `Spec => []FilesSent` |
| `AcceptedHold` | `Spec => []AcceptedHasJob` |
| `SentOnceHolds` | `Spec => []MessageSentOnce` |
| `OrphansHold` | `Spec => []OrphansExplained` |
| `FlagHolds` | `Spec => []FlagCurrent` |
| `ContractKept` | `Spec => KeepsContract` |

`Core` is inductive by itself: what each part of the state may hold, and that the attempt
in progress owns the one row in process. Each property adds its own invariant:
`FilesInv` (what the attempt got through and what the row keeps was uploaded), `AcceptInv`
(a row has a note behind it, a delivery id a message that was accepted), `SentInv` (a
send without doubt has ended its job or is about to; an attempt pays for one send),
`FlagInv` (which attempts are ahead of the flag) and `OrphanInv` (contacts and conversations
are those in use, in the row or in the attempt, plus the wasted ones). `ContractKept`
maps the sends to applications, from `Core` and `SentInv`.

### PollHealth_proofs

| Theorem | Statement |
| --- | --- |
| `TypeCorrect` | `Spec => []TypeOK` |
| `CleanHolds` | `Spec => []CleanMeansSaved` |
| `OutageShown` | `Spec => []NoSilentOutage` |
| `IncidentHolds` | `Spec => IncidentStable` |
| `AlarmClosed` | `Spec => AlarmIsClosed` |

`Inv` says of every copy of the state, in memory, in the row and in a snapshot, that
it names no success later than the last answer by more than a record may take
(`Sound`, `MemoryOK`): this bounds what a stale copy can hide, and is what `NoSilentOutage` needs.
`SavesOK`: a task that saves holds the lock, has the memory in its statement, and the memory counts as
dirty until the save succeeds. `WaitOK`: a record that waits for the lock came
in time and tells of the last answer.

### Only model-checked

- `EveryJobSettles`, `PollsGoOn`, `FetchesRun`, `AlarmStored`, `UnreadArrives`: liveness under
  fairness is out of the prover's reach.
- The properties of the four findings are false, and TLC shows by which behaviour.
- That the exceptions a property names do occur: TLC reaches them.

## 6. Not modelled

- Requests and parsing of the HTTP clients, beyond the outcomes of a call:
  I/O without state.
- Diagnostics, settings, CLI and ASGI set-up: no durable state.
- The signature check of the webhook, the token of the metrics, `/health`: each a
  function of one request.
- Cleanup of failed jobs and webhook deliveries: they live for days; only a
  redelivery as late as that would notice.
- Size limits of attachments and redirects of downloads: errors of a call.
- Migrations: they run once, before the program.
