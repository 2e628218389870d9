----------------------------- MODULE ThreadSync -----------------------------
(* One ZZap thread as the worker follows it: summary polls, thread fetches, the
   import of fetched messages behind a cursor, the echo test that keeps the
   operator's own messages out, and the cleanup of old records.
   Source: app/workers/jobs.py, app/services/inbound.py, app/db/repositories.py,
   app/workers/cleanup.py.

   The worker is sequential and holds the only connection to ZZap, so one process
   runs here; ZZap and Chatwoot users act at any moment between its steps.
   A text is a value that stands for its normalised form and for its hash.  *)
EXTENDS Integers, Sequences, FiniteSets

CONSTANTS
    Texts, Null,
    Tolerance,         \* two minutes, in ticks
    Retention,         \* retention of successful mappings, in ticks
    FailedRetention,   \* retention of failed mappings, in ticks
    FlagsMayMiss,      \* may ZZap leave the unread flags out of a thread?
    MaxTime, MaxLog, MaxWritten, MaxCrashes   \* bounds

Senders == {"customer", "operator"}

\* build_zzap_fingerprint: sender, date and text hash of a message of this thread.
Fingerprint(sender, date, text) == <<sender, date, text>>
FingerprintOf(m) == Fingerprint(m.from, m.date, m.text)

\* The senders that a fingerprint names.  One whose date was written in another zone
\* than ZZap's is that of no message of ZZap: it counts as somebody else's.
Named == Senders \cup {"nobody"}
Fingerprints == Named \X Int \X Texts

\* A row of zzap_threads: the last summary, and the cursor with its guard.
Threads ==
    [lastDate : Nat, lastHash : Texts, unread : Nat, cursor : Nat \cup {Null},
     guard : Texts \cup Fingerprints \cup {Null}]

\* The hashes of a text and of a message do not collide; None is no hash and no row.
ASSUME HashAssumption ==
    /\ Null \notin Texts
    /\ Null \notin Fingerprints
    /\ Null \notin Threads
    /\ Texts \cap Fingerprints = {}

ASSUME TimesAssumption ==
    /\ Tolerance \in Nat /\ Retention \in Nat /\ FailedRetention \in Nat
    /\ MaxTime \in Nat /\ MaxLog \in Nat /\ MaxWritten \in Nat /\ MaxCrashes \in Nat
    /\ FlagsMayMiss \in BOOLEAN
    /\ Null \notin Int

VARIABLES
    clock,
    log,          \* ZZap: the messages of the thread, in order of arrival
    outbox,       \* outbound jobs that are still open, [text, at]
    written,      \* how many messages the operator has written
    thread,       \* the row of zzap_threads, or Null
    mappings,     \* the rows of message_mappings of this thread
    fetchQueued,  \* is a fetch of the thread in the in-memory queue?
    pc,           \* where the worker is
    answer,       \* the answer of ZZap it is about to process, or the job it sent
    crashes,
    imported,     \* history: how often a message of the log was imported
    shadowed,     \* history: messages that the echo test dropped
    unrecorded,   \* history: operator's messages applied without a mapping
    late,         \* history: operator's messages sent long after the attempt began
    baseline,     \* history: length of the log when the thread got its first cursor
    swept         \* history: did a cleanup delete a mapping?

zzap == <<log, outbox, written>>
history == <<imported, shadowed, unrecorded, late, baseline, swept>>
vars == <<clock, zzap, thread, mappings, fetchQueued, pc, answer, crashes, history>>

Message(date, text, from) == [date |-> date, text |-> text, from |-> from, unread |-> from = "customer"]

UnreadCount == Cardinality({k \in DOMAIN log : log[k].unread})

\* The last message by date, the later arrival among equals.
LastMessage ==
    log[CHOOSE k \in DOMAIN log :
            \A i \in DOMAIN log : log[i].date < log[k].date \/ (log[i].date = log[k].date /\ i <= k)]

---------------------------------------------------------------------------
(* People: the customer in ZZap, somebody at the ZZap site, the operator *)

\* Two equal texts of one sender in one second are one message (a documented limit).
CustomerWrites ==
    /\ Len(log) < MaxLog
    /\ \E text \in Texts :
        /\ \A k \in DOMAIN log : FingerprintOf(log[k]) # Fingerprint("customer", clock, text)
        /\ log' = Append(log, Message(clock, text, "customer"))
    /\ UNCHANGED <<clock, outbox, written, thread, mappings, fetchQueued, pc, answer, crashes, history>>

ThreadIsRead ==
    /\ UnreadCount > 0
    /\ log' = [k \in DOMAIN log |-> [log[k] EXCEPT !.unread = FALSE]]
    /\ UNCHANGED <<clock, outbox, written, thread, mappings, fetchQueued, pc, answer, crashes, history>>

\* The job of an imported message opens the conversation, in an attempt that may fail
\* afterwards, and its row outlives the mappings.  Only an import puts a fingerprint
\* into the guard.
MayHaveConversation == thread # Null /\ thread.guard \notin Texts \cup {Null}

\* The operator answers in Chatwoot; a webhook without a known conversation makes no job.
OperatorWrites ==
    /\ written < MaxWritten
    /\ MayHaveConversation
    /\ written' = written + 1
    /\ \E text \in Texts : outbox' = outbox \cup {[text |-> text, at |-> clock]}
    /\ UNCHANGED <<clock, log, thread, mappings, fetchQueued, pc, answer, crashes, history>>

---------------------------------------------------------------------------
(* Summary poll *)

ListThreads ==
    /\ pc = "idle"
    /\ log # <<>>
    /\ pc' = "polled"
    /\ answer' = [lastDate |-> LastMessage.date, lastHash |-> LastMessage.text, unread |-> UnreadCount,
                  length |-> Len(log)]
    /\ UNCHANGED <<clock, zzap, thread, mappings, fetchQueued, crashes, history>>

SummaryChanged ==
    /\ thread # Null
    /\ <<thread.lastDate, thread.lastHash, thread.unread>> # <<answer.lastDate, answer.lastHash, answer.unread>>

\* A thread seen for the first time without unread messages starts at its end.
NewThread ==
    [lastDate |-> answer.lastDate, lastHash |-> answer.lastHash, unread |-> answer.unread,
     cursor |-> IF answer.unread = 0 THEN answer.lastDate ELSE Null,
     guard |-> IF answer.unread = 0 THEN answer.lastHash ELSE Null]

BugUnreadOnly == answer.unread > 0
BugSummaryOnly == SummaryChanged

WorthFetching == answer.unread > 0 \/ SummaryChanged

ProcessSummary ==
    /\ pc = "polled"
    /\ thread' = IF thread = Null THEN NewThread
                 ELSE [thread EXCEPT !.lastDate = answer.lastDate, !.lastHash = answer.lastHash,
                                     !.unread = answer.unread]
    /\ fetchQueued' = (fetchQueued \/ WorthFetching)
    /\ baseline' = IF thread = Null /\ answer.unread = 0 THEN answer.length ELSE baseline
    /\ pc' = "idle"
    /\ answer' = Null
    /\ UNCHANGED <<clock, zzap, mappings, crashes, imported, shadowed, unrecorded, late, swept>>

\* A poll fails before, or while it goes through the threads of the answer: the
\* transaction is rolled back, the fetches it queued stay.
PollFails ==
    /\ pc = "polled"
    /\ fetchQueued' \in {fetchQueued, fetchQueued \/ WorthFetching}
    /\ pc' = "idle"
    /\ answer' = Null
    /\ UNCHANGED <<clock, zzap, thread, mappings, crashes, history>>

---------------------------------------------------------------------------
(* Thread fetch and import *)

Item(k, position, flags) ==
    [index |-> k, position |-> position, date |-> log[k].date, text |-> log[k].text, from |-> log[k].from,
     unread |-> IF flags THEN log[k].unread ELSE FALSE]

\* ZZap may list a thread from either end, and may leave out the unread flags.
FetchMessages ==
    /\ pc = "idle"
    /\ fetchQueued
    /\ thread # Null
    /\ fetchQueued' = FALSE
    /\ pc' = "fetched"
    /\ \E newestFirst \in BOOLEAN, flags \in {TRUE, ~FlagsMayMiss} :
        answer' = [items |-> {Item(k, IF newestFirst THEN -k ELSE k, flags) : k \in DOMAIN log}]
    /\ UNCHANGED <<clock, zzap, thread, mappings, crashes, history>>

SkipUnknownThread ==
    /\ pc = "idle"
    /\ fetchQueued
    /\ thread = Null
    /\ fetchQueued' = FALSE
    /\ UNCHANGED <<clock, zzap, thread, mappings, pc, answer, crashes, history>>

BugBefore(a, b) == a.position < b.position

\* Chronological; equal dates in the order of the answer.
Before(a, b) == a.date < b.date \/ (a.date = b.date /\ a.position < b.position)

InOrder(items) ==
    [n \in 1 .. Cardinality(items) |->
        CHOOSE i \in items : Cardinality({j \in items : Before(j, i)}) = n - 1]

Near(s, t) == s - t <= Tolerance /\ t - s <= Tolerance

BugIsEcho(item) == FALSE

IsEcho(item) ==
    \E m \in mappings :
        /\ m.direction = "outbound" /\ m.status = "succeeded"
        /\ m.hash = item.text
        /\ Near(item.date, m.date) \/ Near(item.date, m.created)

IsGuard(item, state) == state.guard \in {item.text, FingerprintOf(item)}

BugBehindCursor(item, state) == IsGuard(item, state)

\* should_import_zzap_message, negated, without the test of known fingerprints.
BehindCursor(item, state) ==
    IF state.cursor = Null THEN IsGuard(item, state)
    ELSE \/ item.date < state.cursor
         \/ item.date = state.cursor /\ IsGuard(item, state)

\* With no cursor and no unread flags, the last unread_count messages count as new.
Fallback(items) ==
    IF thread.cursor # Null \/ thread.unread = 0 \/ \E i \in DOMAIN items : items[i].unread
    THEN {}
    ELSE {FingerprintOf(items[i]) : i \in {i \in DOMAIN items : i > Len(items) - thread.unread}}

BugKnown(item, state) == FALSE

Known(item, state) == FingerprintOf(item) \in state.known

Importable(item, state, fallback) ==
    /\ ~Known(item, state)
    /\ ~BehindCursor(item, state)
    /\ ~IsEcho(item)
    /\ state.cursor # Null \/ item.unread \/ FingerprintOf(item) \in fallback

ImportOne(item, state) ==
    [known |-> state.known \cup {FingerprintOf(item)}, cursor |-> item.date,
     guard |-> FingerprintOf(item), new |-> state.new \cup {item}]

\* The loop of _persist_thread_messages over the sorted items: run[n] is the state
\* after the n-th of them.
ImportRun(items) ==
    LET start == [known |-> {m.fingerprint : m \in mappings}, cursor |-> thread.cursor,
                  guard |-> thread.guard, new |-> {}]
        run[n \in 0 .. Len(items)] ==
            IF n = 0 THEN start
            ELSE IF Importable(items[n], run[n - 1], Fallback(items)) THEN ImportOne(items[n], run[n - 1])
            ELSE run[n - 1]
    IN  run

Import(items) == ImportRun(items)[Len(items)]

NewMapping(fingerprint, direction, status, hash, date, created) ==
    [fingerprint |-> fingerprint, direction |-> direction, status |-> status, hash |-> hash,
     date |-> date, created |-> created]

\* Insert on conflict do nothing.
Insert(rows, row) ==
    IF \E m \in rows : m.fingerprint = row.fingerprint THEN rows ELSE rows \cup {row}

PersistMessages ==
    /\ pc = "fetched"
    /\ LET done == Import(InOrder(answer.items)) IN
        /\ thread' = [thread EXCEPT !.cursor = done.cursor, !.guard = done.guard]
        /\ mappings' = mappings \cup
             {NewMapping(FingerprintOf(i), "inbound", "pending", i.text, i.date, clock) : i \in done.new}
        /\ imported' = [k \in DOMAIN imported |->
                          IF \E i \in done.new : i.index = k THEN imported[k] + 1 ELSE imported[k]]
        /\ shadowed' = shadowed \cup {i.index : i \in {i \in answer.items : IsEcho(i)}}
        /\ baseline' = IF thread.cursor = Null /\ done.cursor # Null THEN Cardinality(answer.items) ELSE baseline
    /\ pc' = "idle"
    /\ answer' = Null
    /\ UNCHANGED <<clock, zzap, fetchQueued, crashes, unrecorded, late, swept>>

\* An error in a fetch queues the thread again.
FetchFails ==
    /\ pc = "fetched"
    /\ fetchQueued' = TRUE
    /\ pc' = "idle"
    /\ answer' = Null
    /\ UNCHANGED <<clock, zzap, thread, mappings, crashes, history>>

---------------------------------------------------------------------------
(* Jobs, as far as this thread sees them *)

\* The inbound job of a mapping is closed (SyncJobs says how).
CloseInbound ==
    /\ pc = "idle"
    /\ \E m \in mappings, status \in {"succeeded", "failed"} :
        /\ m.status = "pending"
        /\ mappings' = (mappings \ {m}) \cup {[m EXCEPT !.status = status]}
    /\ UNCHANGED <<clock, zzap, thread, fetchQueued, pc, answer, crashes, history>>

\* The attempt begins; downloads and uploads come before the message.
BeginSend ==
    /\ pc = "idle"
    /\ thread # Null
    /\ \E o \in outbox : answer' = [job |-> o, began |-> clock, index |-> Null]
    /\ pc' = "sending"
    /\ UNCHANGED <<clock, zzap, thread, mappings, fetchQueued, crashes, history>>

\* ZZap dates the message with the date it is given, or with its own clock.
SendMessage ==
    /\ pc = "sending"
    /\ Len(log) < MaxLog
    /\ \E date \in {clock, answer.job.at} :
        /\ log' = Append(log, Message(date, answer.job.text, "operator"))
        /\ late' = IF Near(date, answer.began) \/ Near(date, answer.job.at) THEN late
                   ELSE late \cup {Len(log) + 1}
    /\ pc' = "sent"
    /\ answer' = [answer EXCEPT !.index = Len(log) + 1]
    /\ unrecorded' = unrecorded \cup {Len(log) + 1}
    /\ UNCHANGED <<clock, outbox, written, thread, mappings, fetchQueued, crashes,
                   imported, shadowed, baseline, swept>>

\* The mapping of an outbound message has the thread's key as its sender, and the date
\* as the webhook wrote it, in ZZap's zone or in another.
RecordSent ==
    /\ pc = "sent"
    /\ \E sender \in {"customer", "nobody"} :
        LET row == NewMapping(Fingerprint(sender, answer.job.at, answer.job.text), "outbound",
                              "succeeded", answer.job.text, answer.job.at, answer.began) IN
        /\ mappings' = Insert(mappings, row)
        /\ unrecorded' = IF row \in mappings' THEN unrecorded \ {answer.index} ELSE unrecorded
    /\ outbox' = outbox \ {answer.job}
    /\ pc' = "idle"
    /\ answer' = Null
    /\ UNCHANGED <<clock, log, written, thread, fetchQueued, crashes, imported, shadowed, late, baseline, swept>>

\* The attempt fails, or its answer is lost: the job fails for now, or for good.
SendFails ==
    /\ pc \in {"sending", "sent"}
    /\ outbox' \in {outbox, outbox \ {answer.job}}
    /\ pc' = "idle"
    /\ answer' = Null
    /\ UNCHANGED <<clock, log, written, thread, mappings, fetchQueued, crashes, history>>

---------------------------------------------------------------------------
(* Cleanup, crash, time *)

Expired(m) ==
    \/ m.status = "succeeded" /\ m.created < clock - Retention
    \/ m.status = "failed" /\ m.created < clock - FailedRetention

Cleanup ==
    /\ pc = "idle"
    /\ \E m \in mappings : Expired(m)
    /\ mappings' = {m \in mappings : ~Expired(m)}
    /\ swept' = TRUE
    /\ UNCHANGED <<clock, zzap, thread, fetchQueued, pc, answer, crashes,
                   imported, shadowed, unrecorded, late, baseline>>

\* The in-memory queue is lost with the process.
Crash ==
    /\ pc # "down"
    /\ crashes < MaxCrashes
    /\ crashes' = crashes + 1
    /\ pc' = "down"
    /\ fetchQueued' = FALSE
    /\ answer' = Null
    /\ UNCHANGED <<clock, zzap, thread, mappings, history>>

Restart ==
    /\ pc = "down"
    /\ pc' = "idle"
    /\ UNCHANGED <<clock, zzap, thread, mappings, fetchQueued, answer, crashes, history>>

Tick ==
    /\ clock < MaxTime
    /\ clock' = clock + 1
    /\ UNCHANGED <<zzap, thread, mappings, fetchQueued, pc, answer, crashes, history>>

Init ==
    /\ clock = 0
    /\ log = <<>>
    /\ outbox = {}
    /\ written = 0
    /\ thread = Null
    /\ mappings = {}
    /\ fetchQueued = FALSE
    /\ pc = "idle"
    /\ answer = Null
    /\ crashes = 0
    /\ imported = [k \in 1 .. MaxLog |-> 0]
    /\ shadowed = {}
    /\ unrecorded = {}
    /\ late = {}
    /\ baseline = 0
    /\ swept = FALSE

Worker ==
    \/ ListThreads \/ ProcessSummary \/ PollFails
    \/ FetchMessages \/ SkipUnknownThread \/ PersistMessages \/ FetchFails
    \/ CloseInbound \/ Cleanup
    \/ BeginSend \/ SendMessage \/ RecordSent \/ SendFails

Next ==
    \/ CustomerWrites \/ ThreadIsRead \/ OperatorWrites
    \/ Worker \/ Crash \/ Restart \/ Tick

Spec == Init /\ [][Next]_vars

\* What PersistMessages does to the worker, and no other step does.
FetchSucceeds == pc = "fetched" /\ pc' = "idle" /\ fetchQueued' = fetchQueued

\* The worker keeps iterating and restarts after a crash; the fetch queue is first
\* in, first out, so a queued fetch gets its turn; ZZap does not fail forever.
Fairness ==
    /\ WF_vars(Restart)
    /\ SF_vars(ListThreads) /\ SF_vars(ProcessSummary)
    /\ SF_vars(FetchMessages) /\ SF_pc(FetchSucceeds)
    /\ WF_vars(RecordSent \/ SendFails)

FairSpec == Spec /\ Fairness

---------------------------------------------------------------------------
(* Properties *)

Messages == [date : Nat, text : Texts, from : Senders, unread : BOOLEAN]

Mappings ==
    [fingerprint : Fingerprints, direction : {"inbound", "outbound"},
     status : {"pending", "succeeded", "failed"}, hash : Texts, date : Nat, created : Nat]

Jobs == [text : Texts, at : Nat]
Summaries == [lastDate : Nat, lastHash : Texts, unread : Nat, length : Nat]
Items == [index : Nat, position : Int, date : Nat, text : Texts, from : Senders, unread : BOOLEAN]
Sendings == [job : Jobs, began : Nat, index : Nat \cup {Null}]

\* The worker holds the answer that belongs to its place, and what it is about to
\* import is what ZZap has: the first messages of the thread, each one once.
AnswerOK ==
    /\ pc \in {"idle", "down"} => answer = Null
    /\ pc = "polled" => answer \in Summaries /\ answer.length <= Len(log)
    /\ pc = "fetched" =>
        /\ thread # Null
        /\ answer.items \subseteq Items /\ IsFiniteSet(answer.items)
        /\ {i.index : i \in answer.items} = 1 .. Cardinality(answer.items)
        /\ \A i \in answer.items :
            /\ i.index <= Len(log)
            /\ FingerprintOf(i) = FingerprintOf(log[i.index])
            /\ \A j \in answer.items : i.index = j.index \/ i.position = j.position => i = j
    /\ pc \in {"sending", "sent"} => answer \in Sendings /\ thread # Null
    /\ pc = "sent" => answer.index \in DOMAIN log

\* The state is well formed: nothing is dated in the future, a cursor comes with a
\* guard, and a message has one mapping.
TypeOK ==
    /\ clock \in Nat /\ written \in Nat /\ crashes \in Nat /\ baseline \in Nat
    /\ log \in Seq(Messages) /\ Len(log) <= MaxLog
    /\ \A k \in DOMAIN log : log[k].date <= clock
    /\ outbox \subseteq Jobs
    /\ \A o \in outbox : o.at <= clock
    /\ thread \in Threads \cup {Null}
    /\ thread # Null => (thread.cursor = Null <=> thread.guard = Null)
    /\ mappings \subseteq Mappings
    /\ \A m \in mappings : m.created <= clock
    /\ \A m, n \in mappings : m.fingerprint = n.fingerprint => m = n
    /\ fetchQueued \in BOOLEAN /\ swept \in BOOLEAN
    /\ pc \in {"idle", "polled", "fetched", "sending", "sent", "down"}
    /\ AnswerOK
    /\ imported \in [1 .. MaxLog -> Nat]
    /\ shadowed \subseteq DOMAIN log /\ unrecorded \subseteq DOMAIN log /\ late \subseteq DOMAIN log

\* The cursor never moves back, in whatever order ZZap lists the messages
\* (jobs.py:876, repositories.py:168).
CursorMonotone ==
    [][thread # Null /\ thread.cursor # Null => thread'.cursor >= thread.cursor]_vars

\* The cursor never passes a customer's message that came after the first cursor
\* and was not imported; only the echo test drops such a message
\* (inbound.py:45-63, jobs.py:716-748).
NoneSkipped ==
    thread # Null /\ thread.cursor # Null =>
        \A k \in baseline + 1 .. Len(log) :
            log[k].from = "customer" /\ log[k].date < thread.cursor =>
                imported[k] > 0 \/ k \in shadowed

\* Without a crash, a customer's message that is not imported yet is on its way: a
\* fetch is queued or running, or the next poll will see a difference.  The
\* exception are twins, two messages of one second and text around it, which make
\* the summary look as it did before (jobs.py:636-690, 811-824, 414-416).
OnItsWay ==
    \/ fetchQueued \/ pc = "fetched" \/ UnreadCount > 0
    \/ <<thread.lastDate, thread.lastHash, thread.unread>> #
       <<LastMessage.date, LastMessage.text, UnreadCount>>

BetweenTwins(k) ==
    \E i, j \in DOMAIN log :
        i < k /\ k <= j /\ log[i].date = log[j].date /\ log[i].text = log[j].text

NothingForgotten ==
    crashes = 0 /\ thread # Null /\ thread.cursor # Null =>
        \A k \in baseline + 1 .. Len(log) :
            /\ log[k].from = "customer" /\ imported[k] = 0 /\ k \notin shadowed
            /\ ~BetweenTwins(k)
            => OnItsWay

\* A message is imported again only when a cleanup has deleted its mapping and
\* another message bears the same second (jobs.py:700-704, cleanup.py:34-47).
ReimportExplained ==
    \A k \in DOMAIN log : imported[k] > 1 =>
        swept /\ \E i \in DOMAIN log \ {k} : log[i].date = log[k].date

\* The operator's own message comes back as a customer's only if its send was
\* never recorded (the attempt broke off, or the row met a customer's message with
\* its fingerprint), or came long after its attempt began, or a cleanup deleted the
\* record (jobs.py:726-727, 779-793, repositories.py:347-363).
EchoExplained ==
    \A k \in DOMAIN log : log[k].from = "operator" /\ imported[k] > 0 =>
        k \in unrecorded \/ k \in late \/ swept

\* A customer's message that stays unread is imported in the end, crashes
\* notwithstanding, unless it looks like an echo (jobs.py:688-689).
UnreadArrives ==
    \A k \in 1 .. MaxLog :
        k \in DOMAIN log /\ log[k].unread ~> k \in DOMAIN log /\ (imported[k] > 0 \/ ~log[k].unread \/ k \in shadowed)

---------------------------------------------------------------------------
(* What documents and tests say, and the code does not do *)

\* "outbound echo is not imported as inbound message" (test_job_retry.py:453): a
\* send that was recorded in time stays out of Chatwoot.
RecordedEchoStaysOut ==
    \A k \in DOMAIN log :
        log[k].from = "operator" /\ k \notin unrecorded \cup late => imported[k] = 0

\* "Threads with unread_count > 0 are treated as current unread work and imported"
\* (design spec, line 148): what was there when the thread got its first cursor,
\* and is unread still, was imported.
BootstrapImportsUnread ==
    thread # Null /\ thread.cursor # Null =>
        \A k \in 1 .. baseline : log[k].unread => imported[k] > 0

\* The same sentence, of messages that the worker will never look at again: the first
\* import leaves no unread message behind the cursor, where should_import_zzap_message
\* drops it for good (jobs.py:756-767, inbound.py:55-63).
UnreadNotPassed ==
    thread # Null /\ thread.cursor # Null =>
        \A k \in 1 .. baseline : log[k].unread /\ log[k].date < thread.cursor => imported[k] > 0

=============================================================================
