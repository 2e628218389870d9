--------------------------- MODULE ZZapScheduler ---------------------------
(* The worker's traffic with ZZap: the in-memory queue of polling actions, the
   rate limiter that every call goes through, the hold-off after an error, the
   retry of failed fetches, and the jobs that send to ZZap past the queue.
   Source: app/workers/zzap_scheduler.py, app/workers/rate_limit.py and the
   iteration of app/workers/jobs.py.

   Instants are kept as ages: scheduledAgo, finishedAgo and began say how long ago
   a thing happened, holdOff how long it lasts yet.  An age stops at the largest
   value anything is compared with.  Which job is claimed is SyncJobs' subject,
   what a fetch imports is ThreadSync's; here an outbound job is an attempt that
   makes some calls, and a fetch one that reads some pages.  *)
EXTENDS Integers, FiniteSets, SequencesExt

CONSTANTS
    Threads, Attempts,     \* threads of ZZap; attempts of jobs that send to it
    Summary, Null,
    Interval,              \* three seconds, for the limiter and for the polls
    ErrorPause, LimitedPause, DeniedPause,   \* 30, 60 and 300 seconds
    MaxCalls,              \* bound on the pages of a fetch, and on uploads and send
    MaxCrashes             \* bound on restarts of the worker

ASSUME SchedulerAssumption ==
    /\ IsFiniteSet(Threads)      \* an answer of ZZap names finitely many
    /\ Summary \notin Threads \cup Attempts /\ Threads \cap Attempts = {}
    /\ Null \notin Threads \cup Attempts \cup {Summary} /\ Null \notin Int
    /\ Interval \in Nat \ {0} /\ MaxCalls \in Nat \ {0} /\ MaxCrashes \in Nat
    /\ ErrorPause \in Nat /\ LimitedPause \in Nat /\ DeniedPause \in Nat

Actions == Threads \cup {Summary}
Errors == {"error", "limited", "denied"}

VARIABLES
    queue,            \* _queue of ZZapActionQueue
    pendingSummary,   \* _pending_summary
    pendingFetches,   \* _pending_thread_fetches
    scheduledAgo,     \* age of _last_summary_scheduled_at, or Null
    holdOff,          \* time until _summary_not_before, 0 when it is past or unset
    finishedAgo,      \* age of the limiter's last_request_finished_at, or Null
    worker,           \* where the iteration is, and with what
    due,              \* attempts of outbound jobs that may be claimed
    stored,           \* threads that have a row
    authFailed,       \* zzap_auth_failed in service_state
    crashes,
    quiet,            \* history: time since a call of this process ended, or Null
    owed,             \* history: threads whose fetch a committed summary asked for
    verdict           \* history: what the last telling answer of ZZap said of the key

memory == <<queue, pendingSummary, pendingFetches, scheduledAgo, holdOff, finishedAgo>>
history == <<quiet, owed, verdict>>
vars == <<memory, worker, due, stored, authFailed, crashes, history>>

AtTop == [pc |-> "top", op |-> Null, left |-> 0, began |-> 0, error |-> "none"]

\* _zzap_poll_backoff_seconds
Pause(error) ==
    CASE error = "denied" -> DeniedPause
      [] error = "limited" -> LimitedPause
      [] error = "error" -> ErrorPause

MaxPause == Max({ErrorPause, LimitedPause, DeniedPause})

---------------------------------------------------------------------------
(* Limiter and queue *)

SlotFree == finishedAgo # Null => finishedAgo >= Interval

BugMarkFinished == finishedAgo' = IF worker.op = Summary THEN 0 ELSE finishedAgo

MarkFinished == finishedAgo' = 0

EnqueueSummary ==
    /\ queue' = IF pendingSummary THEN queue ELSE Append(queue, Summary)
    /\ pendingSummary' = TRUE

BugEnqueueFetches(threads) ==
    /\ \E order \in SetToSeqs(threads) : queue' = queue \o order
    /\ pendingFetches' = pendingFetches \cup threads

\* enqueue_thread_fetch for each of the threads, in whatever order they come.
EnqueueFetches(threads) ==
    /\ \E order \in SetToSeqs(threads \ pendingFetches) : queue' = queue \o order
    /\ pendingFetches' = pendingFetches \cup threads

SummaryDue == holdOff = 0 /\ (scheduledAgo = Null \/ scheduledAgo >= Interval)

\* delay_summary_until, counted from the instant the action was popped.
HoldOffAfter(error) == Max({holdOff, Pause(error) - worker.began})

---------------------------------------------------------------------------
(* The iteration: first a job *)

\* A webhook's job, a retry, or a job whose lock is stale becomes due, any number of
\* times.
Submit(a) ==
    /\ a \notin due
    /\ worker.op # a
    /\ due' = due \cup {a}
    /\ UNCHANGED <<memory, worker, stored, authFailed, crashes, history>>

BugClaimed(a) == due

Claimed(a) == due \ {a}

\* Uploads, then the send: each a call.
ClaimOutbound(a) ==
    /\ worker.pc = "top"
    /\ a \in due
    /\ due' = Claimed(a)
    /\ \E calls \in 1 .. MaxCalls :
        worker' = [AtTop EXCEPT !.pc = "wait", !.op = a, !.left = calls]
    /\ UNCHANGED <<memory, stored, authFailed, crashes, history>>

\* Nothing is claimed, or a job that does not call ZZap.
ClaimOther ==
    /\ worker.pc = "top"
    /\ worker' = [worker EXCEPT !.pc = "schedule"]
    /\ UNCHANGED <<memory, due, stored, authFailed, crashes, history>>

\* A read-only thread, or a file that cannot be had from Chatwoot.
LeaveOutbound ==
    /\ worker.pc = "wait"
    /\ worker.op \in Attempts
    /\ worker' = [AtTop EXCEPT !.pc = "schedule"]
    /\ UNCHANGED <<memory, due, stored, authFailed, crashes, history>>

(* ... then the poll is scheduled, and one action taken *)

Schedule ==
    /\ worker.pc = "schedule"
    /\ IF SummaryDue
       THEN /\ EnqueueSummary
            /\ scheduledAgo' = IF pendingSummary THEN scheduledAgo ELSE 0
       ELSE UNCHANGED <<queue, pendingSummary, scheduledAgo>>
    /\ worker' = [worker EXCEPT !.pc = "act"]
    /\ UNCHANGED <<pendingFetches, holdOff, finishedAgo, due, stored, authFailed, crashes, history>>

MayPop == SlotFree /\ holdOff = 0 /\ queue # <<>>

NoAction ==
    /\ worker.pc = "act"
    /\ ~MayPop
    /\ worker' = AtTop
    /\ UNCHANGED <<memory, due, stored, authFailed, crashes, history>>

\* A fetch of a thread whose row was never committed ends at once.
PopNext ==
    /\ worker.pc = "act"
    /\ MayPop
    /\ queue' = Tail(queue)
    /\ pendingSummary' = (pendingSummary /\ Head(queue) # Summary)
    /\ pendingFetches' = pendingFetches \ {Head(queue)}
    /\ IF Head(queue) \in Threads \ stored
       THEN worker' = AtTop
       ELSE \E calls \in 1 .. MaxCalls :
                worker' = [AtTop EXCEPT !.pc = "wait", !.op = Head(queue),
                                        !.left = IF Head(queue) = Summary THEN 1 ELSE calls]
    /\ UNCHANGED <<scheduledAgo, holdOff, finishedAgo, due, stored, authFailed, crashes, history>>

---------------------------------------------------------------------------
(* Calls *)

\* A summary poll was popped with the slot free; everything else waits for it.
BeginCall ==
    /\ worker.pc = "wait"
    /\ worker.op = Summary \/ SlotFree
    /\ worker' = [worker EXCEPT !.pc = "calling"]
    /\ UNCHANGED <<memory, due, stored, authFailed, crashes, history>>

Ended ==
    /\ worker.pc = "calling"
    /\ MarkFinished
    /\ quiet' = 0

CallAnswered ==
    /\ Ended
    /\ IF worker.left > 1
       THEN worker' = [worker EXCEPT !.pc = "wait", !.left = @ - 1] /\ UNCHANGED verdict
       ELSE worker' = [worker EXCEPT !.pc = "answered", !.left = 0] /\ verdict' = "accepted"
    /\ UNCHANGED <<queue, pendingSummary, pendingFetches, scheduledAgo, holdOff, due, stored, authFailed,
                   crashes, owed>>

\* An error status, a time-out, a lost connection, or an empty page too early.
CallFails ==
    /\ Ended
    /\ \E error \in Errors :
        /\ worker' = [worker EXCEPT !.pc = "failed", !.error = error]
        /\ verdict' = IF error = "denied" THEN "denied" ELSE verdict
    /\ UNCHANGED <<queue, pendingSummary, pendingFetches, scheduledAgo, holdOff, due, stored, authFailed,
                   crashes, owed>>

---------------------------------------------------------------------------
(* Outcomes *)

\* The summary names the threads that are worth a fetch; their rows are committed.
FinishSummary ==
    /\ worker.pc = "answered"
    /\ worker.op = Summary
    /\ \E threads \in SUBSET Threads :
        /\ EnqueueFetches(threads)
        /\ stored' = stored \cup threads
        /\ owed' = owed \cup threads
    /\ authFailed' = FALSE
    /\ worker' = AtTop
    /\ UNCHANGED <<pendingSummary, scheduledAgo, holdOff, finishedAgo, due, crashes, quiet, verdict>>

BugClearedByFetch == authFailed

ClearedByFetch == FALSE

FinishFetch ==
    /\ worker.pc = "answered"
    /\ worker.op \in Threads
    /\ owed' = owed \ {worker.op}
    /\ authFailed' = ClearedByFetch
    /\ worker' = AtTop
    /\ UNCHANGED <<memory, due, stored, crashes, quiet, verdict>>

FinishOutbound ==
    /\ worker.pc = "answered"
    /\ worker.op \in Attempts
    /\ authFailed' = FALSE
    /\ worker' = [AtTop EXCEPT !.pc = "schedule"]
    /\ UNCHANGED <<memory, due, stored, crashes, history>>

\* The transaction after the answer fails; the fetches that a summary has queued
\* by then stay queued, without their rows.  The text of the error may look like one
\* of ZZap's about its limit.
SaveFails ==
    /\ worker.pc = "answered"
    /\ worker.op \in Actions
    /\ \E error \in {"error", "limited"} : worker' = [worker EXCEPT !.pc = "failed", !.error = error]
    /\ verdict' = "unsaved"
    /\ \E threads \in SUBSET Threads :
        /\ worker.op # Summary => threads = {}
        /\ EnqueueFetches(threads)
    /\ UNCHANGED <<pendingSummary, scheduledAgo, holdOff, finishedAgo, due, stored, authFailed, crashes,
                   quiet, owed>>

\* /ready, as far as ZZap is concerned and while the database answers.
Ready == ~authFailed

AuthAfterError == authFailed \/ worker.error = "denied"

BugForget == UNCHANGED <<queue, pendingFetches>>
BugRequeueFirst ==
    IF worker.op = Summary
    THEN UNCHANGED <<queue, pendingFetches>>
    ELSE /\ queue' = <<worker.op>> \o queue
         /\ pendingFetches' = pendingFetches \cup {worker.op}

\* A failed fetch goes to the end of the queue; a failed poll comes back when due.
Requeue ==
    IF worker.op = Summary THEN UNCHANGED <<queue, pendingFetches>> ELSE EnqueueFetches({worker.op})

ActionFails ==
    /\ worker.pc = "failed"
    /\ worker.op \in Actions
    /\ Requeue
    /\ holdOff' = HoldOffAfter(worker.error)
    /\ authFailed' = AuthAfterError
    /\ worker' = AtTop
    /\ UNCHANGED <<pendingSummary, scheduledAgo, finishedAgo, due, stored, crashes, history>>

OutboundFails ==
    /\ worker.pc = "failed"
    /\ worker.op \in Attempts
    /\ authFailed' = AuthAfterError
    /\ worker' = [AtTop EXCEPT !.pc = "schedule"]
    /\ UNCHANGED <<memory, due, stored, crashes, history>>

\* The process dies, or a transaction outside the handlers fails; the new one
\* starts with an empty queue and a limiter that has seen no request.
Crash ==
    /\ crashes < MaxCrashes
    /\ crashes' = crashes + 1
    /\ queue' = <<>> /\ pendingSummary' = FALSE /\ pendingFetches' = {}
    /\ scheduledAgo' = Null /\ holdOff' = 0 /\ finishedAgo' = Null
    /\ worker' = AtTop
    /\ quiet' = Null /\ owed' = {}
    /\ verdict' = IF worker.pc \in {"answered", "failed"} THEN "unsaved" ELSE verdict
    /\ UNCHANGED <<due, stored, authFailed>>

---------------------------------------------------------------------------
(* Time *)

Aged(age, limit) == IF age = Null THEN Null ELSE Min({age + 1, limit})

\* Between Schedule and the pop the code awaits nothing: their two readings of the
\* clock count as one instant.
Tick ==
    /\ worker.pc # "act"
    /\ scheduledAgo' = Aged(scheduledAgo, Interval)
    /\ finishedAgo' = Aged(finishedAgo, Interval)
    /\ quiet' = Aged(quiet, Interval)
    /\ holdOff' = Max({0, holdOff - 1})
    /\ worker' = [worker EXCEPT !.began = IF worker.op \in Actions THEN Aged(@, MaxPause) ELSE 0]
    /\ UNCHANGED <<queue, pendingSummary, pendingFetches, due, stored, authFailed, crashes, owed, verdict>>

---------------------------------------------------------------------------
Init ==
    /\ queue = <<>> /\ pendingSummary = FALSE /\ pendingFetches = {}
    /\ scheduledAgo = Null /\ holdOff = 0 /\ finishedAgo = Null
    /\ worker = AtTop
    /\ due = {}
    /\ stored = {}
    /\ authFailed = FALSE
    /\ crashes = 0
    /\ quiet = Null /\ owed = {}
    /\ verdict = "none"

Job == ClaimOther \/ LeaveOutbound \/ FinishOutbound \/ OutboundFails \/ \E a \in Attempts : ClaimOutbound(a)

Polling ==
    \/ Schedule \/ NoAction \/ PopNext
    \/ FinishSummary \/ FinishFetch \/ SaveFails \/ ActionFails

Call == BeginCall \/ CallAnswered \/ CallFails

Next == (\E a \in Attempts : Submit(a)) \/ Job \/ Polling \/ Call \/ Crash \/ Tick

Spec == Init /\ [][Next]_vars

\* Every call and every transaction of the iteration has a timeout, and the loop
\* runs again at once or after a second; the clock does not stop.
Fairness == WF_vars(Job \/ Polling \/ Call) /\ SF_vars(Tick)

FairSpec == Spec /\ Fairness

---------------------------------------------------------------------------
(* Properties *)

\* The state is well formed, and the worker has an error exactly when a call or a
\* transaction has failed.
TypeOK ==
    /\ queue \in Seq(Actions)
    /\ pendingSummary \in BOOLEAN /\ pendingFetches \subseteq Threads
    /\ scheduledAgo \in 0 .. Interval \cup {Null}
    /\ finishedAgo \in 0 .. Interval \cup {Null} /\ quiet \in 0 .. Interval \cup {Null}
    /\ holdOff \in 0 .. MaxPause
    /\ worker \in [pc : {"top", "schedule", "act", "wait", "calling", "answered", "failed"},
                   op : Actions \cup Attempts \cup {Null}, left : 0 .. MaxCalls, began : 0 .. MaxPause,
                   error : Errors \cup {"none"}]
    /\ worker.error # "none" <=> worker.pc = "failed"
    /\ worker.op # Null <=> worker.pc \in {"wait", "calling", "answered", "failed"}
    /\ due \subseteq Attempts /\ worker.op \notin due
    /\ stored \subseteq Threads /\ owed \subseteq Threads
    /\ authFailed \in BOOLEAN /\ crashes \in 0 .. MaxCrashes
    /\ verdict \in {"none", "accepted", "denied", "unsaved"}

\* At most one pending poll and one pending fetch per thread: what the flags say is
\* pending is in the queue, once each, through pops, failures and retries
\* (zzap_scheduler.py:29-69).
PendingMatchesQueue ==
    /\ Range(queue) = pendingFetches \cup (IF pendingSummary THEN {Summary} ELSE {})
    /\ \A i, j \in DOMAIN queue : queue[i] = queue[j] => i = j

\* No call begins sooner than the interval after the last one of the process ended,
\* whoever makes them and however they end (jobs.py:87-144, 326-385).
Spaced ==
    [][worker.pc # "calling" /\ worker'.pc = "calling" => quiet = Null \/ quiet >= Interval]_vars

\* A fetch that a committed summary asked for is queued or under way until it is
\* done, in spite of errors of ZZap and of the database (jobs.py:414-416).
FetchesOwed == owed \subseteq pendingFetches \cup {worker.op}

\* Between two actions /ready says what the last telling answer of ZZap
\* said of the key: 401, or a success whose transaction was committed
\* (jobs.py:334-345, 392-399, 418-424, 573-602, 961-980).
AuthFlagCurrent ==
    worker.op = Null =>
        /\ verdict = "denied" => ~Ready
        /\ verdict = "accepted" => Ready

JobsEnd == <>[](worker.op \notin Attempts)

\* Polls go on while the process lives, though a fetch may fail each time; only jobs
\* without end, which go first, can keep them back (jobs.py:270-303, 414-424,
\* zzap_scheduler.py:33-68).
PollsGoOn == JobsEnd => []<>(worker.op = Summary /\ worker.pc = "calling")

\* A queued fetch gets its turn on the same condition, or is lost with the process
\* (zzap_scheduler.py:51-68).
FetchesRun == JobsEnd => \A t \in Threads : t \in pendingFetches ~> t \notin pendingFetches

=============================================================================
