----------------------------- MODULE PollHealth -----------------------------
(* The durable health of the summary poll: the state in the worker's memory, its
   row in service_state, the two tasks that change and save it (the worker, with
   the attempts and results of polls, and the monitor, with the passing of the
   threshold), and the metrics exporter of the web process, which serves the row
   through a snapshot.  Source: app/services/poll_health.py, app/api/metrics.py.

   Instants are values of one clock, 0 stands for None.  What only describes the
   last attempt (its time, status, error category) is left out: nothing reads it.
   consecutive_failures is positive exactly while failure_since is set, so since
   stands for both, and closed for the start of last_incident. *)
EXTENDS Integers

CONSTANTS
    Null,
    Interval,    \* three seconds between an answer of ZZap and the next call
    Threshold,   \* zzap_poll_degraded_seconds
    Patience,    \* five seconds: the time-out of a record or an observation, and
                 \* the pause of the monitor after one that failed
    CacheFor,    \* metrics_cache_seconds
    MaxTime, MaxFaults, MaxCrashes   \* bounds

Instants == 0 .. MaxTime
States ==
    [init : Instants, success : Instants, since : Instants, incident : Instants, degraded : BOOLEAN,
     closed : Instants]

ASSUME HealthAssumption ==
    /\ Interval \in Nat /\ Threshold \in Nat \ {0} /\ Patience \in Nat \ {0} /\ CacheFor \in Nat
    /\ MaxTime \in Nat \ {0} /\ MaxFaults \in Nat /\ MaxCrashes \in Nat
    /\ Null \notin States

VARIABLES
    clock,
    memory,       \* state of the worker's PollHealth, Null while there is none
    dirty,        \* its dirty flag
    retryAfter,   \* when the monitor may look again
    row,          \* the row of service_state, or Null
    lock,         \* the asyncio lock: "free" or the task that holds it
    task,         \* the worker's record_... or the monitor's observe in progress
    poll,         \* "none", or a poll "begun" or "sent" to ZZap
    nextCall,     \* when the rate limiter lets the next call through
    snapshot,     \* the exporter's copy of the row
    expires,      \* when the copy is out of date
    faults, crashes,
    answered      \* history: when list_threads last succeeded

web == <<snapshot, expires>>
vars == <<clock, memory, dirty, retryAfter, row, lock, task, poll, nextCall, web, faults, crashes, answered>>

Tasks == {"worker", "monitor"}
AtRest == [pc |-> "rest", does |-> "none", began |-> 0, saves |-> Null]

FirstOf(instants) == IF instants[1] # 0 THEN instants[1] ELSE instants[2]

Fresh == [init |-> clock, success |-> 0, since |-> 0, incident |-> 0, degraded |-> FALSE, closed |-> 0]

---------------------------------------------------------------------------
(* What happens to the state *)

Basis(h) == FirstOf(<<h.success, h.init>>)

\* degraded(): no success for the threshold.
Overdue(h) == Basis(h) # 0 /\ clock - Basis(h) >= Threshold

BugWatched(h) ==
    IF Overdue(h) /\ ~h.degraded
    THEN [h EXCEPT !.degraded = TRUE, !.incident = FirstOf(<<h.incident, h.since>>)]
    ELSE h

\* _transition()
Watched(h) ==
    IF Overdue(h) /\ ~h.degraded
    THEN [h EXCEPT !.degraded = TRUE,
                   !.incident = FirstOf(<<h.incident, FirstOf(<<h.since, Basis(h)>>)>>)]
    ELSE h

BugBroken(h) == h.since # 0

Broken(h) == h.since # 0 \/ h.degraded

Succeeded(h) ==
    [h EXCEPT !.success = clock, !.since = 0, !.incident = 0, !.degraded = FALSE,
              !.closed = IF Broken(h) THEN FirstOf(<<h.incident, FirstOf(<<h.since, Basis(h)>>)>>) ELSE @]

BugIncidentAfterFailure(h) == FirstOf(<<h.since, clock>>)

IncidentAfterFailure(h) == FirstOf(<<h.incident, FirstOf(<<h.since, clock>>)>>)

Failed(h) ==
    Watched([h EXCEPT !.since = FirstOf(<<h.since, clock>>), !.incident = IncidentAfterFailure(h)])

Updated(h, does) ==
    CASE does = "attempt" -> h
      [] does = "success" -> Succeeded(h)
      [] does = "failure" -> Failed(h)
      [] does = "observe" -> Watched(h)

---------------------------------------------------------------------------
(* The worker process *)

Loaded == IF row = Null THEN Fresh ELSE row

\* initialize(): load or create, save, observe, save.
Start ==
    /\ memory = Null
    /\ memory' = Watched(Loaded)
    /\ row' = Watched(Loaded)
    /\ dirty' = FALSE
    /\ retryAfter' = 0
    /\ UNCHANGED <<clock, lock, task, poll, nextCall, web, faults, crashes, answered>>

\* An error of the database ends the process, before or after one of its saves.
StartFails ==
    /\ memory = Null
    /\ faults < MaxFaults
    /\ faults' = faults + 1
    /\ row' \in {row, Loaded, Watched(Loaded)}
    /\ UNCHANGED <<clock, memory, dirty, retryAfter, lock, task, poll, nextCall, web, crashes, answered>>

\* The process dies; a save that is under way may still commit.
Crash ==
    /\ memory # Null
    /\ crashes < MaxCrashes
    /\ crashes' = crashes + 1
    /\ memory' = Null /\ dirty' = FALSE /\ retryAfter' = 0 /\ lock' = "free"
    /\ poll' = "none" /\ nextCall' = 0
    /\ task' = [t \in Tasks |-> AtRest]
    /\ row' \in {row} \cup {task[t].saves : t \in {u \in Tasks : task[u].pc = "save"}}
    /\ UNCHANGED <<clock, web, faults, answered>>

---------------------------------------------------------------------------
(* Changes under the lock *)

BugLockFree == TRUE

LockFree == lock = "free"

\* The values of the statement are taken as soon as the state has changed.
Change(t, does) ==
    /\ LockFree
    /\ memory' = Updated(memory, does)
    /\ lock' = t
    /\ dirty' = TRUE
    /\ task' = [task EXCEPT ![t].pc = "save", ![t].saves = Updated(memory, does),
                            ![t].began = IF task[t].pc = "wait" THEN @ ELSE clock]

\* A free lock is taken at once.
Record(does) ==
    /\ memory # Null
    /\ task["worker"].pc = "rest"
    /\ IF LockFree
       THEN Change("worker", does)
       ELSE /\ task' = [task EXCEPT !["worker"] = [AtRest EXCEPT !.pc = "wait", !.does = does, !.began = clock]]
            /\ UNCHANGED <<memory, lock, dirty>>

BeginPoll ==
    /\ poll = "none"
    /\ clock >= nextCall
    /\ Record("attempt")
    /\ poll' = "begun"
    /\ UNCHANGED <<clock, retryAfter, row, nextCall, web, faults, crashes, answered>>

\* list_threads is called once record_attempt is over, whether it saved or not.
CallZZap ==
    /\ poll = "begun"
    /\ task["worker"].pc = "rest"
    /\ poll' = "sent"
    /\ UNCHANGED <<clock, memory, dirty, retryAfter, row, lock, task, nextCall, web, faults, crashes, answered>>

Answered ==
    /\ poll = "sent"
    /\ poll' = "none"
    /\ nextCall' = clock + Interval

PollSucceeds ==
    /\ Answered
    /\ Record("success")
    /\ answered' = clock
    /\ UNCHANGED <<clock, retryAfter, row, web, faults, crashes>>

PollFails ==
    /\ Answered
    /\ Record("failure")
    /\ UNCHANGED <<clock, retryAfter, row, web, faults, crashes, answered>>

Proceed ==
    /\ task["worker"].pc = "wait"
    /\ Change("worker", task["worker"].does)
    /\ UNCHANGED <<clock, retryAfter, row, poll, nextCall, web, faults, crashes, answered>>

BugWorthSaving == Watched(memory) # memory

\* An observation saves what it changed, or what an earlier save left unsaved.
WorthSaving == Watched(memory) # memory \/ dirty

\* The monitor looks twice a second; while the lock is taken it waits, which is as
\* good as looking later, and without a reason to save it leaves all as it is.
Observe ==
    /\ memory # Null
    /\ task["monitor"].pc = "rest"
    /\ clock >= retryAfter
    /\ WorthSaving
    /\ Change("monitor", "observe")
    /\ UNCHANGED <<clock, retryAfter, row, poll, nextCall, web, faults, crashes, answered>>

---------------------------------------------------------------------------
(* Their save *)

Leaves(t) == task' = [task EXCEPT ![t] = AtRest]

Save(t) ==
    /\ task[t].pc = "save"
    /\ row' = task[t].saves
    /\ dirty' = FALSE
    /\ lock' = "free"
    /\ Leaves(t)
    /\ UNCHANGED <<clock, memory, retryAfter, poll, nextCall, web, faults, crashes, answered>>

Sooner(instant) == IF instant < MaxTime THEN instant ELSE MaxTime

\* After a failure the monitor pauses; the worker goes on with its poll.
PauseOf(t) == retryAfter' = IF t = "monitor" THEN Sooner(clock + Patience) ELSE retryAfter

\* An error or the time-out; the commit may have taken place.
SaveFails(t) ==
    /\ task[t].pc = "save"
    /\ faults < MaxFaults
    /\ faults' = faults + 1
    /\ row' \in {row, task[t].saves}
    /\ lock' = "free"
    /\ Leaves(t)
    /\ PauseOf(t)
    /\ UNCHANGED <<clock, memory, dirty, poll, nextCall, web, crashes, answered>>

\* The time-out strikes while the monitor holds the lock: the result is lost.
GiveUp ==
    /\ task["worker"].pc = "wait"
    /\ ~LockFree
    /\ clock - task["worker"].began >= Patience
    /\ Leaves("worker")
    /\ UNCHANGED <<clock, memory, dirty, retryAfter, row, lock, poll, nextCall, web, faults, crashes, answered>>

---------------------------------------------------------------------------
(* The metrics exporter *)

\* The part of the state that the gauge depends on.
Shown(h) == [init |-> h.init, success |-> h.success, degraded |-> h.degraded]

\* A scrape with a snapshot that is still valid reads nothing; one whose read fails
\* is answered 503 and changes nothing.
Refresh ==
    /\ clock >= expires
    /\ snapshot' = IF row = Null THEN Null ELSE Shown(row)
    /\ expires' = clock + CacheFor
    /\ UNCHANGED <<clock, memory, dirty, retryAfter, row, lock, task, poll, nextCall, faults, crashes, answered>>

BugGauge == snapshot.degraded

\* zzap_poll_degraded as the exporter renders it now.
Gauge == Overdue(snapshot)

---------------------------------------------------------------------------
Busy(t) == task[t].pc # "rest"

\* No record or observation lasts longer than its time-out.
Tick ==
    /\ clock < MaxTime
    /\ \A t \in Tasks : Busy(t) => clock - task[t].began < Patience
    /\ clock' = clock + 1
    /\ UNCHANGED <<memory, dirty, retryAfter, row, lock, task, poll, nextCall, web, faults, crashes, answered>>

Init ==
    /\ clock = 1
    /\ memory = Null /\ dirty = FALSE /\ retryAfter = 0
    /\ row = Null
    /\ lock = "free"
    /\ task = [t \in Tasks |-> AtRest]
    /\ poll = "none" /\ nextCall = 0
    /\ snapshot = Null /\ expires = 0
    /\ faults = 0 /\ crashes = 0
    /\ answered = 0

Polling == BeginPoll \/ CallZZap \/ PollSucceeds \/ PollFails

Recording == Proceed \/ GiveUp \/ (\E t \in Tasks : Save(t) \/ SaveFails(t))

Next == Start \/ StartFails \/ Crash \/ Polling \/ Observe \/ Recording \/ Refresh \/ Tick

Spec == Init /\ [][Next]_vars

\* The event loop runs both tasks; the monitor wakes up again and again, and gets the
\* lock when it is free often enough.  Nothing is assumed of ZZap or of the worker's
\* polls: they may hang.
Fairness ==
    /\ WF_vars(Tick)
    /\ WF_vars(Recording)
    /\ SF_vars(Observe)

FairSpec == Spec /\ Fairness

---------------------------------------------------------------------------
(* Properties *)

Copies == [init : Instants, success : Instants, degraded : BOOLEAN]

\* The state is well formed: an incident has a start when there are failures or an
\* alarm, and a task that saves holds the lock.
TypeOK ==
    /\ clock \in Instants /\ retryAfter \in Instants /\ expires \in 0 .. MaxTime + CacheFor
    /\ memory \in States \cup {Null} /\ row \in States \cup {Null} /\ snapshot \in Copies \cup {Null}
    /\ dirty \in BOOLEAN
    /\ lock \in Tasks \cup {"free"}
    /\ \A t \in Tasks : task[t].pc \in {"rest", "wait", "save"} /\ (task[t].pc = "save" <=> lock = t)
    /\ memory # Null => (memory.since # 0 \/ memory.degraded <=> memory.incident # 0)

\* With two tasks that save the whole state, each at its own time, and saves that
\* fail: when the lock is free and the state counts as clean, the row is the state.
CleanMeansSaved == memory # Null /\ lock = "free" /\ ~dirty => row = memory

\* The start of an incident does not move until a poll succeeds: not by failures
\* after a silence, nor by the alarm after failures, nor by a restart of the worker.
IncidentStable ==
    [][ /\ memory # Null /\ memory' # Null /\ memory.incident # 0 =>
             \/ memory'.incident = memory.incident
             \/ memory'.incident = 0 /\ memory'.success = clock
        /\ memory = Null /\ memory' # Null /\ row # Null /\ row.incident # 0 =>
             memory'.incident = row.incident ]_vars

\* An alarm ends with the record of an incident that has the start announced with it,
\* also when no poll had failed before it.
AlarmIsClosed ==
    [][memory # Null /\ memory' # Null /\ memory.degraded /\ ~memory'.degraded =>
         memory'.closed = memory.incident]_vars

\* An outage is never silent: whatever was lost, cached or left unsaved, a scrape
\* that is answered shows the alarm when no poll has succeeded for the threshold
\* and the time a record may take.
NoSilentOutage ==
    snapshot # Null /\ clock < expires /\ ~Gauge =>
        \/ clock - answered < Threshold + Patience
        \/ clock - snapshot.init < Threshold

\* The alarm reaches the row while the worker lives, though its polls hang and saves
\* fail now and then.
Settled == memory = Null \/ ~Overdue(memory) \/ (row # Null /\ row.degraded)
AlarmStored == ~Settled ~> Settled

=============================================================================
