------------------------------ MODULE SyncJobs ------------------------------
(* The durable job queue of the integration: the rows of sync_jobs, the worker
   processes that claim and run them, and the advisory lock that is meant to
   leave one worker active.  Source: app/workers/jobs.py, app/db/repositories.py,
   app/workers/locks.py, app/services/inbound.py and outbound.py.

   Time is relative: an instant is an integer, 0 is now, and Tick moves every
   instant one unit into the past.  An instant older than Horizon is kept at
   -Horizon: nothing in the code compares instants that old.  What a job carries
   (texts, files, identifiers) is left out; what its delivery does to the other
   side is one count, sent.  *)
EXTENDS Integers, Sequences, FiniteSets

CONSTANTS
    InboundJobs,          \* jobs that bring a ZZap message to Chatwoot
    OutboundJobs,         \* jobs that bring an operator's message to ZZap
    NoteJobs,             \* rows available for private notes (a bound)
    Workers,              \* worker processes
    Null,
    MaxInboundAttempts, MaxOutboundAttempts,
    InboundDelays, OutboundDelays,
    StaleAfter,           \* ten minutes, in ticks
    Horizon,              \* the oldest instant told apart (a bound)
    MaxCrashes,           \* bound on crashes of workers
    LockMayBeLost         \* may the lock connection drop under a live worker?

JobIds == InboundJobs \cup OutboundJobs \cup NoteJobs

ASSUME JobsAssumption ==
    /\ InboundJobs \cap OutboundJobs = {}
    /\ InboundJobs \cap NoteJobs = {}
    /\ OutboundJobs \cap NoteJobs = {}
    /\ Null \notin JobIds /\ Null \notin Workers /\ Null \notin Int
    /\ IsFiniteSet(Workers)

ASSUME PolicyAssumption ==
    /\ MaxInboundAttempts \in Nat \ {0} /\ MaxOutboundAttempts \in Nat \ {0}
    /\ InboundDelays \in Seq(Nat) /\ OutboundDelays \in Seq(Nat)
    /\ StaleAfter \in Nat /\ Horizon \in Nat /\ StaleAfter < Horizon
    /\ MaxCrashes \in Nat /\ LockMayBeLost \in BOOLEAN

VARIABLES
    job,          \* sync_jobs: JobIds -> row
    mapping,      \* status of the message mapping of every inbound job
    worker,       \* Workers -> where the process is in run_worker_iteration
    lockHolder,   \* the session that holds the advisory lock, or Null
    crashes,      \* how many workers crashed so far
    sent,         \* history: how often the other side applied a job's message
    unsure,       \* history: jobs with an applied message nobody recorded
    abandoned     \* history: jobs failed by the reset of stale locks

queue == <<job, mapping>>
history == <<sent, unsure, abandoned>>
vars == <<job, mapping, worker, lockHolder, crashes, history>>

OpenStatuses == {"pending", "processing"}
ClosedStatuses == {"succeeded", "failed", "blocked"}
Open(j) == job[j].status \in OpenStatuses
Closed(j) == job[j].status \in ClosedStatuses

NoRow == [status |-> "absent", attempts |-> 0, next |-> Null, lockedAt |-> Null,
          lockedBy |-> Null, born |-> Null, about |-> Null]

\* A row as inserted: attempt_count and the nullable columns take their defaults.
\* created_at is the start of the inserting transaction.
NewRow(born, about) == [NoRow EXCEPT !.status = "pending", !.born = born, !.about = about]

Down == [pc |-> "down", job |-> Null, attempts |-> 0, began |-> Null, result |-> "none"]
Idle == [Down EXCEPT !.pc = "idle"]

Busy(w) == worker[w].pc \in {"claimed", "loaded", "called"}

---------------------------------------------------------------------------
(* Retry policy *)

MaxAttempts(j) == IF j \in InboundJobs THEN MaxInboundAttempts ELSE MaxOutboundAttempts
Delays(j) == IF j \in InboundJobs THEN InboundDelays ELSE OutboundDelays

\* An error is final when the attempts are used up or the policy names no delay.
Exhausted(j, attempts) ==
    \/ attempts >= MaxAttempts(j)
    \/ attempts \notin 1 .. Len(Delays(j))

---------------------------------------------------------------------------
(* Rows are created by the fetch of a thread (inbound, in one transaction, so
   with one created_at), by the webhook (outbound) and by Commit (notes). *)

CreateInbound ==
    \E batch \in SUBSET {j \in InboundJobs : job[j] = NoRow} :
        /\ batch # {}
        /\ job' = [j \in JobIds |-> IF j \in batch THEN NewRow(0, Null) ELSE job[j]]
        /\ mapping' = [j \in InboundJobs |-> IF j \in batch THEN "pending" ELSE mapping[j]]
        /\ UNCHANGED <<worker, lockHolder, crashes, history>>

CreateOutbound ==
    \E j \in OutboundJobs :
        /\ job[j] = NoRow
        /\ job' = [job EXCEPT ![j] = NewRow(0, Null)]
        /\ UNCHANGED <<mapping, worker, lockHolder, crashes, history>>

---------------------------------------------------------------------------
(* Worker processes and the advisory lock *)

BugLockFree == TRUE

LockFree == lockHolder = Null

Start(w) ==
    /\ worker[w].pc = "down"
    /\ LockFree
    /\ lockHolder' = w
    /\ worker' = [worker EXCEPT ![w] = Idle]
    /\ UNCHANGED <<queue, crashes, history>>

\* The database drops the lock's own connection; the worker never looks again.
LoseLock(w) ==
    /\ LockMayBeLost
    /\ lockHolder = w
    /\ lockHolder' = Null
    /\ UNCHANGED <<queue, worker, crashes, history>>

\* A crash rolls back what the worker has not committed, and ends its sessions.
Crash(w) ==
    /\ worker[w].pc # "down"
    /\ crashes < MaxCrashes
    /\ crashes' = crashes + 1
    /\ worker' = [worker EXCEPT ![w] = Down]
    /\ lockHolder' = IF lockHolder = w THEN Null ELSE lockHolder
    /\ unsure' = IF worker[w].pc = "called" /\ worker[w].result = "done"
                 THEN unsure \cup {worker[w].job} ELSE unsure
    /\ UNCHANGED <<queue, sent, abandoned>>

---------------------------------------------------------------------------
(* First transaction of an iteration: reset stale locks, then claim one job *)

BugStale(j) == FALSE

Stale(j) == job[j].status = "processing" /\ job[j].lockedAt < -StaleAfter

GivenUp(j) == Stale(j) /\ job[j].attempts >= MaxAttempts(j)

Unlocked(row) == [row EXCEPT !.lockedAt = Null, !.lockedBy = Null]

BugJobAfterReset(j) ==
    IF Stale(j) THEN [Unlocked(job[j]) EXCEPT !.next = Null, !.status = "pending"] ELSE job[j]

JobAfterReset(j) ==
    IF Stale(j)
    THEN [Unlocked(job[j]) EXCEPT !.next = Null,
                                  !.status = IF GivenUp(j) THEN "failed" ELSE "pending"]
    ELSE job[j]

BugMappingAfterReset(j) == mapping[j]

MappingAfterReset(j) == IF GivenUp(j) THEN "failed" ELSE mapping[j]

ResetStale ==
    /\ mapping' = [j \in InboundJobs |-> MappingAfterReset(j)]
    /\ abandoned' = abandoned \cup {j \in JobIds : GivenUp(j)}

Due(row) == row.status = "pending" /\ (row.next # Null => row.next <= 0)

\* ORDER BY next_attempt_at NULLS FIRST, created_at.  Instants of the same tick
\* are not told apart, so they leave the choice open.
Precedes(r, s) ==
    \/ r.next = Null /\ (s.next # Null \/ r.born < s.born)
    \/ r.next # Null /\ s.next # Null /\ r.next < s.next

BugClaimed(row, w) == [row EXCEPT !.status = "processing", !.lockedBy = w, !.attempts = @ + 1]

Claimed(row, w) ==
    [row EXCEPT !.status = "processing", !.lockedAt = 0, !.lockedBy = w, !.attempts = @ + 1]

ClaimNext(w) ==
    /\ worker[w].pc = "idle"
    /\ \E j \in JobIds :
        /\ Due(JobAfterReset(j))
        /\ \A k \in JobIds : Due(JobAfterReset(k)) => ~Precedes(JobAfterReset(k), JobAfterReset(j))
        /\ job' = [k \in JobIds |-> IF k = j THEN Claimed(JobAfterReset(j), w) ELSE JobAfterReset(k)]
        /\ worker' = [worker EXCEPT ![w] = [Idle EXCEPT !.pc = "claimed", !.job = j, !.began = 0]]
    /\ ResetStale
    /\ UNCHANGED <<lockHolder, crashes, sent, unsure>>

\* Nothing is due, but a stale job was found exhausted.
ResetOnly(w) ==
    /\ worker[w].pc = "idle"
    /\ \A j \in JobIds : ~Due(JobAfterReset(j))
    /\ \E j \in JobIds : Stale(j)
    /\ job' = [j \in JobIds |-> JobAfterReset(j)]
    /\ ResetStale
    /\ UNCHANGED <<worker, lockHolder, crashes, sent, unsure>>

---------------------------------------------------------------------------
(* Second transaction: load the job again, call the other side, commit *)

BugOwned(w) == TRUE

Owned(w) ==
    /\ job[worker[w].job].status = "processing"
    /\ job[worker[w].job].lockedBy = w

Delivered(j) == j \in InboundJobs /\ mapping[j] = "succeeded"

LoadJob(w) ==
    /\ worker[w].pc = "claimed"
    /\ Owned(w)
    /\ worker' = [worker EXCEPT ![w].attempts = job[worker[w].job].attempts,
                                ![w].pc = IF Delivered(worker[w].job) THEN "called" ELSE "loaded",
                                ![w].result = IF Delivered(worker[w].job) THEN "already" ELSE "none"]
    /\ UNCHANGED <<queue, lockHolder, crashes, history>>

\* The job went to someone else between the two transactions.
LeaveJob(w) ==
    /\ worker[w].pc = "claimed"
    /\ ~Owned(w)
    /\ worker' = [worker EXCEPT ![w] = Idle]
    /\ UNCHANGED <<queue, lockHolder, crashes, history>>

Called(w, result) == worker' = [worker EXCEPT ![w].pc = "called", ![w].result = result]

\* The other side applies the message; its answer may be lost on the way back.
Deliver(w) ==
    /\ worker[w].pc = "loaded"
    /\ sent' = [sent EXCEPT ![worker[w].job] = @ + 1]
    /\ \/ Called(w, "done") /\ UNCHANGED unsure
       \/ Called(w, "error") /\ unsure' = unsure \cup {worker[w].job}
    /\ UNCHANGED <<queue, lockHolder, crashes, abandoned>>

\* A call fails before the message is applied.
CallFails(w) ==
    /\ worker[w].pc = "loaded"
    /\ Called(w, "error")
    /\ UNCHANGED <<queue, lockHolder, crashes, history>>

\* The ZZap thread is read-only: nothing is called.
Block(w) ==
    /\ worker[w].pc = "loaded"
    /\ worker[w].job \in OutboundJobs
    /\ Called(w, "blocked")
    /\ UNCHANGED <<queue, lockHolder, crashes, history>>

\* The status that process_claimed_job gives the job it has loaded.
Outcome(w) ==
    CASE worker[w].result \in {"done", "already"} -> "succeeded"
      [] worker[w].result = "blocked" -> "blocked"
      [] worker[w].result = "error" ->
            IF Exhausted(worker[w].job, worker[w].attempts) THEN "failed" ELSE "pending"

NextAttempt(w) ==
    IF Outcome(w) = "pending"
    THEN worker[w].began + Delays(worker[w].job)[worker[w].attempts]
    ELSE Null

MappingAfterCall(w) ==
    IF worker[w].result = "done" THEN "succeeded"
    ELSE IF Outcome(w) = "failed" THEN "failed" ELSE mapping[worker[w].job]

BugNeedsNote(w) == worker[w].job \in OutboundJobs /\ Outcome(w) = "blocked"

NeedsNote(w) == worker[w].job \in OutboundJobs /\ Outcome(w) \in {"failed", "blocked"}

BugSettled(w) == [job[worker[w].job] EXCEPT !.next = NextAttempt(w)]

\* Only the columns the code assigns are written: attempt_count is not one of them.
Settled(w) == [Unlocked(job[worker[w].job]) EXCEPT !.status = Outcome(w), !.next = NextAttempt(w)]

Commit(w) ==
    LET j == worker[w].job IN
    /\ worker[w].pc = "called"
    /\ \/ /\ ~NeedsNote(w)
          /\ job' = [job EXCEPT ![j] = Settled(w)]
       \/ /\ NeedsNote(w)
          /\ \E n \in NoteJobs :
                /\ job[n] = NoRow
                /\ job' = [job EXCEPT ![j] = Settled(w), ![n] = NewRow(worker[w].began, j)]
    /\ mapping' = IF j \in InboundJobs THEN [mapping EXCEPT ![j] = MappingAfterCall(w)] ELSE mapping
    /\ worker' = [worker EXCEPT ![w] = Idle]
    /\ UNCHANGED <<lockHolder, crashes, history>>

---------------------------------------------------------------------------
(* Time *)

Older(t) == IF t = Null THEN Null ELSE IF t <= -Horizon THEN -Horizon ELSE t - 1

\* The instants of closed rows are not read again and stay as they are.
Tick ==
    /\ job' = [j \in JobIds |->
                 IF Open(j)
                 THEN [job[j] EXCEPT !.next = Older(@), !.lockedAt = Older(@), !.born = Older(@)]
                 ELSE job[j]]
    /\ worker' = [w \in Workers |-> [worker[w] EXCEPT !.began = Older(@)]]
    /\ UNCHANGED <<mapping, lockHolder, crashes, history>>

---------------------------------------------------------------------------
Init ==
    /\ job = [j \in JobIds |-> NoRow]
    /\ mapping = [j \in InboundJobs |-> "none"]
    /\ worker = [w \in Workers |-> Down]
    /\ lockHolder = Null
    /\ crashes = 0
    /\ sent = [j \in JobIds |-> 0]
    /\ unsure = {}
    /\ abandoned = {}

Work(w) ==
    \/ ClaimNext(w)
    \/ ResetOnly(w)
    \/ LoadJob(w)
    \/ LeaveJob(w)
    \/ Deliver(w)
    \/ CallFails(w)
    \/ Block(w)
    \/ Commit(w)

Next ==
    \/ CreateInbound
    \/ CreateOutbound
    \/ \E w \in Workers : Start(w) \/ LoseLock(w) \/ Crash(w) \/ Work(w)
    \/ Tick

Spec == Init /\ [][Next]_vars

\* Time passes; the container restarts a worker that went down
\* (restart: unless-stopped); a live worker keeps iterating, since every call it
\* makes has a timeout.
Fairness ==
    /\ WF_vars(Tick)
    /\ WF_vars(\E w \in Workers : Start(w))
    /\ \A w \in Workers : WF_vars(Work(w))

FairSpec == Spec /\ Fairness

---------------------------------------------------------------------------
(* Properties *)

Rows ==
    [status : {"absent"} \cup OpenStatuses \cup ClosedStatuses, attempts : Nat,
     next : Int \cup {Null}, lockedAt : Int \cup {Null}, lockedBy : Workers \cup {Null},
     born : Int \cup {Null}, about : OutboundJobs \cup {Null}]

Processes ==
    [pc : {"down", "idle", "claimed", "loaded", "called"}, job : JobIds \cup {Null},
     attempts : Nat, began : Int \cup {Null}, result : {"none", "done", "already", "error", "blocked"}]

\* The state is well formed, and a column that the code compares is set whenever
\* it is compared: a processing row has a lock, a busy worker a job and a start, a
\* worker that comes back from its call a result.
TypeOK ==
    /\ job \in [JobIds -> Rows]
    /\ mapping \in [InboundJobs -> {"none", "pending", "succeeded", "failed"}]
    /\ worker \in [Workers -> Processes]
    /\ lockHolder \in Workers \cup {Null}
    /\ crashes \in Nat
    /\ sent \in [JobIds -> Nat]
    /\ unsure \subseteq JobIds
    /\ abandoned \subseteq JobIds
    /\ \A j \in JobIds : job[j].status = "processing" =>
            job[j].lockedAt # Null /\ job[j].lockedBy # Null
    /\ \A w \in Workers : Busy(w) => worker[w].job \in JobIds /\ worker[w].began # Null
    /\ \A w \in Workers : worker[w].pc = "called" => worker[w].result # "none"

\* While the advisory lock is kept, one worker is active, and the job in a
\* worker's hands is its own until it commits: no stale reset, claim or commit of
\* another worker touches the row between the transactions, and the attempt
\* number that decides the outcome is the row's (jobs.py:259-288, locks.py).
OneOwner ==
    /\ \A w \in Workers : worker[w].pc # "down" => lockHolder = w
    /\ \A w \in Workers : Busy(w) =>
            /\ Owned(w)
            /\ worker[w].pc # "claimed" => worker[w].attempts = job[worker[w].job].attempts

\* Retries, crashes and stale resets together never give a job more attempts than
\* its policy allows, and a job waits only while it has one left
\* (jobs.py:506-524, repositories.py:414-495).
AttemptsBounded ==
    \A j \in JobIds :
        /\ job[j].attempts <= MaxAttempts(j)
        /\ job[j].status = "pending" => job[j].attempts < MaxAttempts(j)

\* A message is applied twice only after an attempt whose success nobody could
\* record (a lost answer, a crash before the commit); otherwise an applied message
\* is recorded, or about to be (jobs.py:278-295, 429-478).
DuplicatesExplained ==
    \A j \in JobIds \ unsure :
        /\ sent[j] <= 1
        /\ sent[j] = 1 =>
             \/ job[j].status = "succeeded"
             \/ \E w \in Workers : worker[w].pc = "called" /\ worker[w].job = j
                                  /\ worker[w].result = "done"

\* An operator whose message is blocked or failed gets one private note about it,
\* unless the job was failed by the reset of stale locks (jobs.py:454-463,
\* outbound.py:176-186); nobody else gets one.
NotesFor(j) == {n \in NoteJobs : job[n].about = j}
OperatorInformed ==
    \A j \in OutboundJobs :
        /\ Cardinality(NotesFor(j)) <= 1
        /\ NotesFor(j) # {} <=> job[j].status \in {"failed", "blocked"} /\ j \notin abandoned

\* The two records of an inbound message agree: its mapping, which guards against
\* importing it again, is final exactly when and as its job is
\* (inbound.py:73-108, jobs.py:452-453, repositories.py:440-452).
MappingAgrees ==
    \A j \in InboundJobs :
        mapping[j] = CASE job[j].status = "absent" -> "none"
                       [] Open(j) -> "pending"
                       [] OTHER -> job[j].status

\* An outcome is final: no late commit, reset or claim reopens or changes it.
OutcomeIsFinal ==
    [][\A j \in JobIds : Closed(j) => job'[j].status = job[j].status]_vars

\* Whatever happens to the lock, every claim buys at most one application of the
\* message, and overlapping workers add at most one claim each beyond the policy.
DamageBounded ==
    \A j \in JobIds :
        /\ sent[j] <= job[j].attempts
        /\ job[j].attempts < MaxAttempts(j) + Cardinality(Workers)

\* Two workers never run the same attempt of a job, nor one whose number the row has
\* not reached: even when the lock is lost, a worker that was overtaken between its
\* two transactions leaves the job to the other (jobs.py:259-288).
OneWorkerPerAttempt ==
    \A w \in Workers : worker[w].pc \in {"loaded", "called"} =>
        /\ worker[w].attempts <= job[worker[w].job].attempts
        /\ \A v \in Workers \ {w} :
              worker[v].pc \in {"loaded", "called"} /\ worker[v].job = worker[w].job
              => worker[v].attempts # worker[w].attempts

\* Every job that is submitted ends, in spite of crashes (jobs.py:147-312).
EveryJobSettles == \A j \in JobIds : Open(j) ~> Closed(j)

\* The queue keeps the contract of JobContract.
Phase(j) ==
    CASE job[j].status = "absent" -> "absent"
      [] Open(j) -> "open"
      [] job[j].status = "succeeded" -> "done"
      [] OTHER -> "dropped"

Contract == INSTANCE JobContract
    WITH Jobs <- JobIds, Limit <- [j \in JobIds |-> MaxAttempts(j)],
         phase <- [j \in JobIds |-> Phase(j)], applied <- sent

KeepsContract == Contract!ContractSpec

---------------------------------------------------------------------------
(* What documents and texts of the repository say, and the code does not do *)

\* After exhaustion the operator is told (design spec, "Retry policies").
ExhaustionIsReported ==
    \A j \in OutboundJobs : job[j].status = "failed" => NotesFor(j) # {}

=============================================================================
