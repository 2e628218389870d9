-------------------------- MODULE SyncJobs_proofs --------------------------
(* Proofs about SyncJobs, for every number of jobs, workers, attempts, delays and
   crashes.  The argument: while the lock is kept (~LockMayBeLost) at most one worker is
   up, so nobody touches the row that a busy worker works on; its attempt number is
   therefore the row's, and its outcome the only one the row gets.  Where the lock
   may be lost, a count of the workers that can still add an attempt bounds the
   damage (DamageHolds), and the test of the reload keeps two workers from running one
   attempt (AttemptOwnerHolds).  *)
EXTENDS SyncJobs, FiniteSetTheorems, TLAPS

---------------------------------------------------------------------------
(* What the helpers return *)

LEMMA OlderType ==
    ASSUME NEW t \in Int \cup {Null}
    PROVE  /\ Older(t) \in Int \cup {Null}
           /\ t # Null => Older(t) # Null
  BY JobsAssumption, PolicyAssumption DEF Older

LEMMA NewRowType ==
    ASSUME NEW born \in Int \cup {Null}, NEW about \in OutboundJobs \cup {Null}
    PROVE  /\ NewRow(born, about) \in Rows
           /\ NewRow(born, about).status = "pending"
           /\ NewRow(born, about).attempts = 0
  BY DEF NewRow, NoRow, Rows, OpenStatuses

LEMMA ResetType ==
    ASSUME TypeOK, NEW j \in JobIds
    PROVE  /\ JobAfterReset(j) \in Rows
           /\ JobAfterReset(j).attempts = job[j].attempts
           /\ ~Stale(j) => JobAfterReset(j) = job[j]
           /\ Stale(j) => JobAfterReset(j).status = IF GivenUp(j) THEN "failed" ELSE "pending"
  BY DEF TypeOK, JobAfterReset, Unlocked, Rows, OpenStatuses, ClosedStatuses

LEMMA ClaimedType ==
    ASSUME NEW row \in Rows, NEW w \in Workers
    PROVE  /\ Claimed(row, w) \in Rows
           /\ Claimed(row, w).status = "processing"
           /\ Claimed(row, w).lockedAt # Null /\ Claimed(row, w).lockedBy = w
           /\ Claimed(row, w).attempts = row.attempts + 1
  <1> DEFINE t == 0
             n == row.attempts + 1
  <1>1. t \in Int /\ t # Null /\ w # Null
    BY JobsAssumption
  <1>2. n \in Nat
    BY DEF Rows
  <1>3. Claimed(row, w) =
          [row EXCEPT !.status = "processing", !.lockedAt = t, !.lockedBy = w, !.attempts = n]
    BY DEF Claimed
  <1>4. n = row.attempts + 1
    OBVIOUS
  <1> HIDE DEF t, n
  <1> QED
    BY <1>1, <1>2, <1>3, <1>4 DEF Rows, OpenStatuses

LEMMA DelayType ==
    ASSUME NEW j \in JobIds, NEW a \in Nat, ~Exhausted(j, a)
    PROVE  Delays(j)[a] \in Nat
  BY PolicyAssumption DEF Exhausted, Delays

LEMMA SettledType ==
    ASSUME TypeOK, NEW w \in Workers, Busy(w), worker[w].result # "none"
    PROVE  /\ Outcome(w) \in {"pending", "succeeded", "failed", "blocked"}
           /\ Settled(w) \in Rows
           /\ Settled(w).status = Outcome(w)
           /\ Settled(w).attempts = job[worker[w].job].attempts
           /\ Settled(w).about = job[worker[w].job].about
  <1> DEFINE j == worker[w].job
  <1>1. j \in JobIds /\ job[j] \in Rows /\ worker[w].attempts \in Nat /\ worker[w].began \in Int
    BY DEF TypeOK, Processes
  <1>2. worker[w].result \in {"done", "already", "error", "blocked"}
    BY DEF TypeOK, Processes
  <1>3. Outcome(w) \in {"pending", "succeeded", "failed", "blocked"}
    BY <1>2 DEF Outcome
  <1>4. NextAttempt(w) \in Int \cup {Null}
    <2>1. CASE Outcome(w) = "pending"
      <3>1. ~Exhausted(j, worker[w].attempts)
        BY <2>1, <1>2 DEF Outcome
      <3>2. Delays(j)[worker[w].attempts] \in Nat
        BY <3>1, <1>1, DelayType
      <3> QED
        BY <3>2, <2>1, <1>1 DEF NextAttempt
    <2>2. CASE Outcome(w) # "pending"
      BY <2>2 DEF NextAttempt
    <2> QED
      BY <2>1, <2>2
  <1> QED
    BY <1>1, <1>3, <1>4 DEF Settled, Unlocked, Rows, OpenStatuses, ClosedStatuses

LEMMA ProcessType ==
    /\ Down \in Processes /\ Down.pc = "down"
    /\ Idle \in Processes /\ Idle.pc = "idle"
    /\ \A j \in JobIds : LET p == [Idle EXCEPT !.pc = "claimed", !.job = j, !.began = 0] IN
          p \in Processes /\ p.pc = "claimed" /\ p.job = j /\ p.began # Null
  <1>1. 0 # Null /\ 0 \in Int /\ 0 \in Nat
    BY JobsAssumption
  <1> QED
    BY <1>1 DEF Down, Idle, Processes

\* ResetStale leaves the mapping and abandoned well formed.
LEMMA ResetStaleType ==
    ASSUME TypeOK, ResetStale
    PROVE  /\ mapping' \in [InboundJobs -> {"none", "pending", "succeeded", "failed"}]
           /\ abandoned' \subseteq JobIds
  BY DEF TypeOK, ResetStale, MappingAfterReset, JobIds

---------------------------------------------------------------------------
(* Type correctness *)

LEMMA TypeInit == Init => TypeOK
  <1> SUFFICES ASSUME Init PROVE TypeOK
    OBVIOUS
  <1>1. NoRow \in Rows /\ NoRow.status = "absent"
    BY DEF NoRow, Rows
  <1> QED
    BY <1>1, ProcessType DEF Init, TypeOK, Busy

\* A step that leaves the rows alone and changes one worker.
LEMMA TypeWorkerStep ==
    ASSUME TypeOK, NEW w \in Workers, NEW p \in Processes,
           p.pc \in {"claimed", "loaded", "called"} => p.job \in JobIds /\ p.began # Null,
           p.pc = "called" => p.result # "none",
           worker' = [worker EXCEPT ![w] = p]
    PROVE  /\ worker' \in [Workers -> Processes]
           /\ \A v \in Workers : Busy(v)' => worker'[v].job \in JobIds /\ worker'[v].began # Null
          /\ \A v \in Workers : worker'[v].pc = "called" => worker'[v].result # "none"
  BY DEF TypeOK, Busy

\* What a call does to its worker.
LEMMA CallType ==
    ASSUME TypeOK, NEW w \in Workers, worker[w].pc = "loaded",
           NEW r \in {"done", "error", "blocked"}, Called(w, r)
    PROVE  /\ worker' \in [Workers -> Processes]
           /\ \A v \in Workers : Busy(v)' => worker'[v].job \in JobIds /\ worker'[v].began # Null
           /\ \A v \in Workers : worker'[v].pc = "called" => worker'[v].result # "none"
  <1> DEFINE p == [worker[w] EXCEPT !.pc = "called", !.result = r]
  <1>1. worker[w] \in Processes /\ worker[w].job \in JobIds /\ worker[w].began # Null
    BY DEF TypeOK, Busy
  <1>2. p \in Processes /\ p.job \in JobIds /\ p.began # Null /\ p.result # "none"
    BY <1>1 DEF Processes
  <1>3. worker' = [worker EXCEPT ![w] = p]
    BY DEF Called, TypeOK
  <1> HIDE DEF p
  <1> QED
    BY <1>2, <1>3, TypeWorkerStep

LEMMA TypeStep == TypeOK /\ [Next]_vars => TypeOK'
  <1> SUFFICES ASSUME TypeOK, [Next]_vars PROVE TypeOK'
    OBVIOUS
  <1>1. CASE CreateInbound
    <2>1. PICK batch \in SUBSET {j \in InboundJobs : job[j] = NoRow} :
            /\ job' = [j \in JobIds |-> IF j \in batch THEN NewRow(0, Null) ELSE job[j]]
            /\ mapping' = [j \in InboundJobs |-> IF j \in batch THEN "pending" ELSE mapping[j]]
      BY <1>1 DEF CreateInbound
    <2>2. NewRow(0, Null) \in Rows /\ NewRow(0, Null).status = "pending"
      BY NewRowType
    <2> QED
      BY <1>1, <2>1, <2>2 DEF CreateInbound, TypeOK, Busy, history
  <1>2. CASE CreateOutbound
    <2>1. NewRow(0, Null) \in Rows /\ NewRow(0, Null).status = "pending"
      BY NewRowType
    <2> QED
      BY <1>2, <2>1 DEF CreateOutbound, TypeOK, Busy, history, JobIds
  <1>3. ASSUME NEW w \in Workers, Start(w) PROVE TypeOK'
    BY <1>3, ProcessType, TypeWorkerStep DEF Start, TypeOK, Busy, queue, history
  <1>4. ASSUME NEW w \in Workers, LoseLock(w) PROVE TypeOK'
    BY <1>4 DEF LoseLock, TypeOK, Busy, queue, history
  <1>5. ASSUME NEW w \in Workers, Crash(w) PROVE TypeOK'
    <2>1. unsure' \subseteq JobIds
      BY <1>5 DEF Crash, TypeOK, Busy
    <2>2. /\ worker' \in [Workers -> Processes]
          /\ \A v \in Workers : Busy(v)' => worker'[v].job \in JobIds /\ worker'[v].began # Null
          /\ \A v \in Workers : worker'[v].pc = "called" => worker'[v].result # "none"
      BY <1>5, ProcessType, TypeWorkerStep DEF Crash
    <2>3. crashes' \in Nat
      BY <1>5 DEF Crash, TypeOK
    <2> QED
      BY <1>5, <2>1, <2>2, <2>3 DEF Crash, TypeOK, queue
  <1>6. ASSUME NEW w \in Workers, ClaimNext(w) PROVE TypeOK'
    <2>1. PICK j \in JobIds :
            /\ job' = [k \in JobIds |-> IF k = j THEN Claimed(JobAfterReset(j), w) ELSE JobAfterReset(k)]
            /\ worker' = [worker EXCEPT ![w] = [Idle EXCEPT !.pc = "claimed", !.job = j, !.began = 0]]
      BY <1>6 DEF ClaimNext
    <2>2. /\ worker' \in [Workers -> Processes]
          /\ \A v \in Workers : Busy(v)' => worker'[v].job \in JobIds /\ worker'[v].began # Null
          /\ \A v \in Workers : worker'[v].pc = "called" => worker'[v].result # "none"
      BY <2>1, ProcessType, TypeWorkerStep
    <2>3. /\ job' \in [JobIds -> Rows]
          /\ \A k \in JobIds : job'[k].status = "processing" => job'[k].lockedAt # Null /\ job'[k].lockedBy # Null
      <3>1. \A k \in JobIds : JobAfterReset(k) \in Rows /\ (JobAfterReset(k).status = "processing" => JobAfterReset(k) = job[k])
        BY ResetType
      <3>2. Claimed(JobAfterReset(j), w) \in Rows /\ Claimed(JobAfterReset(j), w).lockedAt # Null /\ Claimed(JobAfterReset(j), w).lockedBy = w
        BY <3>1, ClaimedType
      <3> QED
        BY <2>1, <3>1, <3>2, JobsAssumption DEF TypeOK
    <2>4. ResetStale /\ UNCHANGED <<lockHolder, crashes, sent, unsure>>
      BY <1>6 DEF ClaimNext
    <2> QED
      BY <2>2, <2>3, <2>4, ResetStaleType DEF TypeOK
  <1>7. ASSUME NEW w \in Workers, ResetOnly(w) PROVE TypeOK'
    <2>1. \A k \in JobIds : JobAfterReset(k) \in Rows /\ (JobAfterReset(k).status = "processing" => JobAfterReset(k) = job[k])
      BY ResetType
    <2> QED
      BY <1>7, <2>1, ResetStaleType DEF ResetOnly, TypeOK, Busy
  <1>8. ASSUME NEW w \in Workers, LoadJob(w) PROVE TypeOK'
    <2> DEFINE p == [worker[w] EXCEPT !.attempts = job[worker[w].job].attempts,
                                      !.pc = IF Delivered(worker[w].job) THEN "called" ELSE "loaded",
                                      !.result = IF Delivered(worker[w].job) THEN "already" ELSE "none"]
    <2>1. worker[w] \in Processes /\ worker[w].job \in JobIds /\ worker[w].began # Null
      BY <1>8 DEF LoadJob, TypeOK, Busy
    <2>2. job[worker[w].job].attempts \in Nat
      BY <2>1 DEF TypeOK, Rows
    <2>3. /\ p \in Processes /\ p.job \in JobIds /\ p.began # Null
          /\ p.pc = "called" => p.result # "none"
      BY <2>1, <2>2 DEF Processes
    <2>4. worker' = [worker EXCEPT ![w] = p]
      BY <1>8 DEF LoadJob, TypeOK
    <2> HIDE DEF p
    <2>5. /\ worker' \in [Workers -> Processes]
          /\ \A v \in Workers : Busy(v)' => worker'[v].job \in JobIds /\ worker'[v].began # Null
          /\ \A v \in Workers : worker'[v].pc = "called" => worker'[v].result # "none"
      BY <2>3, <2>4, TypeWorkerStep
    <2> QED
      BY <1>8, <2>5 DEF LoadJob, TypeOK, queue, history
  <1>9. ASSUME NEW w \in Workers, LeaveJob(w) PROVE TypeOK'
    BY <1>9, ProcessType, TypeWorkerStep DEF LeaveJob, TypeOK, Busy, queue, history
  <1>10. ASSUME NEW w \in Workers, Deliver(w) PROVE TypeOK'
    <2>1. /\ worker' \in [Workers -> Processes]
          /\ \A v \in Workers : Busy(v)' => worker'[v].job \in JobIds /\ worker'[v].began # Null
          /\ \A v \in Workers : worker'[v].pc = "called" => worker'[v].result # "none"
      BY <1>10, CallType DEF Deliver
    <2>2. worker[w].job \in JobIds
      BY <1>10 DEF Deliver, TypeOK, Busy
    <2>3. sent' \in [JobIds -> Nat] /\ unsure' \subseteq JobIds
      BY <1>10, <2>2 DEF Deliver, TypeOK
    <2> QED
      BY <1>10, <2>1, <2>3 DEF Deliver, TypeOK, queue
  <1>11. ASSUME NEW w \in Workers, CallFails(w) PROVE TypeOK'
    <2>1. /\ worker' \in [Workers -> Processes]
          /\ \A v \in Workers : Busy(v)' => worker'[v].job \in JobIds /\ worker'[v].began # Null
          /\ \A v \in Workers : worker'[v].pc = "called" => worker'[v].result # "none"
      BY <1>11, CallType DEF CallFails
    <2> QED
      BY <1>11, <2>1 DEF CallFails, TypeOK, queue, history
  <1>12. ASSUME NEW w \in Workers, Block(w) PROVE TypeOK'
    <2>1. /\ worker' \in [Workers -> Processes]
          /\ \A v \in Workers : Busy(v)' => worker'[v].job \in JobIds /\ worker'[v].began # Null
          /\ \A v \in Workers : worker'[v].pc = "called" => worker'[v].result # "none"
      BY <1>12, CallType DEF Block
    <2> QED
      BY <1>12, <2>1 DEF Block, TypeOK, queue, history
  <1>13. ASSUME NEW w \in Workers, Commit(w) PROVE TypeOK'
    <2> DEFINE j == worker[w].job
    <2>1. Busy(w) /\ worker[w].result # "none" /\ j \in JobIds /\ worker[w].began \in Int
      BY <1>13 DEF Commit, TypeOK, Busy, Processes
    <2>2. /\ Settled(w) \in Rows
          /\ Settled(w).status # "processing"
      BY <2>1, SettledType
    <2>3. /\ job' \in [JobIds -> Rows]
          /\ \A k \in JobIds : job'[k].status = "processing" => job'[k].lockedAt # Null /\ job'[k].lockedBy # Null
      <3>1. CASE job' = [job EXCEPT ![j] = Settled(w)]
        BY <3>1, <2>1, <2>2 DEF TypeOK
      <3>2. ASSUME NEW n \in NoteJobs, NeedsNote(w),
                   job' = [job EXCEPT ![j] = Settled(w), ![n] = NewRow(worker[w].began, j)]
            PROVE  <2>3
        <4>1. n \in JobIds /\ j \in OutboundJobs
          BY <3>2 DEF JobIds, NeedsNote
        <4>2. NewRow(worker[w].began, j) \in Rows /\ NewRow(worker[w].began, j).status = "pending"
          BY <2>1, <4>1, NewRowType
        <4> QED
          BY <3>2, <2>1, <2>2, <4>1, <4>2 DEF TypeOK
      <3> QED
        BY <1>13, <3>1, <3>2 DEF Commit
    <2>4. mapping' \in [InboundJobs -> {"none", "pending", "succeeded", "failed"}]
      BY <1>13 DEF Commit, TypeOK, MappingAfterCall
    <2> QED
      BY <1>13, <2>3, <2>4, ProcessType, TypeWorkerStep DEF Commit, TypeOK, history
  <1>14. CASE Tick
    <2>1. /\ job' \in [JobIds -> Rows]
          /\ \A k \in JobIds : job'[k].status = "processing" => job'[k].lockedAt # Null /\ job'[k].lockedBy # Null
      <3> SUFFICES ASSUME NEW k \in JobIds
                   PROVE  /\ job'[k] \in Rows
                          /\ job'[k].status = "processing" => job'[k].lockedAt # Null /\ job'[k].lockedBy # Null
        BY <1>14 DEF Tick
      <3> DEFINE row == job[k]
      <3>1. row \in Rows /\ (row.status = "processing" => row.lockedAt # Null /\ row.lockedBy # Null)
        BY DEF TypeOK
      <3>2. /\ Older(row.next) \in Int \cup {Null} /\ Older(row.born) \in Int \cup {Null}
            /\ Older(row.lockedAt) \in Int \cup {Null}
            /\ row.lockedAt # Null => Older(row.lockedAt) # Null
        BY <3>1, OlderType DEF Rows
      <3>3. job'[k] = IF Open(k)
                      THEN [row EXCEPT !.next = Older(@), !.lockedAt = Older(@), !.born = Older(@)]
                      ELSE row
        BY <1>14 DEF Tick
      <3>4. /\ job'[k] \in Rows
            /\ job'[k].status = row.status /\ job'[k].lockedBy = row.lockedBy
            /\ row.lockedAt # Null => job'[k].lockedAt # Null
        <4> HIDE DEF row
        <4>1. CASE Open(k)
          <5> DEFINE a == Older(row.next)
                     b == Older(row.lockedAt)
                     c == Older(row.born)
                     aged == job'[k]
          <5>1. aged = [row EXCEPT !.next = a, !.lockedAt = b, !.born = c]
            BY <3>3, <4>1
          <5>2. /\ row \in Rows /\ a \in Int \cup {Null} /\ b \in Int \cup {Null} /\ c \in Int \cup {Null}
                /\ row.lockedAt # Null => b # Null
            BY <3>1, <3>2
          <5> HIDE DEF a, b, c, aged
          <5>3. aged \in Rows /\ aged.status = row.status /\ aged.lockedAt = b /\ aged.lockedBy = row.lockedBy
            BY <5>1, <5>2 DEF Rows
          <5> QED
            BY <5>2, <5>3 DEF aged
        <4>2. CASE ~Open(k)
          BY <3>1, <3>3, <4>2
        <4> QED
          BY <4>1, <4>2
      <3> QED
        BY <3>1, <3>4
    <2>2. /\ worker' \in [Workers -> Processes]
          /\ \A v \in Workers : Busy(v)' => worker'[v].job \in JobIds /\ worker'[v].began # Null
          /\ \A v \in Workers : worker'[v].pc = "called" => worker'[v].result # "none"
      <3> SUFFICES ASSUME NEW v \in Workers
                   PROVE  /\ worker'[v] \in Processes
                          /\ worker'[v].pc = worker[v].pc /\ worker'[v].job = worker[v].job
                          /\ worker'[v].result = worker[v].result
                          /\ worker[v].began # Null => worker'[v].began # Null
        BY <1>14 DEF Tick, TypeOK, Busy
      <3>1. worker[v] \in Processes
        BY DEF TypeOK
      <3>2. /\ Older(worker[v].began) \in Int \cup {Null}
            /\ worker[v].began # Null => Older(worker[v].began) # Null
        BY <3>1, OlderType DEF Processes
      <3>3. worker'[v] = [worker[v] EXCEPT !.began = Older(@)]
        BY <1>14 DEF Tick
      <3> QED
        BY <3>1, <3>2, <3>3 DEF Processes
    <2> QED
      BY <1>14, <2>1, <2>2 DEF Tick, TypeOK, history
  <1>15. CASE UNCHANGED vars
    BY <1>15 DEF vars, history, TypeOK, Busy
  <1> QED
    BY <1>1, <1>2, <1>3, <1>4, <1>5, <1>6, <1>7, <1>8, <1>9, <1>10, <1>11, <1>12, <1>13, <1>14, <1>15
       DEF Next, Work
\* Every reachable state is well typed.
THEOREM TypeCorrect == Spec => []TypeOK
  BY TypeInit, TypeStep, PTL DEF Spec

---------------------------------------------------------------------------
(* One owner: nobody else touches the row a busy worker works on *)

\* While the lock is kept, a live worker is alone.
LEMMA Alone ==
    ASSUME OneOwner, NEW w \in Workers, worker[w].pc # "down"
    PROVE  \A v \in Workers : v # w => worker[v].pc = "down" /\ ~Busy(v)
  BY DEF OneOwner, Busy

\* A step that keeps lock, workers' places and the columns of the processing rows.
LEMMA OwnerKept ==
    ASSUME TypeOK, OneOwner, lockHolder' = lockHolder,
           \A w \in Workers : /\ worker'[w].pc = worker[w].pc
                              /\ worker'[w].job = worker[w].job
                              /\ worker'[w].attempts = worker[w].attempts,
           \A j \in JobIds : job[j].status = "processing" =>
               /\ job'[j].status = "processing"
               /\ job'[j].lockedBy = job[j].lockedBy /\ job'[j].attempts = job[j].attempts
    PROVE  OneOwner'
  BY DEF OneOwner, Busy, Owned, TypeOK

LEMMA OwnerStep ==
    ASSUME ~LockMayBeLost PROVE TypeOK /\ OneOwner /\ [Next]_vars => OneOwner'
  <1> SUFFICES ASSUME TypeOK, OneOwner, [Next]_vars PROVE OneOwner'
    OBVIOUS
  <1>0. NoRow.status = "absent"
    BY DEF NoRow
  <1>1. CASE CreateInbound
    BY <1>1, <1>0, OwnerKept DEF CreateInbound, JobIds, TypeOK
  <1>2. CASE CreateOutbound
    BY <1>2, <1>0, OwnerKept DEF CreateOutbound, JobIds, TypeOK
  <1>3. ASSUME NEW w \in Workers, Start(w) PROVE OneOwner'
    <2>1. \A v \in Workers : worker[v].pc = "down"
      BY <1>3, JobsAssumption DEF Start, LockFree, OneOwner
    <2> QED
      BY <1>3, <2>1, ProcessType DEF Start, OneOwner, Busy, TypeOK
  <1>4. ASSUME NEW w \in Workers, LoseLock(w) PROVE OneOwner'
    BY <1>4 DEF LoseLock
  <1>5. ASSUME NEW w \in Workers, Crash(w) PROVE OneOwner'
    <2>1. \A v \in Workers : worker'[v].pc = "down"
      BY <1>5, ProcessType, Alone DEF Crash, TypeOK
    <2> QED
      BY <2>1 DEF OneOwner, Busy
  <1>6. ASSUME NEW w \in Workers, ClaimNext(w) PROVE OneOwner'
    <2>1. PICK j \in JobIds :
            /\ job' = [k \in JobIds |-> IF k = j THEN Claimed(JobAfterReset(j), w) ELSE JobAfterReset(k)]
            /\ worker' = [worker EXCEPT ![w] = [Idle EXCEPT !.pc = "claimed", !.job = j, !.began = 0]]
      BY <1>6 DEF ClaimNext
    <2>2. worker'[w].pc = "claimed" /\ worker'[w].job = j
      BY <2>1 DEF TypeOK, Idle, Down
    <2>3. job'[j].status = "processing" /\ job'[j].lockedBy = w
      BY <2>1, ResetType, ClaimedType
    <2>4. \A v \in Workers : v # w => worker'[v].pc = "down"
      BY <1>6, <2>1, Alone DEF ClaimNext, TypeOK
    <2> QED
      BY <1>6, <2>2, <2>3, <2>4 DEF ClaimNext, OneOwner, Owned, Busy
  <1>7. ASSUME NEW w \in Workers, ResetOnly(w) PROVE OneOwner'
    <2>1. \A v \in Workers : ~Busy(v)
      BY <1>7, Alone DEF ResetOnly, Busy
    <2> QED
      BY <1>7, <2>1 DEF ResetOnly, OneOwner, Busy
  <1>8. ASSUME NEW w \in Workers, LoadJob(w) PROVE OneOwner'
    <2>1. \A v \in Workers : v # w => worker'[v].pc = "down"
      BY <1>8, Alone DEF LoadJob, TypeOK
    <2>2. /\ worker'[w].job = worker[w].job
          /\ worker'[w].attempts = job[worker[w].job].attempts
      BY <1>8 DEF LoadJob, TypeOK, Processes
    <2>3. Owned(w) /\ job' = job /\ lockHolder' = lockHolder /\ lockHolder = w
      BY <1>8 DEF LoadJob, queue, OneOwner
    <2> QED
      BY <2>1, <2>2, <2>3 DEF OneOwner, Owned, Busy
  <1>9. ASSUME NEW w \in Workers, LeaveJob(w) PROVE OneOwner'
    <2>1. worker'[w].pc = "idle" /\ \A v \in Workers : v # w => worker'[v].pc = "down"
      BY <1>9, ProcessType, Alone DEF LeaveJob, TypeOK
    <2> QED
      BY <1>9, <2>1 DEF LeaveJob, OneOwner, Busy
  <1>10. ASSUME NEW w \in Workers,
                Called(w, "done") \/ Called(w, "error") \/ Called(w, "blocked"),
                worker[w].pc = "loaded", UNCHANGED <<queue, lockHolder>>
         PROVE  OneOwner'
    <2>1. \A v \in Workers : v # w => worker'[v].pc = "down"
      BY <1>10, Alone DEF Called, TypeOK
    <2>2. worker'[w].job = worker[w].job /\ worker'[w].attempts = worker[w].attempts
      BY <1>10 DEF Called, TypeOK, Processes
    <2>3. /\ Owned(w) /\ worker[w].attempts = job[worker[w].job].attempts
          /\ job' = job /\ lockHolder' = lockHolder /\ lockHolder = w
      BY <1>10 DEF queue, OneOwner, Busy
    <2> QED
      BY <2>1, <2>2, <2>3 DEF OneOwner, Owned, Busy
  <1>11. ASSUME NEW w \in Workers, Commit(w) PROVE OneOwner'
    <2>1. \A v \in Workers : v # w => worker'[v].pc = "down"
      BY <1>11, Alone DEF Commit, TypeOK
    <2>2. worker'[w].pc = "idle"
      BY <1>11, ProcessType DEF Commit, TypeOK
    <2> QED
      BY <1>11, <2>1, <2>2 DEF Commit, OneOwner, Busy
  <1>12. CASE Tick
    <2>1. \A w \in Workers : /\ worker'[w].pc = worker[w].pc
                              /\ worker'[w].job = worker[w].job
                              /\ worker'[w].attempts = worker[w].attempts
      BY <1>12 DEF Tick, TypeOK, Processes
    <2>2. \A j \in JobIds : /\ job'[j].status = job[j].status
                             /\ job'[j].lockedBy = job[j].lockedBy
                             /\ job'[j].attempts = job[j].attempts
      BY <1>12 DEF Tick, TypeOK, Rows
    <2> QED
      BY <1>12, <2>1, <2>2, OwnerKept DEF Tick
  <1>13. CASE UNCHANGED vars
    BY <1>13 DEF vars, OneOwner, Owned, Busy
  <1> QED
    BY <1>1, <1>2, <1>3, <1>4, <1>5, <1>6, <1>7, <1>8, <1>9, <1>10, <1>11, <1>12, <1>13
       DEF Next, Work, Deliver, CallFails, Block

\* While the advisory lock is kept, the row in a worker's hands is its own.
THEOREM OwnerHolds == ASSUME ~LockMayBeLost PROVE Spec => []OneOwner
  <1>1. Init => OneOwner
    BY ProcessType DEF Init, OneOwner, Busy
  <1> QED
    BY <1>1, OwnerStep, TypeCorrect, PTL DEF Spec
---------------------------------------------------------------------------
(* Attempts and applications: every claim pays for at most one application *)

CountInv ==
    /\ AttemptsBounded
    /\ \A j \in JobIds : sent[j] <= job[j].attempts
    /\ \A w \in Workers : worker[w].pc \in {"claimed", "loaded"} =>
            sent[worker[w].job] < job[worker[w].job].attempts

LEMMA MaxAttemptsType == \A j \in JobIds : MaxAttempts(j) \in Nat /\ MaxAttempts(j) > 0
  BY PolicyAssumption DEF MaxAttempts

\* A step that counts nothing, makes no row wait that has no attempt left, and
\* brings no worker closer to its call.
LEMMA CountKept ==
    ASSUME TypeOK, CountInv, sent' = sent,
           \A j \in JobIds :
               /\ job'[j].attempts = job[j].attempts
               /\ job'[j].status = "pending" =>
                     job[j].status = "pending" \/ job[j].attempts < MaxAttempts(j),
           \A w \in Workers : worker'[w].pc \in {"claimed", "loaded"} =>
               worker[w].pc \in {"claimed", "loaded"} /\ worker'[w].job = worker[w].job
    PROVE  CountInv'
  <1>1. \A w \in Workers : worker[w].pc \in {"claimed", "loaded"} => worker[w].job \in JobIds
    BY DEF TypeOK, Busy
  <1> QED
    BY <1>1 DEF CountInv, AttemptsBounded

\* What the reset of stale locks does to a row, as far as the counts go.
LEMMA ResetCount ==
    ASSUME TypeOK, NEW j \in JobIds
    PROVE  /\ JobAfterReset(j).attempts = job[j].attempts
           /\ JobAfterReset(j).status = "pending" =>
                 job[j].status = "pending" \/ job[j].attempts < MaxAttempts(j)
  BY ResetType, MaxAttemptsType DEF GivenUp, TypeOK, Rows

LEMMA NewRowCount ==
    ASSUME TypeOK, NEW j \in JobIds, job[j] = NoRow,
           NEW born, NEW about, job'[j] = NewRow(born, about)
    PROVE  job'[j].attempts = job[j].attempts /\ job[j].attempts < MaxAttempts(j)
  BY MaxAttemptsType DEF NewRow, NoRow

\* A row is put back to pending only with an attempt left.
LEMMA SettledCount ==
    ASSUME TypeOK, OneOwner, NEW w \in Workers, worker[w].pc = "called"
    PROVE  /\ Settled(w).attempts = job[worker[w].job].attempts
           /\ Settled(w).status = "pending" =>
                 job[worker[w].job].attempts < MaxAttempts(worker[w].job)
  <1>1. Busy(w) /\ worker[w].result # "none"
    BY DEF Busy, TypeOK
  <1>2. worker[w].job \in JobIds /\ worker[w].attempts \in Nat
        /\ worker[w].attempts = job[worker[w].job].attempts
    BY <1>1 DEF TypeOK, OneOwner, Processes
  <1>3. worker[w].result \in {"done", "already", "error", "blocked"}
    BY <1>1 DEF TypeOK, Processes
  <1>4. Outcome(w) = "pending" => worker[w].attempts < MaxAttempts(worker[w].job)
    BY <1>2, <1>3, MaxAttemptsType DEF Outcome, Exhausted
  <1> QED
    BY <1>1, <1>2, <1>4, SettledType

LEMMA CountStep ==
    TypeOK /\ OneOwner /\ CountInv /\ [Next]_vars => CountInv'
  <1> SUFFICES ASSUME TypeOK, OneOwner, CountInv, [Next]_vars PROVE CountInv'
    OBVIOUS
  <1>1. CASE CreateInbound
    BY <1>1, NewRowCount, CountKept DEF CreateInbound, JobIds, history
  <1>2. CASE CreateOutbound
    <2>1. PICK j \in OutboundJobs : job[j] = NoRow /\ job' = [job EXCEPT ![j] = NewRow(0, Null)]
      BY <1>2 DEF CreateOutbound
    <2>2. j \in JobIds /\ job'[j] = NewRow(0, Null) /\ \A k \in JobIds : k # j => job'[k] = job[k]
      BY <2>1 DEF TypeOK, JobIds
    <2> QED
      BY <1>2, <2>1, <2>2, NewRowCount, CountKept DEF CreateOutbound, history
  <1>3. ASSUME NEW w \in Workers, Start(w) \/ LoseLock(w) \/ Crash(w) \/ LeaveJob(w) PROVE CountInv'
    <2>1. job' = job /\ sent' = sent
      BY <1>3 DEF Start, LoseLock, Crash, LeaveJob, queue, history
    <2>2. \A v \in Workers : worker'[v] = worker[v] \/ worker'[v].pc \in {"down", "idle"}
      BY <1>3, ProcessType DEF Start, LoseLock, Crash, LeaveJob, TypeOK
    <2> QED
      BY <2>1, <2>2, CountKept
  <1>4. ASSUME NEW w \in Workers, ClaimNext(w) PROVE CountInv'
    <2>1. PICK j \in JobIds :
            /\ Due(JobAfterReset(j))
            /\ job' = [k \in JobIds |-> IF k = j THEN Claimed(JobAfterReset(j), w) ELSE JobAfterReset(k)]
            /\ worker' = [worker EXCEPT ![w] = [Idle EXCEPT !.pc = "claimed", !.job = j, !.began = 0]]
      BY <1>4 DEF ClaimNext
    <2>2. /\ job'[j].status = "processing"
          /\ job'[j].attempts = job[j].attempts + 1
          /\ job[j].attempts < MaxAttempts(j)
      BY <2>1, ResetType, ResetCount, ClaimedType DEF Due, CountInv, AttemptsBounded
    <2>3. \A k \in JobIds : k # j =>
            /\ job'[k].attempts = job[k].attempts
            /\ job'[k].status = "pending" =>
                  job[k].status = "pending" \/ job[k].attempts < MaxAttempts(k)
      BY <2>1, ResetCount
    <2>4. sent' = sent
      BY <1>4 DEF ClaimNext
    <2>5. \A k \in JobIds : job[k].attempts \in Nat /\ sent[k] \in Nat /\ MaxAttempts(k) \in Nat
      BY MaxAttemptsType DEF TypeOK, Rows
    <2>6. \A v \in Workers : \/ v = w /\ worker'[v].job = j
                             \/ worker'[v] = worker[v]
      BY <2>1 DEF TypeOK, Idle, Down
    <2>7. \A v \in Workers : worker[v].pc \in {"claimed", "loaded"} => worker[v].job \in JobIds
      BY DEF TypeOK, Busy
    <2>8. AttemptsBounded'
      BY <2>2, <2>3, <2>5 DEF CountInv, AttemptsBounded
    <2>9. \A k \in JobIds : sent'[k] <= job'[k].attempts /\ sent'[j] < job'[j].attempts
      BY <2>2, <2>3, <2>4, <2>5 DEF CountInv
    <2>10. \A v \in Workers : worker'[v].pc \in {"claimed", "loaded"} =>
             sent'[worker'[v].job] < job'[worker'[v].job].attempts
      <3> SUFFICES ASSUME NEW v \in Workers, worker'[v].pc \in {"claimed", "loaded"}, worker'[v].job # j
                   PROVE  sent'[worker'[v].job] < job'[worker'[v].job].attempts
        BY <2>9
      <3> QED
        BY <2>3, <2>4, <2>6, <2>7 DEF CountInv
    <2> QED
      BY <2>8, <2>9, <2>10 DEF CountInv
  <1>5. ASSUME NEW w \in Workers, ResetOnly(w) PROVE CountInv'
    BY <1>5, ResetCount, CountKept DEF ResetOnly
  <1>6. ASSUME NEW w \in Workers, LoadJob(w) PROVE CountInv'
    <2>1. \A v \in Workers : worker'[v].pc \in {"claimed", "loaded"} =>
            worker[v].pc \in {"claimed", "loaded"} /\ worker'[v].job = worker[v].job
      BY <1>6 DEF LoadJob, TypeOK, Processes
    <2> QED
      BY <1>6, <2>1, CountKept DEF LoadJob, queue, history
  <1>7. ASSUME NEW w \in Workers, CallFails(w) \/ Block(w) PROVE CountInv'
    <2>1. \A v \in Workers : worker'[v] = worker[v] \/ worker'[v].pc = "called"
      BY <1>7 DEF CallFails, Block, Called, TypeOK, Processes
    <2> QED
      BY <1>7, <2>1, CountKept DEF CallFails, Block, queue, history
  <1>8. ASSUME NEW w \in Workers, Deliver(w) PROVE CountInv'
    <2> DEFINE j == worker[w].job
    <2>1. j \in JobIds /\ sent[j] < job[j].attempts /\ job' = job
      BY <1>8 DEF Deliver, queue, TypeOK, Busy, CountInv
    <2>2. sent' = [sent EXCEPT ![j] = @ + 1]
      BY <1>8 DEF Deliver
    <2>3. \A k \in JobIds : sent[k] \in Nat /\ job[k].attempts \in Nat
      BY DEF TypeOK, Rows
    <2>4. \A k \in JobIds : sent'[k] <= job'[k].attempts /\ (k # j => sent'[k] = sent[k])
      BY <2>1, <2>2, <2>3 DEF CountInv, TypeOK
    <2>5. \A v \in Workers : v # w => worker'[v].pc = "down"
      BY <1>8, Alone DEF Deliver, Called, TypeOK
    <2>6. worker'[w].pc = "called"
      <3>1. Called(w, "done") \/ Called(w, "error")
        BY <1>8 DEF Deliver
      <3> QED
        BY <3>1 DEF Called, TypeOK, Processes
    <2> QED
      BY <2>1, <2>4, <2>5, <2>6 DEF CountInv, AttemptsBounded
  <1>9. ASSUME NEW w \in Workers, Commit(w) PROVE CountInv'
    <2> DEFINE j == worker[w].job
    <2>1. j \in JobIds /\ worker[w].pc = "called" /\ sent' = sent /\ Busy(w)
      BY <1>9 DEF Commit, TypeOK, Busy, history
    <2>2. \A v \in Workers : worker'[v] = worker[v] \/ worker'[v].pc = "idle"
      BY <1>9, ProcessType DEF Commit, TypeOK
    <2>3. CASE job' = [job EXCEPT ![j] = Settled(w)]
      BY <2>1, <2>2, <2>3, SettledCount, CountKept DEF TypeOK
    <2>4. ASSUME NEW n \in NoteJobs, job[n] = NoRow,
                 job' = [job EXCEPT ![j] = Settled(w), ![n] = NewRow(worker[w].began, j)]
          PROVE  CountInv'
      <3>1. n \in JobIds /\ n # j
        BY <2>1, <2>4 DEF JobIds, OneOwner, Owned, NoRow
      <3>2. job'[j] = Settled(w) /\ job'[n] = NewRow(worker[w].began, j)
            /\ \A k \in JobIds : k # j /\ k # n => job'[k] = job[k]
        BY <2>1, <2>4, <3>1 DEF TypeOK
      <3>3. /\ Settled(w).attempts = job[j].attempts
            /\ Settled(w).status = "pending" => job[j].attempts < MaxAttempts(j)
        BY <2>1, SettledCount
      <3>4. job'[n].attempts = job[n].attempts /\ job[n].attempts < MaxAttempts(n)
        BY <2>4, <3>1, <3>2, NewRowCount
      <3>5. \A k \in JobIds :
              /\ job'[k].attempts = job[k].attempts
              /\ job'[k].status = "pending" =>
                    job[k].status = "pending" \/ job[k].attempts < MaxAttempts(k)
        BY <3>1, <3>2, <3>3, <3>4
      <3> QED
        BY <2>1, <2>2, <3>5, CountKept
    <2> QED
      BY <1>9, <2>3, <2>4 DEF Commit
  <1>10. CASE Tick
    <2>1. \A v \in Workers : worker'[v].pc = worker[v].pc /\ worker'[v].job = worker[v].job
      BY <1>10 DEF Tick, TypeOK, Processes
    <2>2. \A j \in JobIds : job'[j].status = job[j].status /\ job'[j].attempts = job[j].attempts
      BY <1>10 DEF Tick, TypeOK, Rows
    <2> QED
      BY <1>10, <2>1, <2>2, CountKept DEF Tick, history
  <1>11. CASE UNCHANGED vars
    BY <1>11 DEF vars, history, CountInv, AttemptsBounded
  <1> QED
    BY <1>1, <1>2, <1>3, <1>4, <1>5, <1>6, <1>7, <1>8, <1>9, <1>10, <1>11 DEF Next, Work

LEMMA CountInit == Init => CountInv
  <1> SUFFICES ASSUME Init PROVE CountInv
    OBVIOUS
  <1>1. \A j \in JobIds : job[j].attempts = 0 /\ job[j].status = "absent" /\ sent[j] = 0
    BY DEF Init, NoRow
  <1>2. AttemptsBounded
    BY <1>1, MaxAttemptsType DEF AttemptsBounded
  <1>3. \A w \in Workers : worker[w].pc = "down"
    BY ProcessType DEF Init
  <1> QED
    BY <1>1, <1>2, <1>3 DEF CountInv

\* While the lock is kept, an attempt is counted for every call, and none beyond the
\* policy (the inductive form of AttemptsBounded).
THEOREM CountHolds == ASSUME ~LockMayBeLost PROVE Spec => []CountInv
  BY CountInit, CountStep, TypeCorrect, OwnerHolds, PTL DEF Spec

\* While the lock is kept no job gets more attempts than its policy allows.
THEOREM AttemptsHold == ASSUME ~LockMayBeLost PROVE Spec => []AttemptsBounded
  <1>1. CountInv => AttemptsBounded
    BY DEF CountInv
  <1> QED
    BY <1>1, CountHolds, PTL
---------------------------------------------------------------------------
(* How the status of one row may change in a step *)

\* A row changes its status only along the life of a job: nothing leaves a closed
\* status, and a row is put down as succeeded only by a worker that came back
\* from its call with an applied message.
StatusMoves(j) ==
    \/ job'[j].status = job[j].status
    \/ job[j].status = "absent" /\ job'[j].status = "pending"
    \/ Open(j) /\ job'[j].status \in OpenStatuses \cup {"failed", "blocked"}
    \/ /\ Open(j) /\ job'[j].status = "succeeded"
       /\ \E w \in Workers : /\ worker[w].pc = "called" /\ worker[w].job = j
                             /\ worker[w].result \in {"done", "already"}

LEMMA ResetMoves ==
    ASSUME TypeOK, NEW j \in JobIds
    PROVE  \/ JobAfterReset(j).status = job[j].status
           \/ Open(j) /\ JobAfterReset(j).status \in {"pending", "failed"}
  BY ResetType DEF Stale, Open, OpenStatuses

LEMMA StatusStep ==
    ASSUME TypeOK, OneOwner, [Next]_vars, NEW j \in JobIds
    PROVE  StatusMoves(j)
  <1>0. NoRow.status = "absent"
    BY DEF NoRow
  <1>1. CASE CreateInbound
    BY <1>0, <1>1, NewRowType DEF CreateInbound, StatusMoves
  <1>2. CASE CreateOutbound
    BY <1>0, <1>2, NewRowType DEF CreateOutbound, StatusMoves, TypeOK, JobIds
  <1>3. CASE job' = job
    BY <1>3 DEF StatusMoves
  <1>4. ASSUME NEW w \in Workers, ClaimNext(w) PROVE StatusMoves(j)
    <2>1. PICK k \in JobIds :
            /\ Due(JobAfterReset(k))
            /\ job' = [i \in JobIds |-> IF i = k THEN Claimed(JobAfterReset(k), w) ELSE JobAfterReset(i)]
      BY <1>4 DEF ClaimNext
    <2>2. CASE j = k
      <3>1. job'[j].status = "processing" /\ JobAfterReset(j).status = "pending"
        BY <2>1, <2>2, ResetType, ClaimedType DEF Due
      <3> QED
        BY <3>1, ResetMoves DEF StatusMoves, Open, OpenStatuses
    <2>3. CASE j # k
      BY <2>1, <2>3, ResetMoves DEF StatusMoves, OpenStatuses
    <2> QED
      BY <2>2, <2>3
  <1>5. ASSUME NEW w \in Workers, ResetOnly(w) PROVE StatusMoves(j)
    BY <1>5, ResetMoves DEF ResetOnly, StatusMoves, OpenStatuses
  <1>6. ASSUME NEW w \in Workers, Commit(w) PROVE StatusMoves(j)
    <2> DEFINE k == worker[w].job
    <2>1. k \in JobIds /\ worker[w].pc = "called" /\ Busy(w) /\ worker[w].result # "none"
      BY <1>6 DEF Commit, TypeOK, Busy
    <2>2. job[k].status = "processing"
      BY <2>1 DEF OneOwner, Owned
    <2>3. /\ Settled(w).status \in {"pending", "succeeded", "failed", "blocked"}
          /\ Settled(w).status = "succeeded" => worker[w].result \in {"done", "already"}
      <3>1. worker[w].result \in {"done", "already", "error", "blocked"}
        BY <2>1 DEF TypeOK, Processes
      <3> QED
        BY <2>1, <3>1, SettledType DEF Outcome
    <2>4. CASE job' = [job EXCEPT ![k] = Settled(w)]
      BY <2>1, <2>2, <2>3, <2>4 DEF TypeOK, StatusMoves, Open, OpenStatuses
    <2>5. ASSUME NEW n \in NoteJobs, job[n] = NoRow,
                 job' = [job EXCEPT ![k] = Settled(w), ![n] = NewRow(worker[w].began, k)]
          PROVE  StatusMoves(j)
      <3>1. n # k /\ n \in JobIds
        BY <2>2, <2>5, <1>0 DEF JobIds
      <3>2. job'[n].status = "pending" /\ job'[k] = Settled(w)
            /\ \A i \in JobIds : i # k /\ i # n => job'[i] = job[i]
        BY <2>1, <2>5, <3>1 DEF TypeOK, NewRow, NoRow
      <3> QED
        BY <1>0, <2>1, <2>2, <2>3, <2>5, <3>2 DEF StatusMoves, Open, OpenStatuses
    <2> QED
      BY <1>6, <2>4, <2>5 DEF Commit
  <1>7. CASE Tick
    BY <1>7 DEF Tick, StatusMoves, TypeOK, Rows
  <1> QED
    BY <1>1, <1>2, <1>3, <1>4, <1>5, <1>6, <1>7
       DEF Next, Work, Start, LoseLock, Crash, LoadJob, LeaveJob, Deliver, CallFails, Block,
           vars, queue

\* While the lock is kept, the outcome of a job is final.
THEOREM OutcomeHolds == ASSUME ~LockMayBeLost PROVE Spec => OutcomeIsFinal
  <1>1. TypeOK /\ OneOwner /\ [Next]_vars =>
          [\A j \in JobIds : Closed(j) => job'[j].status = job[j].status]_vars
    <2> SUFFICES ASSUME TypeOK, OneOwner, [Next]_vars, NEW j \in JobIds, Closed(j)
                 PROVE  job'[j].status = job[j].status
      OBVIOUS
    <2> QED
      BY StatusStep DEF StatusMoves, Open, Closed, OpenStatuses, ClosedStatuses
  <1> QED
    BY <1>1, TypeCorrect, OwnerHolds, PTL DEF Spec, OutcomeIsFinal
---------------------------------------------------------------------------
(* The two records of an inbound message agree *)

\* While a call is on its way the mapping is open, so that an inbound job is never
\* found delivered already, and it cannot be blocked.
MappingInv ==
    /\ MappingAgrees
    /\ \A w \in Workers : worker[w].pc = "called" /\ worker[w].job \in InboundJobs =>
            worker[w].result \in {"done", "error"}

Expected(status) ==
    CASE status = "absent" -> "none"
      [] status \in OpenStatuses -> "pending"
      [] OTHER -> status

LEMMA ExpectedAgrees ==
    MappingAgrees <=> \A j \in InboundJobs : mapping[j] = Expected(job[j].status)
  BY DEF MappingAgrees, Expected, Open

LEMMA ExpectedAgreesNext ==
    MappingAgrees' <=> \A j \in InboundJobs : mapping'[j] = Expected(job'[j].status)
  BY DEF MappingAgrees, Expected, Open

LEMMA ExpectedValues ==
    /\ Expected("absent") = "none"
    /\ Expected("pending") = "pending" /\ Expected("processing") = "pending"
    /\ Expected("succeeded") = "succeeded" /\ Expected("failed") = "failed"
  BY DEF Expected, OpenStatuses

LEMMA AgreementStep ==
    ASSUME TypeOK, OneOwner, MappingInv, [Next]_vars, NEW j \in InboundJobs
    PROVE  mapping'[j] = Expected(job'[j].status)
  <1>0. /\ NoRow.status = "absent" /\ j \in JobIds
        /\ mapping[j] = Expected(job[j].status)
    BY ExpectedAgrees DEF NoRow, JobIds, MappingInv
  <1>1. CASE CreateInbound
    BY <1>0, <1>1, NewRowType, ExpectedValues DEF CreateInbound
  <1>2. CASE CreateOutbound
    BY <1>0, <1>2, JobsAssumption DEF CreateOutbound, TypeOK, JobIds
  <1>3. CASE job' = job /\ mapping' = mapping
    BY <1>0, <1>3
  <1>4. ASSUME ResetStale PROVE mapping'[j] = Expected(JobAfterReset(j).status)
    <2>1. mapping'[j] = MappingAfterReset(j)
      BY <1>4 DEF ResetStale
    <2>2. CASE Stale(j)
      BY <2>1, <2>2, <1>0, ResetType, ExpectedValues DEF MappingAfterReset, GivenUp, Stale
    <2>3. CASE ~Stale(j)
      BY <2>1, <2>3, <1>0, ResetType DEF MappingAfterReset, GivenUp
    <2> QED
      BY <2>2, <2>3
  <1>5. ASSUME NEW w \in Workers, ClaimNext(w) PROVE mapping'[j] = Expected(job'[j].status)
    <2>1. PICK k \in JobIds :
            /\ Due(JobAfterReset(k))
            /\ job' = [i \in JobIds |-> IF i = k THEN Claimed(JobAfterReset(k), w) ELSE JobAfterReset(i)]
      BY <1>5 DEF ClaimNext
    <2>2. mapping'[j] = Expected(JobAfterReset(j).status)
      BY <1>4, <1>5 DEF ClaimNext
    <2>3. CASE j = k
      <3>1. job'[j].status = "processing" /\ JobAfterReset(j).status = "pending"
        BY <1>0, <2>1, <2>3, ResetType, ClaimedType DEF Due
      <3> QED
        BY <2>2, <3>1, ExpectedValues
    <2>4. CASE j # k
      BY <1>0, <2>1, <2>2, <2>4
    <2> QED
      BY <2>3, <2>4
  <1>6. ASSUME NEW w \in Workers, ResetOnly(w) PROVE mapping'[j] = Expected(job'[j].status)
    BY <1>0, <1>4, <1>6 DEF ResetOnly
  <1>7. ASSUME NEW w \in Workers, Commit(w) PROVE mapping'[j] = Expected(job'[j].status)
    <2> DEFINE k == worker[w].job
    <2>1. k \in JobIds /\ worker[w].pc = "called" /\ Busy(w) /\ worker[w].result # "none"
      BY <1>7 DEF Commit, TypeOK, Busy
    <2>2. job[k].status = "processing"
      BY <2>1 DEF OneOwner, Owned
    <2>3. job'[k] = Settled(w) /\ (j # k => job'[j] = job[j])
      <3>1. CASE job' = [job EXCEPT ![k] = Settled(w)]
        BY <1>0, <2>1, <3>1 DEF TypeOK
      <3>2. ASSUME NEW n \in NoteJobs, job[n] = NoRow,
                   job' = [job EXCEPT ![k] = Settled(w), ![n] = NewRow(worker[w].began, k)]
            PROVE  <2>3
        <4>1. n # k /\ n # j
          BY <1>0, <2>2, <3>2, JobsAssumption
        <4> QED
          BY <1>0, <2>1, <3>2, <4>1 DEF TypeOK
      <3> QED
        BY <1>7, <3>1, <3>2 DEF Commit
    <2>4. CASE j = k
      <3>1. mapping'[j] = MappingAfterCall(w) /\ mapping[j] = "pending"
        BY <1>0, <1>7, <2>2, <2>4, ExpectedValues DEF Commit, TypeOK
      <3>2. worker[w].result \in {"done", "error"}
        BY <2>1, <2>4 DEF MappingInv
      <3>3. job'[j].status = Outcome(w)
        BY <2>1, <2>3, <2>4, SettledType
      <3>4. CASE worker[w].result = "done"
        BY <3>1, <3>3, <3>4, ExpectedValues DEF MappingAfterCall, Outcome
      <3>5. CASE worker[w].result = "error"
        <4>1. Outcome(w) \in {"failed", "pending"}
          BY <3>5 DEF Outcome
        <4> QED
          BY <2>4, <3>1, <3>3, <3>5, <4>1, ExpectedValues DEF MappingAfterCall
      <3> QED
        BY <3>2, <3>4, <3>5
    <2>5. CASE j # k
      <3>1. mapping'[j] = mapping[j]
        BY <1>7, <2>5 DEF Commit, TypeOK
      <3> QED
        BY <1>0, <2>3, <2>5, <3>1
    <2> QED
      BY <2>4, <2>5
  <1>8. CASE Tick
    <2>1. job'[j].status = job[j].status /\ mapping' = mapping
      BY <1>0, <1>8 DEF Tick, TypeOK, Rows
    <2> QED
      BY <1>0, <2>1
  <1> QED
    BY <1>1, <1>2, <1>3, <1>5, <1>6, <1>7, <1>8
       DEF Next, Work, Start, LoseLock, Crash, LoadJob, LeaveJob, Deliver, CallFails, Block,
           vars, queue

LEMMA CallStep ==
    ASSUME TypeOK, OneOwner, MappingInv, [Next]_vars, NEW v \in Workers,
           worker'[v].pc = "called", worker'[v].job \in InboundJobs
    PROVE  worker'[v].result \in {"done", "error"}
  <1>1. CASE worker'[v] = worker[v]
    BY <1>1 DEF MappingInv
  <1>2. ASSUME NEW w \in Workers, NEW p, p.pc # "called", worker' = [worker EXCEPT ![w] = p]
        PROVE  worker'[v].result \in {"done", "error"}
    <2>1. v # w
      BY <1>2 DEF TypeOK
    <2> QED
      BY <1>1, <1>2, <2>1 DEF TypeOK
  <1>3. ASSUME NEW w \in Workers, LoadJob(w) PROVE worker'[v].result \in {"done", "error"}
    <2>1. CASE v = w
      <3>1. worker[w].pc = "claimed" /\ worker'[w].job = worker[w].job /\ Delivered(worker[w].job)
        BY <1>3, <2>1 DEF LoadJob, TypeOK, Processes
      <3>2. worker[w].job \in InboundJobs /\ mapping[worker[w].job] = "succeeded"
        BY <3>1 DEF Delivered
      <3>3. job[worker[w].job].status = "processing"
        BY <3>1 DEF OneOwner, Owned, Busy
      <3> QED
        BY <3>2, <3>3, ExpectedAgrees, ExpectedValues DEF MappingInv
    <2>2. CASE v # w
      BY <1>1, <1>3, <2>2 DEF LoadJob, TypeOK
    <2> QED
      BY <2>1, <2>2
  <1>4. ASSUME NEW w \in Workers, Called(w, "done") \/ Called(w, "error")
        PROVE  worker'[v].result \in {"done", "error"}
    <2>1. CASE v = w
      BY <1>4, <2>1 DEF Called, TypeOK, Processes
    <2>2. CASE v # w
      BY <1>1, <1>4, <2>2 DEF Called, TypeOK
    <2> QED
      BY <2>1, <2>2
  <1>5. ASSUME NEW w \in Workers, Block(w) PROVE worker'[v].result \in {"done", "error"}
    <2>1. CASE v = w
      <3>1. worker'[w].job = worker[w].job /\ worker[w].job \in OutboundJobs
        BY <1>5 DEF Block, Called, TypeOK, Processes
      <3> QED
        BY <2>1, <3>1, JobsAssumption
    <2>2. CASE v # w
      BY <1>1, <1>5, <2>2 DEF Block, Called, TypeOK
    <2> QED
      BY <2>1, <2>2
  <1>6. ASSUME NEW w \in Workers, ClaimNext(w) PROVE worker'[v].result \in {"done", "error"}
    <2>1. PICK j \in JobIds : worker' = [worker EXCEPT ![w] = [Idle EXCEPT !.pc = "claimed", !.job = j, !.began = 0]]
      BY <1>6 DEF ClaimNext
    <2> DEFINE p == [Idle EXCEPT !.pc = "claimed", !.job = j, !.began = 0]
    <2>2. p.pc # "called"
      BY ProcessType
    <2>3. worker' = [worker EXCEPT ![w] = p]
      BY <2>1
    <2> HIDE DEF p
    <2> QED
      BY <1>2, <2>2, <2>3
  <1>7. CASE Tick
    <2>1. /\ worker'[v].pc = worker[v].pc /\ worker'[v].job = worker[v].job
          /\ worker'[v].result = worker[v].result
      BY <1>7 DEF Tick, TypeOK, Processes
    <2> QED
      BY <2>1 DEF MappingInv
  <1>8. ASSUME NEW w \in Workers, Start(w) \/ Crash(w) \/ LeaveJob(w) \/ Commit(w)
        PROVE  worker'[v].result \in {"done", "error"}
    <2>1. worker' = [worker EXCEPT ![w] = Idle] \/ worker' = [worker EXCEPT ![w] = Down]
      BY <1>8 DEF Start, Crash, LeaveJob, Commit
    <2> QED
      BY <1>2, <2>1, ProcessType
  <1> QED
    BY <1>1, <1>3, <1>4, <1>5, <1>6, <1>7, <1>8
       DEF Next, Work, CreateInbound, CreateOutbound, LoseLock, ResetOnly, Deliver, CallFails, vars

\* While the lock is kept, the mapping of an inbound message is final exactly when
\* and as its job is.
THEOREM MappingHolds == ASSUME ~LockMayBeLost PROVE Spec => []MappingAgrees
  <1>1. Init => MappingInv
    <2> SUFFICES ASSUME Init PROVE MappingInv
      OBVIOUS
    <2>1. \A j \in InboundJobs : mapping[j] = "none" /\ job[j].status = "absent"
      BY DEF Init, NoRow, JobIds
    <2>2. \A w \in Workers : worker[w].pc = "down"
      BY ProcessType DEF Init
    <2> QED
      BY <2>1, <2>2, ExpectedAgrees, ExpectedValues DEF MappingInv
  <1>2. TypeOK /\ OneOwner /\ MappingInv /\ [Next]_vars => MappingInv'
    BY AgreementStep, CallStep, ExpectedAgreesNext DEF MappingInv
  <1>3. MappingInv => MappingAgrees
    BY DEF MappingInv
  <1> QED
    BY <1>1, <1>2, <1>3, TypeCorrect, OwnerHolds, PTL DEF Spec

---------------------------------------------------------------------------
(* Duplicates have a reason *)

\* A message on its way out that is applied already belongs to nobody else.
LEMMA NotApplied ==
    ASSUME TypeOK, OneOwner, DuplicatesExplained, NEW j \in JobIds \ unsure,
           NEW w \in Workers, worker[w].pc \in {"claimed", "loaded"}, worker[w].job = j
    PROVE  sent[j] = 0
  <1>1. job[j].status = "processing"
    BY DEF OneOwner, Owned, Busy
  <1>2. \A v \in Workers : ~(worker[v].pc = "called" /\ worker[v].job = j)
    BY Alone
  <1>3. sent[j] # 1 /\ sent[j] <= 1 /\ sent[j] \in Nat
    BY <1>1, <1>2 DEF DuplicatesExplained, TypeOK
  <1> QED
    BY <1>3

LEMMA DuplicatesStep ==
    ASSUME TypeOK, OneOwner, DuplicatesExplained, [Next]_vars, NEW j \in JobIds \ unsure'
    PROVE  /\ sent'[j] <= 1
           /\ sent'[j] = 1 =>
                \/ job'[j].status = "succeeded"
                \/ \E w \in Workers : worker'[w].pc = "called" /\ worker'[w].job = j
                                      /\ worker'[w].result = "done"
  <1> DEFINE Goal == /\ sent'[j] <= 1
                     /\ sent'[j] = 1 =>
                          \/ job'[j].status = "succeeded"
                          \/ \E w \in Workers : worker'[w].pc = "called" /\ worker'[w].job = j
                                                /\ worker'[w].result = "done"
             Out(w) == worker[w].pc = "called" /\ worker[w].job = j /\ worker[w].result = "done"
  <1>1. unsure \subseteq unsure'
    BY DEF Next, Work, CreateInbound, CreateOutbound, Start, LoseLock, Crash, ClaimNext, ResetOnly, LoadJob,
           LeaveJob, Deliver, CallFails, Block, Commit, Tick, vars, history
  <1>2. j \in JobIds \ unsure
    BY <1>1
  <1>3. /\ sent[j] \in Nat /\ sent[j] <= 1
        /\ sent[j] = 1 => job[j].status = "succeeded" \/ \E w \in Workers : Out(w)
    BY <1>2 DEF DuplicatesExplained, TypeOK
  <1>4. job[j].status = "succeeded" => job'[j].status = "succeeded"
    BY <1>2, StatusStep DEF StatusMoves, Open, OpenStatuses
  <1>5. ASSUME sent' = sent, \A w \in Workers : Out(w) => worker'[w] = worker[w]
        PROVE  Goal
    BY <1>3, <1>4, <1>5
  <1>6. ASSUME NEW w \in Workers, worker[w].pc # "called", NEW p, worker' = [worker EXCEPT ![w] = p],
               sent' = sent
        PROVE  Goal
    <2>1. \A v \in Workers : Out(v) => worker'[v] = worker[v]
      BY <1>6 DEF TypeOK
    <2> QED
      BY <1>5, <1>6, <2>1
  <1>7. ASSUME NEW w \in Workers, Start(w) PROVE Goal
    BY <1>6, <1>7 DEF Start, history
  <1>8. ASSUME NEW w \in Workers, Crash(w) PROVE Goal
    <2>1. ~Out(w)
      BY <1>8, <1>2 DEF Crash
    <2>2. \A v \in Workers : Out(v) => worker'[v] = worker[v]
      BY <1>8, <2>1 DEF Crash, TypeOK
    <2> QED
      BY <1>5, <1>8, <2>2 DEF Crash
  <1>9. ASSUME NEW w \in Workers, ClaimNext(w) PROVE Goal
    <2>1. PICK k \in JobIds : worker' = [worker EXCEPT ![w] = [Idle EXCEPT !.pc = "claimed", !.job = k, !.began = 0]]
      BY <1>9 DEF ClaimNext
    <2> DEFINE p == [Idle EXCEPT !.pc = "claimed", !.job = k, !.began = 0]
    <2>2. worker' = [worker EXCEPT ![w] = p]
      BY <2>1
    <2> HIDE DEF p, Goal
    <2> QED
      BY <1>6, <1>9, <2>2 DEF ClaimNext
  <1>10. ASSUME NEW w \in Workers, LoadJob(w) PROVE Goal
    <2>1. \A v \in Workers : Out(v) => worker'[v] = worker[v]
      BY <1>10 DEF LoadJob, TypeOK
    <2> QED
      BY <1>5, <1>10, <2>1 DEF LoadJob, history
  <1>11. ASSUME NEW w \in Workers, LeaveJob(w) PROVE Goal
    BY <1>6, <1>11 DEF LeaveJob, history
  <1>12. ASSUME NEW w \in Workers, NEW r, Called(w, r), worker[w].pc = "loaded", sent' = sent PROVE Goal
    <2>1. \A v \in Workers : Out(v) => worker'[v] = worker[v]
      BY <1>12 DEF Called, TypeOK
    <2> QED
      BY <1>5, <1>12, <2>1
  <1>13. ASSUME NEW w \in Workers, Deliver(w) PROVE Goal
    <2>1. worker[w].pc = "loaded" /\ sent' = [sent EXCEPT ![worker[w].job] = @ + 1]
      BY <1>13 DEF Deliver
    <2>2. CASE worker[w].job = j
      <3>1. sent[j] = 0
        BY <1>2, <2>1, <2>2, NotApplied
      <3>2. sent'[j] = 1
        BY <2>1, <2>2, <3>1 DEF TypeOK
      <3>3. Called(w, "done")
        BY <1>13, <2>2 DEF Deliver
      <3>4. worker'[w].pc = "called" /\ worker'[w].job = j /\ worker'[w].result = "done"
        BY <2>2, <3>3 DEF Called, TypeOK, Processes
      <3> QED
        BY <3>2, <3>4
    <2>3. CASE worker[w].job # j
      <3>1. sent'[j] = sent[j]
        BY <2>1, <2>3 DEF TypeOK
      <3>2. \A v \in Workers : Out(v) => worker'[v] = worker[v]
        BY <1>13, <2>1 DEF Deliver, Called, TypeOK
      <3> QED
        BY <1>3, <1>4, <3>1, <3>2
    <2> QED
      BY <2>2, <2>3
  <1>14. ASSUME NEW w \in Workers, Commit(w) PROVE Goal
    <2>1. CASE Out(w)
      <3>1. Busy(w) /\ worker[w].result # "none" /\ Outcome(w) = "succeeded"
        BY <1>14, <2>1 DEF Busy, Outcome
      <3>2. job'[j] = Settled(w)
        <4>1. j \in JobIds /\ job[j].status = "processing"
          BY <2>1, <3>1 DEF OneOwner, Owned
        <4>2. \A n \in NoteJobs : job[n] = NoRow => n # j
          BY <4>1 DEF NoRow
        <4> QED
          BY <1>14, <2>1, <4>1, <4>2 DEF Commit, TypeOK
      <3>3. job'[j].status = "succeeded"
        BY <3>1, <3>2, SettledType
      <3> QED
        BY <1>3, <1>14, <3>3 DEF Commit, history
    <2>2. CASE ~Out(w)
      <3>1. \A v \in Workers : Out(v) => worker'[v] = worker[v]
        BY <1>14, <2>2 DEF Commit, TypeOK
      <3> QED
        BY <1>5, <1>14, <3>1 DEF Commit, history
    <2> QED
      BY <2>1, <2>2
  <1>15. ASSUME Tick PROVE Goal
    <2>1. \A v \in Workers : /\ worker'[v].pc = worker[v].pc /\ worker'[v].job = worker[v].job
                             /\ worker'[v].result = worker[v].result
      BY <1>15 DEF Tick, TypeOK, Processes
    <2> QED
      BY <1>3, <1>4, <1>15, <2>1 DEF Tick, history
  <1>16. ASSUME worker' = worker /\ sent' = sent PROVE Goal
    BY <1>5, <1>16
  <1> HIDE DEF Goal, Out
  <1>17. ASSUME NEW w \in Workers, CallFails(w) PROVE Goal
    <2>1. Called(w, "error") /\ worker[w].pc = "loaded" /\ sent' = sent
      BY <1>17 DEF CallFails, history
    <2> QED
      BY <1>12, <2>1
  <1>18. ASSUME NEW w \in Workers, Block(w) PROVE Goal
    <2>1. Called(w, "blocked") /\ worker[w].pc = "loaded" /\ sent' = sent
      BY <1>18 DEF Block, history
    <2> QED
      BY <1>12, <2>1
  <1>19. ASSUME NEW w \in Workers, Work(w) PROVE Goal
    <2>1. ASSUME ResetOnly(w) PROVE Goal
      BY <1>16, <2>1 DEF ResetOnly
    <2> QED
      BY <1>9, <1>10, <1>11, <1>13, <1>14, <1>17, <1>18, <1>19, <2>1 DEF Work
  <1>20. ASSUME NEW w \in Workers, LoseLock(w) PROVE Goal
    BY <1>16, <1>20 DEF LoseLock, history
  <1>21. ASSUME CreateInbound \/ CreateOutbound PROVE Goal
    BY <1>16, <1>21 DEF CreateInbound, CreateOutbound, history
  <1>22. ASSUME UNCHANGED vars PROVE Goal
    BY <1>16, <1>22 DEF vars, history
  <1>23. Goal
    BY <1>7, <1>8, <1>15, <1>19, <1>20, <1>21, <1>22 DEF Next
  <1> QED
    BY <1>23 DEF Goal

\* While the lock is kept, a message is applied twice only after an application
\* that nobody could record.
THEOREM DuplicatesHold == ASSUME ~LockMayBeLost PROVE Spec => []DuplicatesExplained
  <1>1. Init => DuplicatesExplained
    BY DEF Init, DuplicatesExplained
  <1>2. TypeOK /\ OneOwner /\ DuplicatesExplained /\ [Next]_vars => DuplicatesExplained'
    BY DuplicatesStep DEF DuplicatesExplained
  <1> QED
    BY <1>1, <1>2, TypeCorrect, OwnerHolds, PTL DEF Spec

---------------------------------------------------------------------------
(* The queue keeps its contract *)

\* A worker that reports success, now or through the mapping, has an applied
\* message behind it.
AppliedInv ==
    /\ \A j \in InboundJobs : mapping[j] = "succeeded" => sent[j] > 0
    /\ \A w \in Workers : worker[w].pc = "called" /\ worker[w].result \in {"done", "already"} =>
            sent[worker[w].job] > 0

LEMMA AppliedStep == TypeOK /\ AppliedInv /\ [Next]_vars => AppliedInv'
  <1> SUFFICES ASSUME TypeOK, AppliedInv, [Next]_vars PROVE AppliedInv'
    OBVIOUS
  <1>1. \A j \in JobIds : sent[j] \in Nat /\ sent'[j] \in Nat /\ sent[j] <= sent'[j]
    <2>1. CASE sent' = sent
      BY <2>1 DEF TypeOK
    <2>2. ASSUME NEW w \in Workers, Deliver(w) PROVE <1>1
      BY <2>2 DEF Deliver, TypeOK
    <2> QED
      BY <2>1, <2>2
         DEF Next, Work, CreateInbound, CreateOutbound, Start, LoseLock, Crash, ClaimNext, ResetOnly,
             LoadJob, LeaveJob, CallFails, Block, Commit, Tick, vars, history
  <1>2. \A j \in InboundJobs : mapping'[j] = "succeeded" => sent'[j] > 0
    <2> SUFFICES ASSUME NEW j \in InboundJobs, mapping'[j] = "succeeded", mapping[j] # "succeeded"
                 PROVE  sent'[j] > 0
      BY <1>1 DEF AppliedInv, JobIds
    <2>1. PICK w \in Workers : Commit(w)
      BY DEF Next, Work, CreateInbound, CreateOutbound, Start, LoseLock, Crash, ClaimNext, ResetOnly,
             ResetStale, MappingAfterReset, LoadJob, LeaveJob, Deliver, CallFails, Block, Tick,
             vars, queue, TypeOK
    <2>2. worker[w].job = j /\ worker[w].result = "done" /\ worker[w].pc = "called"
      BY <2>1 DEF Commit, MappingAfterCall, TypeOK
    <2> QED
      BY <1>1, <2>2 DEF AppliedInv, JobIds
  <1>3. ASSUME NEW w \in Workers, worker'[w].pc = "called", worker'[w].result \in {"done", "already"}
        PROVE  sent'[worker'[w].job] > 0
    <2>1. CASE worker'[w] = worker[w]
      BY <1>1, <1>3, <2>1 DEF AppliedInv, TypeOK, Busy
    <2>2. CASE LoadJob(w)
      <3>1. Delivered(worker[w].job) /\ worker'[w].job = worker[w].job
        BY <1>3, <2>2 DEF LoadJob, TypeOK, Processes
      <3> QED
        BY <1>1, <3>1 DEF Delivered, AppliedInv, JobIds
    <2>3. CASE Deliver(w)
      <3>1. worker[w].job \in JobIds /\ worker'[w].job = worker[w].job
        BY <2>3 DEF Deliver, Called, TypeOK, Processes, Busy
      <3> QED
        BY <1>1, <2>3, <3>1 DEF Deliver, TypeOK
    <2>4. CASE Tick
      <3>1. /\ worker'[w].pc = worker[w].pc /\ worker'[w].job = worker[w].job
            /\ worker'[w].result = worker[w].result
        BY <2>4 DEF Tick, TypeOK, Processes
      <3> QED
        BY <1>1, <1>3, <3>1 DEF AppliedInv, TypeOK, Busy
    <2>5. CASE CallFails(w) \/ Block(w)
      BY <1>3, <2>5 DEF CallFails, Block, Called, TypeOK, Processes
    <2>6. ASSUME NEW v \in Workers, v # w,
                 Start(v) \/ LoseLock(v) \/ Crash(v) \/ Work(v)
          PROVE  worker'[w] = worker[w]
      BY <2>6 DEF Start, LoseLock, Crash, Work, ClaimNext, ResetOnly, LoadJob, LeaveJob, Deliver,
                  CallFails, Block, Called, Commit, queue, history, TypeOK
    <2>7. CASE Start(w) \/ LoseLock(w) \/ Crash(w) \/ ClaimNext(w) \/ ResetOnly(w) \/ LeaveJob(w) \/ Commit(w)
      <3>1. worker'[w] = worker[w] \/ worker'[w].pc # "called"
        BY <2>7, ProcessType DEF Start, LoseLock, Crash, ClaimNext, ResetOnly, LeaveJob, Commit, TypeOK
      <3> QED
        BY <1>3, <2>1, <3>1
    <2> QED
      BY <2>1, <2>2, <2>3, <2>4, <2>5, <2>6, <2>7
         DEF Next, Work, CreateInbound, CreateOutbound, vars
  <1> QED
    BY <1>2, <1>3 DEF AppliedInv

\* Whatever happens to the lock, a mapping is final as succeeded, and a worker
\* returns with success, only after the message was applied.
THEOREM AppliedHolds == Spec => []AppliedInv
  <1>1. Init => AppliedInv
    BY ProcessType DEF Init, AppliedInv
  <1> QED
    BY <1>1, AppliedStep, TypeCorrect, PTL DEF Spec

LEMMA ContractStart == Init => Contract!ContractInit
  <1> SUFFICES ASSUME Init PROVE Contract!ContractInit
    OBVIOUS
  <1>1. \A j \in JobIds : job[j].status = "absent" /\ Phase(j) = "absent"
    BY DEF Init, NoRow, Phase, Open, OpenStatuses
  <1> QED
    BY <1>1 DEF Init, Contract!ContractInit

\* Every step is a step of the contract, or leaves it where it was.
LEMMA ContractStep ==
    TypeOK /\ OneOwner /\ CountInv /\ AppliedInv /\ [Next]_vars
      => [Contract!ContractNext]_(Contract!cvars)
  <1> SUFFICES ASSUME TypeOK, OneOwner, CountInv, AppliedInv, [Next]_vars
               PROVE  Contract!ContractNext \/ UNCHANGED Contract!cvars
    OBVIOUS
  <1>1. CASE sent' = sent
    <2> DEFINE ph == [j \in JobIds |-> Phase(j)]
    <2>1. ph' \in [JobIds -> {"absent", "open", "done", "dropped"}]
      BY DEF Phase
    <2>2. ASSUME NEW j \in JobIds PROVE Contract!Moves(j)
      <3>1. StatusMoves(j)
        BY StatusStep
      <3>2. sent[j] > 0 \/ ~\E w \in Workers : worker[w].pc = "called" /\ worker[w].job = j
                                              /\ worker[w].result \in {"done", "already"}
        BY DEF AppliedInv
      <3>3. ph[j] = Phase(j) /\ ph'[j] = Phase(j)'
        OBVIOUS
      <3> HIDE DEF ph
      <3> QED
        BY <3>1, <3>2, <3>3 DEF Contract!Moves, StatusMoves, Phase, Open, OpenStatuses, ph
    <2> QED
      BY <1>1, <2>1, <2>2 DEF Contract!ContractNext, Contract!Settle
  <1>2. ASSUME NEW w \in Workers, Deliver(w) PROVE Contract!ContractNext
    <2> DEFINE j == worker[w].job
    <2>1. j \in JobIds /\ job[j].status = "processing"
      BY <1>2 DEF Deliver, TypeOK, Busy, OneOwner, Owned
    <2>2. sent[j] < MaxAttempts(j)
      <3>1. sent[j] < job[j].attempts /\ job[j].attempts <= MaxAttempts(j)
        BY <1>2, <2>1 DEF Deliver, CountInv, AttemptsBounded
      <3> QED
        BY <2>1, <3>1, MaxAttemptsType DEF TypeOK, Rows
    <2>3. Phase(j) = "open"
      BY <2>1 DEF Phase, Open, OpenStatuses
    <2>4. sent' = [sent EXCEPT ![j] = @ + 1] /\ job' = job
      BY <1>2 DEF Deliver, queue
    <2>5. UNCHANGED [k \in JobIds |-> Phase(k)]
      BY <2>4 DEF Phase, Open
    <2> QED
      BY <2>1, <2>2, <2>3, <2>4, <2>5 DEF Contract!ContractNext, Contract!Apply
  <1> QED
    BY <1>1, <1>2
       DEF Next, Work, CreateInbound, CreateOutbound, Start, LoseLock, Crash, ClaimNext, ResetOnly,
           LoadJob, LeaveJob, CallFails, Block, Commit, Tick, vars, history

\* While the lock is kept the queue implements JobContract: a message is applied
\* at most as often as the policy allows, only while its job is open, and a job is
\* closed once, as done only if its message was applied.
THEOREM ContractHolds == ASSUME ~LockMayBeLost PROVE Spec => KeepsContract
  BY ContractStart, ContractStep, TypeCorrect, OwnerHolds, CountHolds, AppliedHolds, PTL
     DEF Spec, KeepsContract, Contract!ContractSpec

---------------------------------------------------------------------------
(* The operator is informed once *)

Told(j) == job[j].status \in {"failed", "blocked"} /\ j \notin abandoned

\* What the reset gives up has failed; a row that is not used yet is about nobody;
\* an outbound job has its one note exactly when its operator has been told.
InformedInv ==
    /\ \A j \in abandoned : job[j].status = "failed"
    /\ \A n \in NoteJobs : job[n].status = "absent" => job[n].about = Null
    /\ \A j \in OutboundJobs :
        \/ NotesFor(j) = {} /\ ~Told(j)
        \/ Told(j) /\ \E n \in NoteJobs : NotesFor(j) = {n}

\* A step that writes no note and tells nobody.
LEMMA InformedKept ==
    ASSUME TypeOK, InformedInv,
           \A n \in NoteJobs : /\ job'[n].about = job[n].about
                               /\ job'[n].status = "absent" => job[n].status = "absent",
           \A j \in JobIds : j \in abandoned' => job'[j].status = "failed",
           abandoned' \subseteq JobIds,
           \A j \in OutboundJobs : Told(j)' <=> Told(j)
    PROVE  InformedInv'
  <1>1. \A j \in OutboundJobs : NotesFor(j)' = NotesFor(j)
    BY DEF NotesFor
  <1>2. \A j \in OutboundJobs :
            \/ NotesFor(j)' = {} /\ ~Told(j)'
            \/ Told(j)' /\ \E n \in NoteJobs : NotesFor(j)' = {n}
    BY <1>1 DEF InformedInv
  <1>3. /\ \A j \in abandoned' : job'[j].status = "failed"
        /\ \A n \in NoteJobs : job'[n].status = "absent" => job'[n].about = Null
    BY DEF InformedInv
  <1> QED
    BY <1>2, <1>3 DEF InformedInv

\* The reset of stale locks: what it closes is abandoned, and nobody is told.
LEMMA ResetTold ==
    ASSUME TypeOK, InformedInv, ResetStale, NEW j \in JobIds
    PROVE  /\ JobAfterReset(j).about = job[j].about
           /\ JobAfterReset(j).status = "absent" => job[j].status = "absent"
           /\ j \in abandoned' => JobAfterReset(j).status = "failed"
           /\ JobAfterReset(j).status \in {"failed", "blocked"} /\ j \notin abandoned' <=> Told(j)
  <1>1. job[j] \in Rows /\ (j \in abandoned' <=> j \in abandoned \/ GivenUp(j))
    BY DEF TypeOK, ResetStale
  <1>2. JobAfterReset(j).about = job[j].about
    BY <1>1 DEF JobAfterReset, Unlocked, Rows
  <1>3. CASE Stale(j)
    <2>1. /\ job[j].status = "processing" /\ j \notin abandoned
          /\ JobAfterReset(j).status = IF GivenUp(j) THEN "failed" ELSE "pending"
      BY <1>3, ResetType DEF Stale, InformedInv
    <2> QED
      BY <1>1, <1>2, <2>1 DEF Told
  <1>4. CASE ~Stale(j)
    <2>1. JobAfterReset(j) = job[j] /\ ~GivenUp(j)
      BY <1>4, ResetType DEF GivenUp
    <2> QED
      BY <1>1, <2>1 DEF Told, InformedInv
  <1> QED
    BY <1>3, <1>4

LEMMA InformedClaim ==
    ASSUME TypeOK, InformedInv, NEW w \in Workers, ClaimNext(w)
    PROVE  InformedInv'
  <1>1. PICK k \in JobIds :
          /\ Due(JobAfterReset(k))
          /\ job' = [i \in JobIds |-> IF i = k THEN Claimed(JobAfterReset(k), w) ELSE JobAfterReset(i)]
    BY DEF ClaimNext
  <1>2. ResetStale /\ abandoned' \subseteq JobIds
    BY ResetStaleType DEF ClaimNext
  <1>3. ASSUME NEW j \in JobIds
        PROVE  /\ job'[j].about = job[j].about
               /\ job'[j].status = "absent" => job[j].status = "absent"
               /\ j \in abandoned' => job'[j].status = "failed"
               /\ Told(j)' <=> Told(j)
    <2>1. CASE j # k
      <3>1. job'[j] = JobAfterReset(j)
        BY <1>1, <2>1
      <3> QED
        BY <1>2, <3>1, ResetTold DEF Told
    <2>2. CASE j = k
      <3>1. job'[j] = Claimed(JobAfterReset(j), w) /\ JobAfterReset(j).status = "pending"
        BY <1>1, <2>2 DEF Due
      <3>2. JobAfterReset(j) \in Rows /\ job'[j].status = "processing"
        BY <3>1, ResetType, ClaimedType
      <3>3. job'[j].about = JobAfterReset(j).about
        BY <3>1, <3>2 DEF Claimed, Rows
      <3> QED
        BY <1>2, <3>1, <3>2, <3>3, ResetTold DEF Told
    <2> QED
      BY <2>1, <2>2
  <1> QED
    BY <1>2, <1>3, InformedKept DEF JobIds

LEMMA InformedCommit ==
    ASSUME TypeOK, OneOwner, InformedInv, NEW w \in Workers, Commit(w)
    PROVE  InformedInv'
  <1> DEFINE k == worker[w].job
  <1>1. /\ k \in JobIds /\ Busy(w) /\ worker[w].result # "none" /\ abandoned' = abandoned
        /\ job[k].status = "processing"
    BY DEF Commit, history, TypeOK, Busy, OneOwner, Owned
  <1>2. /\ k \notin abandoned /\ ~Told(k)
    BY <1>1 DEF InformedInv, Told
  <1>3. /\ Settled(w).status = Outcome(w) /\ Settled(w).about = job[k].about
        /\ Outcome(w) \in {"pending", "succeeded", "failed", "blocked"}
    BY <1>1, SettledType
  <1>4. CASE ~NeedsNote(w) /\ job' = [job EXCEPT ![k] = Settled(w)]
    <2>1. job'[k] = Settled(w) /\ \A j \in JobIds \ {k} : job'[j] = job[j]
      BY <1>1, <1>4 DEF TypeOK
    <2>2. ASSUME NEW j \in JobIds
          PROVE  /\ job'[j].about = job[j].about
                 /\ job'[j].status = "absent" => job[j].status = "absent"
                 /\ j \in abandoned' => job'[j].status = "failed"
                 /\ j \in OutboundJobs => (Told(j)' <=> Told(j))
      <3>1. CASE j # k
        BY <1>1, <2>1, <3>1 DEF InformedInv, Told
      <3>2. CASE j = k
        <4>1. k \in OutboundJobs => Outcome(w) \notin {"failed", "blocked"}
          BY <1>4 DEF NeedsNote
        <4> QED
          BY <1>1, <1>2, <1>3, <2>1, <3>2, <4>1 DEF Told
      <3> QED
        BY <3>1, <3>2
    <2>3. abandoned' \subseteq JobIds
      BY <1>1 DEF TypeOK
    <2> QED
      BY <2>2, <2>3, InformedKept DEF JobIds
  <1>5. ASSUME NeedsNote(w), NEW n \in NoteJobs, job[n] = NoRow,
               job' = [job EXCEPT ![k] = Settled(w), ![n] = NewRow(worker[w].began, k)]
        PROVE  InformedInv'
    <2>1. n # k /\ n \in JobIds /\ k \in OutboundJobs /\ k \notin NoteJobs /\ n \notin OutboundJobs
      BY <1>5, JobsAssumption DEF NeedsNote, JobIds
    <2>2. job'[k] = Settled(w) /\ job'[n] = NewRow(worker[w].began, k)
          /\ \A j \in JobIds \ {k, n} : job'[j] = job[j]
      BY <1>1, <1>5, <2>1 DEF TypeOK
    <2>3. job[n].status = "absent" /\ job'[n].status = "pending" /\ job'[n].about = k /\ k # Null
      BY <1>1, <2>2, <1>5, JobsAssumption DEF NewRow, NoRow
    <2>4. n \notin abandoned /\ job[n].about = Null
      BY <1>5, <2>3 DEF InformedInv
    <2>5. \A j \in abandoned' : job'[j].status = "failed"
      BY <1>1, <1>2, <2>2, <2>4 DEF InformedInv, TypeOK
    <2>6. \A m \in NoteJobs : job'[m].status = "absent" => job'[m].about = Null
      BY <2>1, <2>2, <2>3 DEF InformedInv, JobIds
    <2>7. \A m \in NoteJobs \ {n} : job'[m] = job[m]
      BY <2>1, <2>2 DEF JobIds
    <2>8. ASSUME NEW j \in OutboundJobs
          PROVE  \/ NotesFor(j)' = {} /\ ~Told(j)'
                 \/ Told(j)' /\ \E m \in NoteJobs : NotesFor(j)' = {m}
      <3>1. CASE j = k
        <4>1. NotesFor(j) = {}
          BY <1>2, <3>1 DEF InformedInv
        <4>2. NotesFor(j)' = {n}
          BY <2>3, <2>7, <3>1, <4>1 DEF NotesFor
        <4>3. Told(j)'
          BY <1>1, <1>2, <1>3, <1>5, <2>2, <3>1 DEF Told, NeedsNote
        <4> QED
          BY <4>2, <4>3
      <3>2. CASE j # k
        <4>1. j # Null /\ j # n /\ j \in JobIds
          BY <2>1, JobsAssumption DEF JobIds
        <4>2. NotesFor(j)' = NotesFor(j)
          BY <2>3, <2>4, <2>7, <3>2, <4>1 DEF NotesFor
        <4>3. Told(j)' <=> Told(j)
          BY <1>1, <2>2, <3>2, <4>1 DEF Told
        <4> QED
          BY <4>2, <4>3 DEF InformedInv
      <3> QED
        BY <3>1, <3>2
    <2> QED
      BY <2>5, <2>6, <2>8 DEF InformedInv
  <1> QED
    BY <1>4, <1>5 DEF Commit

LEMMA InformedStep == TypeOK /\ OneOwner /\ InformedInv /\ [Next]_vars => InformedInv'
  <1> SUFFICES ASSUME TypeOK, OneOwner, InformedInv, [Next]_vars PROVE InformedInv'
    OBVIOUS
  <1>1. \A j \in JobIds : j \in abandoned => job[j].status = "failed"
    BY DEF InformedInv
  <1>2. CASE job' = job /\ abandoned' = abandoned
    <2>1. \A j \in JobIds : Told(j)' <=> Told(j)
      BY <1>2 DEF Told
    <2> QED
      BY <1>1, <1>2, <2>1, InformedKept DEF TypeOK, JobIds
  <1>3. ASSUME \A j \in JobIds : job'[j] = job[j] \/ (job[j] = NoRow /\ job'[j] = NewRow(0, Null)),
               abandoned' = abandoned
        PROVE  InformedInv'
    <2>1. /\ NoRow.status = "absent" /\ NoRow.about = Null
          /\ NewRow(0, Null).status = "pending" /\ NewRow(0, Null).about = Null
      BY DEF NewRow, NoRow
    <2>2. ASSUME NEW j \in JobIds
          PROVE  /\ job'[j].about = job[j].about
                 /\ job'[j].status = "absent" => job[j].status = "absent"
                 /\ j \in abandoned' => job'[j].status = "failed"
                 /\ Told(j)' <=> Told(j)
      <3>1. CASE job'[j] = job[j]
        BY <1>1, <1>3, <3>1 DEF Told
      <3>2. CASE job[j] = NoRow /\ job'[j] = NewRow(0, Null)
        BY <1>1, <1>3, <2>1, <3>2 DEF Told
      <3> QED
        BY <1>3, <3>1, <3>2
    <2> QED
      BY <1>3, <2>2, InformedKept DEF TypeOK, JobIds
  <1>4. CASE CreateInbound
    <2>1. \A j \in JobIds : job'[j] = job[j] \/ (job[j] = NoRow /\ job'[j] = NewRow(0, Null))
      BY <1>4 DEF CreateInbound
    <2> QED
      BY <1>3, <1>4, <2>1 DEF CreateInbound, history
  <1>5. CASE CreateOutbound
    <2>1. \A j \in JobIds : job'[j] = job[j] \/ (job[j] = NoRow /\ job'[j] = NewRow(0, Null))
      BY <1>5 DEF CreateOutbound, TypeOK
    <2> QED
      BY <1>3, <1>5, <2>1 DEF CreateOutbound, history
  <1>6. ASSUME NEW w \in Workers, ResetOnly(w) PROVE InformedInv'
    <2>1. ResetStale /\ abandoned' \subseteq JobIds /\ \A j \in JobIds : job'[j] = JobAfterReset(j)
      BY <1>6, ResetStaleType DEF ResetOnly
    <2>2. ASSUME NEW j \in JobIds
          PROVE  /\ job'[j].about = job[j].about
                 /\ job'[j].status = "absent" => job[j].status = "absent"
                 /\ j \in abandoned' => job'[j].status = "failed"
                 /\ Told(j)' <=> Told(j)
      BY <2>1, ResetTold DEF Told
    <2> QED
      BY <2>1, <2>2, InformedKept DEF JobIds
  <1>7. CASE Tick
    <2>1. abandoned' = abandoned /\ \A j \in JobIds : job'[j].status = job[j].status /\ job'[j].about = job[j].about
      BY <1>7 DEF Tick, history, TypeOK, Rows
    <2>2. \A j \in JobIds : Told(j)' <=> Told(j)
      BY <2>1 DEF Told
    <2> QED
      BY <1>1, <2>1, <2>2, InformedKept DEF TypeOK, JobIds
  <1>8. ASSUME NEW w \in Workers, ClaimNext(w) PROVE InformedInv'
    BY <1>8, InformedClaim
  <1>9. ASSUME NEW w \in Workers, Commit(w) PROVE InformedInv'
    BY <1>9, InformedCommit
  <1> QED
    BY <1>2, <1>4, <1>5, <1>6, <1>7, <1>8, <1>9
       DEF Next, Work, Start, LoseLock, Crash, LoadJob, LeaveJob, Deliver, CallFails, Block,
           vars, queue, history

\* While the lock is kept, the operator of a blocked or failed message gets one
\* note about it, unless the reset of stale locks failed it; nobody else gets one.
THEOREM InformedHolds == ASSUME ~LockMayBeLost PROVE Spec => []OperatorInformed
  <1>1. Init => InformedInv
    <2> SUFFICES ASSUME Init PROVE InformedInv
      OBVIOUS
    <2>1. \A j \in JobIds : job[j].status = "absent" /\ job[j].about = Null
      BY DEF Init, NoRow
    <2>2. \A j \in OutboundJobs : NotesFor(j) = {} /\ ~Told(j)
      BY <2>1, JobsAssumption DEF NotesFor, Told, JobIds
    <2> QED
      BY <2>1, <2>2 DEF InformedInv, Init, JobIds
  <1>2. InformedInv => OperatorInformed
    <2> SUFFICES ASSUME InformedInv, NEW j \in OutboundJobs
                 PROVE  /\ Cardinality(NotesFor(j)) <= 1
                        /\ NotesFor(j) # {} <=> job[j].status \in {"failed", "blocked"} /\ j \notin abandoned
      BY DEF OperatorInformed
    <2>1. CASE NotesFor(j) = {} /\ ~Told(j)
      BY <2>1, FS_EmptySet DEF Told
    <2>2. ASSUME Told(j), NEW n \in NoteJobs, NotesFor(j) = {n}
          PROVE  /\ Cardinality(NotesFor(j)) <= 1
                 /\ NotesFor(j) # {} <=> job[j].status \in {"failed", "blocked"} /\ j \notin abandoned
      BY <2>2, FS_Singleton DEF Told
    <2> QED
      BY <2>1, <2>2 DEF InformedInv
  <1> QED
    BY <1>1, <1>2, InformedStep, TypeCorrect, OwnerHolds, PTL DEF Spec

---------------------------------------------------------------------------
(* The damage that overlapping workers can do: every worker that has claimed a job
   and not called yet is paid for by an attempt, and once the attempts are used up,
   only a worker that loaded the job before that can make it wait again *)

Hands(j) == {w \in Workers : worker[w].pc \in {"claimed", "loaded"} /\ worker[w].job = j}

Behind(j) == {w \in Workers : /\ worker[w].pc \in {"loaded", "called"} /\ worker[w].job = j
                              /\ worker[w].attempts < MaxAttempts(j)}

Waits(j) == IF job[j].status = "pending" THEN 1 ELSE 0

Paid(j) == sent[j] + Cardinality(Hands(j)) <= job[j].attempts

Overrun(j) ==
    job[j].attempts >= MaxAttempts(j) =>
        job[j].attempts + Cardinality(Behind(j)) + Waits(j) < MaxAttempts(j) + Cardinality(Workers)

DamageInv == \A j \in JobIds : Paid(j) /\ Overrun(j)

LEMMA WorkerSets ==
    ASSUME NEW T \in SUBSET Workers
    PROVE  /\ Cardinality(T) \in Nat
           /\ \A S \in SUBSET T : Cardinality(S) \in Nat /\ Cardinality(S) <= Cardinality(T)
           /\ \A w \in T : Cardinality(T \ {w}) = Cardinality(T) - 1
           /\ \A w \in Workers \ T : Cardinality(T \cup {w}) = Cardinality(T) + 1
  <1>1. IsFiniteSet(T)
    BY JobsAssumption, FS_Subset
  <1> QED
    BY <1>1, FS_Subset, FS_CardinalityType, FS_AddElement, FS_RemoveElement

LEMMA DamageKept ==
    ASSUME TypeOK, DamageInv, NEW j \in JobIds,
           job'[j].attempts = job[j].attempts, sent'[j] = sent[j],
           Hands(j)' \subseteq Hands(j),
           job[j].attempts >= MaxAttempts(j) =>
               /\ Behind(j)' \subseteq Behind(j)
               /\ job'[j].status = "pending" => job[j].status = "pending"
    PROVE  Paid(j)' /\ Overrun(j)'
  <1>1. job[j].attempts \in Nat /\ sent[j] \in Nat /\ MaxAttempts(j) \in Nat
    BY MaxAttemptsType DEF TypeOK, Rows
  <1>2. Paid(j) /\ Overrun(j)
    BY DEF DamageInv
  <1>3. Hands(j) \in SUBSET Workers /\ Behind(j) \in SUBSET Workers
    BY DEF Hands, Behind
  <1>4. Paid(j)'
    <2>1. /\ Cardinality(Hands(j)) \in Nat /\ Cardinality(Hands(j)') \in Nat
          /\ Cardinality(Hands(j)') <= Cardinality(Hands(j))
      BY <1>3, WorkerSets
    <2> QED
      BY <1>1, <1>2, <2>1 DEF Paid
  <1>5. Overrun(j)'
    <2> SUFFICES ASSUME job[j].attempts >= MaxAttempts(j)
                 PROVE  job[j].attempts + Cardinality(Behind(j)') + Waits(j)' < MaxAttempts(j) + Cardinality(Workers)
      BY DEF Overrun
    <2>1. /\ Cardinality(Behind(j)) \in Nat /\ Cardinality(Behind(j)') \in Nat
          /\ Cardinality(Behind(j)') <= Cardinality(Behind(j)) /\ Cardinality(Workers) \in Nat
      BY <1>3, WorkerSets
    <2>2. Waits(j) \in Nat /\ Waits(j)' \in Nat /\ Waits(j)' <= Waits(j)
      BY DEF Waits
    <2> QED
      BY <1>1, <1>2, <2>1, <2>2 DEF Overrun
  <1> QED
    BY <1>4, <1>5

\* A step after which no worker holds a job that it did not hold before in as early a place.
LEMMA WorkersKept ==
    ASSUME \A v \in Workers : worker'[v] = worker[v] \/ worker'[v].pc \in {"down", "idle"}, NEW j \in JobIds
    PROVE  Hands(j)' \subseteq Hands(j) /\ Behind(j)' \subseteq Behind(j)
  BY DEF Hands, Behind

LEMMA DamageClaim ==
    ASSUME TypeOK, DamageInv, NEW w \in Workers, ClaimNext(w), NEW j \in JobIds
    PROVE  Paid(j)' /\ Overrun(j)'
  <1>1. PICK k \in JobIds :
          /\ Due(JobAfterReset(k))
          /\ job' = [i \in JobIds |-> IF i = k THEN Claimed(JobAfterReset(k), w) ELSE JobAfterReset(i)]
          /\ worker' = [worker EXCEPT ![w] = [Idle EXCEPT !.pc = "claimed", !.job = k, !.began = 0]]
    BY DEF ClaimNext
  <1>2. /\ worker[w].pc = "idle" /\ sent' = sent
        /\ worker'[w].pc = "claimed" /\ worker'[w].job = k
        /\ \A v \in Workers \ {w} : worker'[v] = worker[v]
    BY <1>1, ProcessType DEF ClaimNext, TypeOK
  <1>3. Behind(j)' \subseteq Behind(j) /\ w \notin Behind(j)' /\ Hands(j)' \subseteq Hands(j) \cup {w} /\ w \notin Hands(j)
    BY <1>2 DEF Behind, Hands
  <1>4. CASE j # k
    <2>1. Hands(j)' \subseteq Hands(j)
      BY <1>2, <1>4 DEF Hands
    <2>2. job'[j] = JobAfterReset(j)
      BY <1>1, <1>4
    <2>3. /\ job'[j].attempts = job[j].attempts
          /\ job'[j].status = "pending" => job[j].status = "pending" \/ job[j].attempts < MaxAttempts(j)
      BY <2>2, ResetCount
    <2>4. job[j].attempts \in Nat /\ MaxAttempts(j) \in Nat
      BY MaxAttemptsType DEF TypeOK, Rows
    <2>5. sent'[j] = sent[j]
      BY <1>2
    <2> QED
      BY <1>3, <2>1, <2>3, <2>4, <2>5, DamageKept
  <1>5. CASE j = k
    <2>1. job'[j] = Claimed(JobAfterReset(j), w)
      BY <1>1, <1>5
    <2>2. job'[j].attempts = job[j].attempts + 1 /\ job'[j].status = "processing"
      BY <2>1, ResetType, ClaimedType
    <2>3. job[j].status = "pending" \/ job[j].attempts < MaxAttempts(j)
      BY <1>1, <1>5, ResetCount DEF Due
    <2>4. job[j].attempts \in Nat /\ sent[j] \in Nat /\ MaxAttempts(j) \in Nat
      BY MaxAttemptsType DEF TypeOK, Rows
    <2>5. Paid(j) /\ Overrun(j)
      BY DEF DamageInv
    <2>6. Hands(j) \in SUBSET Workers /\ Behind(j) \in SUBSET Workers /\ Behind(j)' \in SUBSET (Workers \ {w})
          /\ Workers \ {w} \in SUBSET Workers /\ Hands(j) \cup {w} \in SUBSET Workers
      BY <1>3 DEF Hands, Behind
    <2>7. Paid(j)'
      <3>1. /\ Cardinality(Hands(j)) \in Nat /\ Cardinality(Hands(j) \cup {w}) = Cardinality(Hands(j)) + 1
        BY <1>3, <2>6, WorkerSets
      <3>2. Cardinality(Hands(j)') \in Nat /\ Cardinality(Hands(j)') <= Cardinality(Hands(j) \cup {w})
        BY <1>3, <2>6, WorkerSets
      <3>3. sent'[j] = sent[j]
        BY <1>2
      <3> QED
        BY <2>2, <2>4, <2>5, <3>1, <3>2, <3>3 DEF Paid
    <2>8. Overrun(j)'
      <3>1. Waits(j)' = 0
        BY <2>2 DEF Waits
      <3>2. Cardinality(Workers) \in Nat /\ Cardinality(Workers \ {w}) = Cardinality(Workers) - 1
        BY WorkerSets
      <3>3. Cardinality(Behind(j)') \in Nat /\ Cardinality(Behind(j)') <= Cardinality(Workers) - 1
        BY <2>6, <3>2, WorkerSets
      <3>4. Cardinality(Behind(j)) \in Nat /\ Cardinality(Behind(j)') <= Cardinality(Behind(j))
        BY <1>3, <2>6, WorkerSets
      <3>5. CASE job[j].attempts < MaxAttempts(j)
        <4>1. job[j].attempts + 1 <= MaxAttempts(j)
          BY <2>4, <3>5
        <4>2. job'[j].attempts + Cardinality(Behind(j)') + Waits(j)' <= MaxAttempts(j) + (Cardinality(Workers) - 1)
          BY <2>2, <2>4, <3>1, <3>2, <3>3, <4>1
        <4>3. MaxAttempts(j) + (Cardinality(Workers) - 1) < MaxAttempts(j) + Cardinality(Workers)
          BY <2>4, <3>2
        <4>4. job'[j].attempts + Cardinality(Behind(j)') + Waits(j)' < MaxAttempts(j) + Cardinality(Workers)
          BY <2>2, <2>4, <3>1, <3>2, <3>3, <4>2, <4>3
        <4> QED
          BY <4>4 DEF Overrun
      <3>6. CASE ~(job[j].attempts < MaxAttempts(j))
        <4>1. Waits(j) = 1
          BY <2>3, <3>6 DEF Waits
        <4> QED
          <5>1. job[j].attempts >= MaxAttempts(j)
            BY <2>4, <3>6
          <5>2. job[j].attempts + Cardinality(Behind(j)) + 1 < MaxAttempts(j) + Cardinality(Workers)
            BY <2>5, <5>1, <4>1 DEF Overrun
          <5>3. job'[j].attempts + Cardinality(Behind(j)') + Waits(j)' < MaxAttempts(j) + Cardinality(Workers)
            BY <2>2, <2>4, <3>1, <3>2, <3>3, <3>4, <5>2
          <5> QED
            BY <5>3 DEF Overrun
      <3> QED
        BY <3>5, <3>6
    <2> QED
      BY <2>7, <2>8
  <1> QED
    BY <1>4, <1>5

LEMMA DamageDeliver ==
    ASSUME TypeOK, DamageInv, NEW w \in Workers, Deliver(w), NEW j \in JobIds
    PROVE  Paid(j)' /\ Overrun(j)'
  <1> DEFINE k == worker[w].job
  <1>1. /\ worker[w].pc = "loaded" /\ k \in JobIds /\ job' = job
        /\ sent' = [sent EXCEPT ![k] = @ + 1]
        /\ Called(w, "done") \/ Called(w, "error")
    BY DEF Deliver, queue, TypeOK, Busy
  <1>2. /\ worker'[w].pc = "called" /\ worker'[w].job = k /\ worker'[w].attempts = worker[w].attempts
        /\ \A v \in Workers \ {w} : worker'[v] = worker[v]
    BY <1>1 DEF Called, TypeOK, Processes
  <1>3. Behind(j)' \subseteq Behind(j) /\ Hands(j)' \subseteq Hands(j) \ {w}
    BY <1>1, <1>2 DEF Behind, Hands
  <1>4. CASE j # k
    <2>1. sent'[j] = sent[j]
      BY <1>1, <1>4 DEF TypeOK
    <2> QED
      BY <1>1, <1>3, <2>1, DamageKept
  <1>5. CASE j = k
    <2>1. /\ sent'[j] = sent[j] + 1 /\ sent[j] \in Nat /\ job[j].attempts \in Nat
          /\ w \in Hands(j) /\ Hands(j) \in SUBSET Workers
      BY <1>1, <1>5 DEF TypeOK, Rows, Hands
    <2>2. /\ Cardinality(Hands(j)) \in Nat /\ Cardinality(Hands(j) \ {w}) = Cardinality(Hands(j)) - 1
      BY <2>1, WorkerSets
    <2>3. Cardinality(Hands(j)') \in Nat /\ Cardinality(Hands(j)') <= Cardinality(Hands(j) \ {w})
      BY <1>3, <2>1, WorkerSets
    <2>4. Paid(j)'
      BY <1>1, <2>1, <2>2, <2>3 DEF Paid, DamageInv
    <2>5. Overrun(j)'
      <3>1. Behind(j) \in SUBSET Workers
        BY DEF Behind
      <3>2. /\ Cardinality(Behind(j)) \in Nat /\ Cardinality(Behind(j)') \in Nat
            /\ Cardinality(Behind(j)') <= Cardinality(Behind(j)) /\ Cardinality(Workers) \in Nat
        BY <1>3, <3>1, WorkerSets
      <3>3. Waits(j)' = Waits(j) /\ Waits(j) \in Nat
        BY <1>1 DEF Waits
      <3>4. MaxAttempts(j) \in Nat
        BY MaxAttemptsType
      <3> QED
        BY <1>1, <2>1, <3>2, <3>3, <3>4 DEF Overrun, DamageInv
    <2> QED
      BY <2>4, <2>5
  <1> QED
    BY <1>4, <1>5

LEMMA DamageCommit ==
    ASSUME TypeOK, DamageInv, NEW w \in Workers, Commit(w), NEW j \in JobIds
    PROVE  Paid(j)' /\ Overrun(j)'
  <1> DEFINE k == worker[w].job
  <1>1. /\ worker[w].pc = "called" /\ k \in JobIds /\ sent' = sent /\ Busy(w) /\ worker[w].result # "none"
        /\ worker[w].attempts \in Nat
    BY DEF Commit, history, TypeOK, Busy, Processes
  <1>2. /\ worker'[w].pc = "idle"
        /\ \A v \in Workers \ {w} : worker'[v] = worker[v]
    BY ProcessType DEF Commit, TypeOK
  <1>3. Behind(j)' \subseteq Behind(j) \ {w} /\ Hands(j)' \subseteq Hands(j)
    BY <1>1, <1>2 DEF Behind, Hands
  <1>4. job'[k] = Settled(w) /\ (j # k => job'[j] = job[j] \/ \E born, about : job[j] = NoRow /\ job'[j] = NewRow(born, about))
    <2>1. CASE job' = [job EXCEPT ![k] = Settled(w)]
      BY <1>1, <2>1 DEF TypeOK
    <2>2. ASSUME NeedsNote(w), NEW n \in NoteJobs, job[n] = NoRow,
                 job' = [job EXCEPT ![k] = Settled(w), ![n] = NewRow(worker[w].began, k)]
          PROVE  <1>4
      <3>1. n # k /\ n \in JobIds
        BY <2>2, JobsAssumption DEF NeedsNote, JobIds
      <3> QED
        BY <1>1, <2>2, <3>1 DEF TypeOK
    <2> QED
      BY <2>1, <2>2 DEF Commit
  <1>5. sent'[j] = sent[j] /\ MaxAttempts(j) \in Nat /\ job[j].attempts \in Nat
    BY <1>1, MaxAttemptsType DEF TypeOK, Rows
  <1>6. CASE j # k
    <2>1. CASE job'[j] = job[j]
      BY <1>3, <1>5, <2>1, DamageKept
    <2>2. ASSUME NEW born, NEW about, job[j] = NoRow, job'[j] = NewRow(born, about)
          PROVE  Paid(j)' /\ Overrun(j)'
      <3>1. job'[j].attempts = job[j].attempts /\ job[j].attempts < MaxAttempts(j)
        BY <2>2, NewRowCount
      <3> QED
        BY <1>3, <1>5, <3>1, DamageKept
    <2> QED
      BY <1>4, <1>6, <2>1, <2>2
  <1>7. CASE j = k
    <2>1. job'[j].attempts = job[j].attempts /\ job'[j].status = Outcome(w)
      BY <1>1, <1>4, <1>7, SettledType
    <2>2. CASE job[j].attempts >= MaxAttempts(j) => (job'[j].status = "pending" => job[j].status = "pending")
      BY <1>3, <1>5, <2>1, <2>2, DamageKept
    <2>3. CASE job[j].attempts >= MaxAttempts(j) /\ job'[j].status = "pending" /\ job[j].status # "pending"
      <3>1. ~Exhausted(j, worker[w].attempts)
        <4>1. worker[w].result \in {"done", "already", "error", "blocked"}
          BY <1>1 DEF TypeOK, Processes
        <4> QED
          BY <1>7, <2>1, <2>3, <4>1 DEF Outcome
      <3>2. worker[w].attempts < MaxAttempts(j)
        BY <1>1, <1>5, <3>1 DEF Exhausted
      <3>3. w \in Behind(j) /\ Behind(j) \in SUBSET Workers /\ Hands(j) \in SUBSET Workers
        BY <1>1, <1>7, <3>2 DEF Behind, Hands
      <3>4. /\ Cardinality(Behind(j)) \in Nat /\ Cardinality(Behind(j) \ {w}) = Cardinality(Behind(j)) - 1
            /\ Cardinality(Workers) \in Nat
        BY <3>3, WorkerSets
      <3>5. Cardinality(Behind(j)') \in Nat /\ Cardinality(Behind(j)') <= Cardinality(Behind(j) \ {w})
        <4>1. Behind(j)' \in SUBSET (Behind(j) \ {w}) /\ Behind(j) \ {w} \in SUBSET Workers
          BY <1>3, <3>3
        <4> QED
          BY <4>1, WorkerSets
      <3>6. Waits(j)' = 1 /\ Waits(j) = 0
        BY <2>3 DEF Waits
      <3>7. Overrun(j)'
        BY <1>5, <2>1, <2>3, <3>4, <3>5, <3>6 DEF Overrun, DamageInv
      <3>8. /\ Cardinality(Hands(j)) \in Nat /\ Cardinality(Hands(j)') \in Nat
            /\ Cardinality(Hands(j)') <= Cardinality(Hands(j)) /\ sent[j] \in Nat
        BY <1>3, <3>3, WorkerSets DEF TypeOK
      <3>9. Paid(j)'
        BY <1>5, <2>1, <3>8 DEF Paid, DamageInv
      <3> QED
        BY <3>7, <3>9
    <2> QED
      BY <2>2, <2>3
  <1> QED
    BY <1>6, <1>7

LEMMA DamageStep == TypeOK /\ DamageInv /\ [Next]_vars => DamageInv'
  <1> SUFFICES ASSUME TypeOK, DamageInv, [Next]_vars, NEW j \in JobIds
               PROVE  Paid(j)' /\ Overrun(j)'
    BY DEF DamageInv
  <1>1. job[j].attempts \in Nat /\ MaxAttempts(j) \in Nat /\ MaxAttempts(j) > 0
    BY MaxAttemptsType DEF TypeOK, Rows
  <1>2. ASSUME UNCHANGED <<worker, sent>>,
               job'[j] = job[j] \/ (job[j] = NoRow /\ job'[j] = NewRow(0, Null))
        PROVE  Paid(j)' /\ Overrun(j)'
    <2>1. Hands(j)' \subseteq Hands(j) /\ Behind(j)' \subseteq Behind(j)
      BY <1>2 DEF Hands, Behind
    <2>2. /\ job'[j].attempts = job[j].attempts
          /\ job'[j] = job[j] \/ job[j].attempts < MaxAttempts(j)
      BY <1>2, NewRowCount
    <2> QED
      BY <1>1, <1>2, <2>1, <2>2, DamageKept
  <1>3. CASE CreateInbound \/ CreateOutbound \/ UNCHANGED vars
    <2>1. UNCHANGED <<worker, sent>>
      BY <1>3 DEF CreateInbound, CreateOutbound, vars, history
    <2>2. job'[j] = job[j] \/ (job[j] = NoRow /\ job'[j] = NewRow(0, Null))
      <3>1. CASE CreateInbound
        BY <3>1 DEF CreateInbound
      <3>2. CASE CreateOutbound
        BY <3>2 DEF CreateOutbound, TypeOK
      <3>3. CASE UNCHANGED vars
        BY <3>3 DEF vars
      <3> QED
        BY <1>3, <3>1, <3>2, <3>3
    <2> QED
      BY <1>2, <2>1, <2>2
  <1>4. ASSUME NEW w \in Workers, Start(w) \/ LoseLock(w) \/ Crash(w) \/ LeaveJob(w)
        PROVE  Paid(j)' /\ Overrun(j)'
    <2>1. job' = job /\ sent' = sent
      BY <1>4 DEF Start, LoseLock, Crash, LeaveJob, queue, history
    <2>2. \A v \in Workers : worker'[v] = worker[v] \/ worker'[v].pc \in {"down", "idle"}
      BY <1>4, ProcessType DEF Start, LoseLock, Crash, LeaveJob, TypeOK
    <2> QED
      BY <2>1, <2>2, WorkersKept, DamageKept
  <1>5. ASSUME NEW w \in Workers, ClaimNext(w)
        PROVE  Paid(j)' /\ Overrun(j)'
    BY <1>5, DamageClaim
  <1>6. ASSUME NEW w \in Workers, ResetOnly(w)
        PROVE  Paid(j)' /\ Overrun(j)'
    <2>1. job'[j] = JobAfterReset(j) /\ UNCHANGED <<worker, sent>>
      BY <1>6 DEF ResetOnly
    <2>2. Hands(j)' \subseteq Hands(j) /\ Behind(j)' \subseteq Behind(j)
      BY <2>1 DEF Hands, Behind
    <2>3. /\ job'[j].attempts = job[j].attempts
          /\ job'[j].status = "pending" => job[j].status = "pending" \/ job[j].attempts < MaxAttempts(j)
      BY <2>1, ResetCount
    <2> QED
      BY <1>1, <2>1, <2>2, <2>3, DamageKept
  <1>7. ASSUME NEW w \in Workers, LoadJob(w)
        PROVE  Paid(j)' /\ Overrun(j)'
    <2>1. /\ worker[w].pc = "claimed" /\ worker'[w].job = worker[w].job
          /\ worker'[w].attempts = job[worker[w].job].attempts
          /\ \A v \in Workers \ {w} : worker'[v] = worker[v]
      BY <1>7 DEF LoadJob, TypeOK, Processes
    <2>2. job' = job /\ sent' = sent
      BY <1>7 DEF LoadJob, queue, history
    <2>3. Hands(j)' \subseteq Hands(j)
      BY <2>1 DEF Hands
    <2>4. job[j].attempts >= MaxAttempts(j) => Behind(j)' \subseteq Behind(j)
      BY <1>1, <2>1 DEF Behind
    <2> QED
      BY <2>2, <2>3, <2>4, DamageKept
  <1>8. ASSUME NEW w \in Workers, CallFails(w) \/ Block(w)
        PROVE  Paid(j)' /\ Overrun(j)'
    <2>1. /\ worker[w].pc = "loaded" /\ job' = job /\ sent' = sent
          /\ Called(w, "error") \/ Called(w, "blocked")
      BY <1>8 DEF CallFails, Block, queue, history
    <2>2. /\ worker'[w].pc = "called" /\ worker'[w].job = worker[w].job /\ worker'[w].attempts = worker[w].attempts
          /\ \A v \in Workers \ {w} : worker'[v] = worker[v]
      BY <2>1 DEF Called, TypeOK, Processes
    <2>3. Hands(j)' \subseteq Hands(j) /\ Behind(j)' \subseteq Behind(j)
      BY <2>1, <2>2 DEF Hands, Behind
    <2> QED
      BY <2>1, <2>3, DamageKept
  <1>9. ASSUME NEW w \in Workers, Deliver(w)
        PROVE  Paid(j)' /\ Overrun(j)'
    BY <1>9, DamageDeliver
  <1>10. ASSUME NEW w \in Workers, Commit(w)
         PROVE  Paid(j)' /\ Overrun(j)'
    BY <1>10, DamageCommit
  <1>11. CASE Tick
    <2>1. \A v \in Workers : /\ worker'[v].pc = worker[v].pc /\ worker'[v].job = worker[v].job
                             /\ worker'[v].attempts = worker[v].attempts
      BY <1>11 DEF Tick, TypeOK, Processes
    <2>2. job'[j].status = job[j].status /\ job'[j].attempts = job[j].attempts /\ sent' = sent
      BY <1>11 DEF Tick, TypeOK, Rows, history
    <2>3. Hands(j)' \subseteq Hands(j) /\ Behind(j)' \subseteq Behind(j)
      BY <2>1 DEF Hands, Behind
    <2> QED
      BY <2>2, <2>3, DamageKept
  <1> QED
    BY <1>3, <1>4, <1>5, <1>6, <1>7, <1>8, <1>9, <1>10, <1>11 DEF Next, Work

\* Whatever happens to the lock: every application is paid for by a claim, and
\* overlapping workers add fewer claims to the policy than there are workers.
THEOREM DamageHolds == Spec => []DamageBounded
  <1>1. Init => DamageInv
    <2> SUFFICES ASSUME Init, NEW j \in JobIds PROVE Paid(j) /\ Overrun(j)
      BY DEF DamageInv
    <2>1. Hands(j) = {} /\ job[j].attempts = 0 /\ sent[j] = 0
      BY ProcessType DEF Init, Hands, NoRow
    <2>2. MaxAttempts(j) \in Nat /\ MaxAttempts(j) > 0
      BY MaxAttemptsType
    <2> QED
      BY <2>1, <2>2, FS_EmptySet DEF Paid, Overrun
  <1>2. TypeOK /\ DamageInv => DamageBounded
    <2> SUFFICES ASSUME TypeOK, DamageInv, NEW j \in JobIds
                 PROVE  sent[j] <= job[j].attempts /\ job[j].attempts < MaxAttempts(j) + Cardinality(Workers)
      BY DEF DamageBounded
    <2>1. /\ Hands(j) \in SUBSET Workers /\ Behind(j) \in SUBSET Workers
          /\ job[j].attempts \in Nat /\ sent[j] \in Nat /\ MaxAttempts(j) \in Nat /\ Waits(j) \in Nat
      BY MaxAttemptsType DEF TypeOK, Rows, Hands, Behind, Waits
    <2>2. Cardinality(Hands(j)) \in Nat /\ Cardinality(Behind(j)) \in Nat /\ Cardinality(Workers) \in Nat
      BY <2>1, WorkerSets
    <2> QED
      BY <2>1, <2>2 DEF DamageInv, Paid, Overrun
  <1> QED
    BY <1>1, <1>2, DamageStep, TypeCorrect, PTL DEF Spec
---------------------------------------------------------------------------
(* One worker per attempt: a claim is a new attempt number, so the workers that run a
   job have different numbers, and only the worker of the row's own number may find
   its name on the row.  The reload before the call rests on the latter.  *)

Runs(w) == worker[w].pc \in {"loaded", "called"}

SharedInv ==
    \A w \in Workers : Runs(w) =>
        LET row == job[worker[w].job] IN
        /\ worker[w].attempts <= row.attempts
        /\ worker[w].attempts = row.attempts /\ row.status = "processing" => row.lockedBy = w
        /\ \A v \in Workers \ {w} :
              Runs(v) /\ worker[v].job = worker[w].job => worker[v].attempts # worker[w].attempts

\* A row that another step may have changed: its number does not fall, and it is in
\* process under its old number only if it was, for the same worker.
RowKept(j) ==
    /\ job[j].attempts <= job'[j].attempts
    /\ job'[j].status = "processing" /\ job'[j].attempts = job[j].attempts =>
          job[j].status = "processing" /\ job'[j].lockedBy = job[j].lockedBy

\* A step that lets no worker take up an attempt.
LEMMA SharedKept ==
    ASSUME TypeOK, TypeOK', SharedInv, \A j \in JobIds : RowKept(j),
           \A w \in Workers : Runs(w)' => /\ Runs(w) /\ worker'[w].job = worker[w].job
                                          /\ worker'[w].attempts = worker[w].attempts
    PROVE  SharedInv'
  <1> SUFFICES ASSUME NEW w \in Workers, Runs(w)'
               PROVE  /\ worker'[w].attempts <= job'[worker'[w].job].attempts
                      /\ worker'[w].attempts = job'[worker'[w].job].attempts
                         /\ job'[worker'[w].job].status = "processing" => job'[worker'[w].job].lockedBy = w
                      /\ \A v \in Workers \ {w} :
                            Runs(v)' /\ worker'[v].job = worker'[w].job
                            => worker'[v].attempts # worker'[w].attempts
    BY DEF SharedInv
  <1> DEFINE j == worker[w].job
  <1>1. Runs(w) /\ worker'[w].job = j /\ worker'[w].attempts = worker[w].attempts
    OBVIOUS
  <1>2. /\ j \in JobIds /\ job[j].attempts \in Nat /\ job'[j].attempts \in Nat
        /\ worker[w].attempts \in Nat
    BY <1>1 DEF TypeOK, Runs, Busy, Rows, Processes
  <1>3. RowKept(j)
    BY <1>2
  <1>4. /\ worker[w].attempts <= job[j].attempts
        /\ worker[w].attempts = job[j].attempts /\ job[j].status = "processing" => job[j].lockedBy = w
        /\ \A v \in Workers \ {w} :
              Runs(v) /\ worker[v].job = j => worker[v].attempts # worker[w].attempts
    BY <1>1 DEF SharedInv
  <1>5. \A v \in Workers \ {w} :
            Runs(v)' /\ worker'[v].job = j => worker'[v].attempts # worker'[w].attempts
    BY <1>1, <1>4
  <1> HIDE DEF j
  <1> QED
    BY <1>1, <1>2, <1>3, <1>4, <1>5 DEF RowKept

\* A worker takes up an attempt only when the row names it, so no other worker has
\* the number of the row.
LEMMA SharedLoad ==
    ASSUME TypeOK, SharedInv, NEW w \in Workers, LoadJob(w)
    PROVE  SharedInv'
  <1> DEFINE j == worker[w].job
  <1>1. /\ j \in JobIds /\ job' = job /\ job[j].attempts \in Nat
        /\ job[j].status = "processing" /\ job[j].lockedBy = w
    BY DEF LoadJob, Owned, TypeOK, Busy, Rows, queue
  <1>2. /\ worker'[w].job = j /\ worker'[w].attempts = job[j].attempts
        /\ \A v \in Workers \ {w} : worker'[v] = worker[v]
    BY DEF LoadJob, TypeOK, Processes
  <1>3. \A v \in Workers \ {w} : Runs(v) /\ worker[v].job = j => worker[v].attempts # job[j].attempts
    BY <1>1 DEF SharedInv
  <1> HIDE DEF j
  <1> SUFFICES ASSUME NEW v \in Workers, Runs(v)'
               PROVE  /\ worker'[v].attempts <= job[worker'[v].job].attempts
                      /\ worker'[v].attempts = job[worker'[v].job].attempts
                         /\ job[worker'[v].job].status = "processing" => job[worker'[v].job].lockedBy = v
                      /\ \A u \in Workers \ {v} :
                            Runs(u)' /\ worker'[u].job = worker'[v].job
                            => worker'[u].attempts # worker'[v].attempts
    BY <1>1 DEF SharedInv
  <1>4. CASE v = w
    BY <1>1, <1>2, <1>3, <1>4 DEF Runs
  <1>5. CASE v # w
    <2>1. worker'[v] = worker[v] /\ Runs(v)
      BY <1>2, <1>5 DEF Runs
    <2>2. /\ worker[v].attempts <= job[worker[v].job].attempts
          /\ worker[v].attempts = job[worker[v].job].attempts
             /\ job[worker[v].job].status = "processing" => job[worker[v].job].lockedBy = v
          /\ \A u \in Workers \ {v} :
                Runs(u) /\ worker[u].job = worker[v].job => worker[u].attempts # worker[v].attempts
      BY <2>1 DEF SharedInv
    <2>3. worker[v].job = j => worker[v].attempts # job[j].attempts
      BY <1>3, <1>5, <2>1
    <2>4. ASSUME NEW u \in Workers \ {v}, Runs(u)', worker'[u].job = worker'[v].job
          PROVE  worker'[u].attempts # worker'[v].attempts
      <3>1. CASE u = w
        BY <1>2, <2>1, <2>3, <2>4, <3>1
      <3>2. CASE u # w
        BY <1>2, <2>1, <2>2, <2>4, <3>2 DEF Runs
      <3> QED
        BY <3>1, <3>2
    <2> QED
      BY <2>1, <2>2, <2>4
  <1> QED
    BY <1>4, <1>5

LEMMA SharedStep == TypeOK /\ TypeOK' /\ SharedInv /\ [Next]_vars => SharedInv'
  <1> SUFFICES ASSUME TypeOK, TypeOK', SharedInv, [Next]_vars PROVE SharedInv'
    OBVIOUS
  <1>1. \A j \in JobIds : job'[j] = job[j] => RowKept(j)
    BY DEF RowKept, TypeOK, Rows
  <1>2. ASSUME NEW j \in JobIds, NEW born \in Int \cup {Null}, NEW about \in OutboundJobs \cup {Null},
               job[j] = NoRow, job'[j] = NewRow(born, about)
        PROVE  RowKept(j)
    BY <1>2, NewRowType DEF RowKept, NoRow
  <1>3. ASSUME NEW j \in JobIds, job'[j] = JobAfterReset(j)
        PROVE  RowKept(j)
    BY <1>1, <1>3, ResetType DEF RowKept, TypeOK, Rows
  <1>4. CASE CreateInbound
    <2>1. PICK batch \in SUBSET {j \in InboundJobs : job[j] = NoRow} :
            job' = [j \in JobIds |-> IF j \in batch THEN NewRow(0, Null) ELSE job[j]]
      BY <1>4 DEF CreateInbound
    <2>2. \A j \in JobIds : RowKept(j)
      BY <1>1, <1>2, <2>1
    <2> QED
      BY <1>4, <2>2, SharedKept DEF CreateInbound, Runs
  <1>5. CASE CreateOutbound
    <2>1. \A j \in JobIds : RowKept(j)
      BY <1>1, <1>2, <1>5 DEF CreateOutbound, TypeOK
    <2> QED
      BY <1>5, <2>1, SharedKept DEF CreateOutbound, Runs
  <1>6. ASSUME NEW w \in Workers, Start(w) \/ Crash(w) \/ LeaveJob(w)
        PROVE  SharedInv'
    <2>1. \A j \in JobIds : RowKept(j)
      BY <1>1, <1>6 DEF Start, Crash, LeaveJob, queue
    <2>2. worker' = [worker EXCEPT ![w] = Idle] \/ worker' = [worker EXCEPT ![w] = Down]
      BY <1>6 DEF Start, Crash, LeaveJob
    <2>3. \A v \in Workers : Runs(v)' => worker'[v] = worker[v] /\ Runs(v)
      BY <2>2, ProcessType DEF TypeOK, Runs
    <2> QED
      BY <2>1, <2>3, SharedKept
  <1>7. ASSUME NEW w \in Workers, ClaimNext(w)
        PROVE  SharedInv'
    <2>1. PICK j \in JobIds :
            /\ job' = [k \in JobIds |-> IF k = j THEN Claimed(JobAfterReset(j), w) ELSE JobAfterReset(k)]
            /\ worker' = [worker EXCEPT ![w] = [Idle EXCEPT !.pc = "claimed", !.job = j, !.began = 0]]
      BY <1>7 DEF ClaimNext
    <2>2. job'[j].attempts = job[j].attempts + 1 /\ job[j].attempts \in Nat
      BY <2>1, ResetType, ClaimedType DEF TypeOK, Rows
    <2>3. \A k \in JobIds : RowKept(k)
      BY <1>3, <2>1, <2>2 DEF RowKept
    <2>4. \A v \in Workers : Runs(v)' => worker'[v] = worker[v] /\ Runs(v)
      BY <2>1, ProcessType DEF TypeOK, Runs
    <2> QED
      BY <2>3, <2>4, SharedKept
  <1>8. ASSUME NEW w \in Workers, ResetOnly(w)
        PROVE  SharedInv'
    BY <1>3, <1>8, SharedKept DEF ResetOnly, Runs
  <1>9. ASSUME NEW w \in Workers, LoadJob(w)
        PROVE  SharedInv'
    BY <1>9, SharedLoad
  <1>10. ASSUME NEW w \in Workers, Deliver(w) \/ CallFails(w) \/ Block(w)
         PROVE  SharedInv'
    <2>1. \A j \in JobIds : RowKept(j)
      BY <1>1, <1>10 DEF Deliver, CallFails, Block, queue
    <2>2. /\ Runs(w) /\ worker'[w].job = worker[w].job /\ worker'[w].attempts = worker[w].attempts
          /\ \A v \in Workers \ {w} : worker'[v] = worker[v]
      BY <1>10 DEF Deliver, CallFails, Block, Called, Runs, TypeOK, Processes
    <2>3. \A v \in Workers : Runs(v)' => /\ Runs(v) /\ worker'[v].job = worker[v].job
                                         /\ worker'[v].attempts = worker[v].attempts
      BY <2>2 DEF Runs
    <2> QED
      BY <2>1, <2>3, SharedKept
  <1>11. ASSUME NEW w \in Workers, Commit(w)
         PROVE  SharedInv'
    <2> DEFINE j == worker[w].job
    <2>1. Busy(w) /\ worker[w].result # "none" /\ j \in JobIds /\ worker[w].began \in Int
      BY <1>11 DEF Commit, TypeOK, Busy, Processes
    <2>2. /\ Settled(w).status # "processing" /\ Settled(w).attempts = job[j].attempts
          /\ job[j].attempts \in Nat
      BY <2>1, SettledType DEF TypeOK, Rows
    <2>3. ASSUME job'[j] = Settled(w) PROVE RowKept(j)
      BY <2>2, <2>3 DEF RowKept
    <2>4. \A k \in JobIds : RowKept(k)
      <3>1. CASE job' = [job EXCEPT ![j] = Settled(w)]
        BY <1>1, <2>1, <2>3, <3>1 DEF TypeOK
      <3>2. ASSUME NEW n \in NoteJobs, NeedsNote(w), job[n] = NoRow,
                   job' = [job EXCEPT ![j] = Settled(w), ![n] = NewRow(worker[w].began, j)]
            PROVE  \A k \in JobIds : RowKept(k)
        <4>1. n \in JobIds /\ j \in OutboundJobs /\ n # j
          BY <3>2, JobsAssumption DEF JobIds, NeedsNote
        <4>2. /\ job'[n] = NewRow(worker[w].began, j) /\ job'[j] = Settled(w)
              /\ \A k \in JobIds \ {j, n} : job'[k] = job[k]
          BY <2>1, <3>2, <4>1 DEF TypeOK
        <4>3. RowKept(n)
          BY <1>2, <2>1, <3>2, <4>1, <4>2
        <4> QED
          BY <1>1, <2>3, <4>2, <4>3
      <3> QED
        BY <1>11, <3>1, <3>2 DEF Commit
    <2>5. worker' = [worker EXCEPT ![w] = Idle]
      BY <1>11 DEF Commit
    <2>6. \A v \in Workers : Runs(v)' => worker'[v] = worker[v] /\ Runs(v)
      BY <2>5, ProcessType DEF TypeOK, Runs
    <2> QED
      BY <2>4, <2>6, SharedKept
  <1>12. CASE Tick
    <2>1. \A v \in Workers : /\ worker'[v].pc = worker[v].pc /\ worker'[v].job = worker[v].job
                             /\ worker'[v].attempts = worker[v].attempts
      <3> SUFFICES ASSUME NEW v \in Workers
                   PROVE  /\ worker'[v].pc = worker[v].pc /\ worker'[v].job = worker[v].job
                          /\ worker'[v].attempts = worker[v].attempts
        OBVIOUS
      <3>1. worker[v] \in Processes
        BY DEF TypeOK
      <3>2. worker'[v] = [worker[v] EXCEPT !.began = Older(@)]
        BY <1>12 DEF Tick
      <3> QED
        BY <3>1, <3>2 DEF Processes
    <2>2. \A j \in JobIds : /\ job'[j].status = job[j].status /\ job'[j].attempts = job[j].attempts
                            /\ job'[j].lockedBy = job[j].lockedBy
      <3> SUFFICES ASSUME NEW j \in JobIds
                   PROVE  /\ job'[j].status = job[j].status /\ job'[j].attempts = job[j].attempts
                          /\ job'[j].lockedBy = job[j].lockedBy
        OBVIOUS
      <3>1. job[j] \in Rows
        BY DEF TypeOK
      <3>2. \/ job'[j] = job[j]
            \/ job'[j] = [job[j] EXCEPT !.next = Older(@), !.lockedAt = Older(@), !.born = Older(@)]
        BY <1>12 DEF Tick
      <3> QED
        BY <3>1, <3>2 DEF Rows
    <2>3. \A j \in JobIds : RowKept(j)
      BY <2>2 DEF RowKept, TypeOK, Rows
    <2> QED
      BY <2>1, <2>3, SharedKept DEF Runs
  <1>13. CASE UNCHANGED vars \/ \E w \in Workers : LoseLock(w)
    <2>1. job' = job /\ worker' = worker
      BY <1>13 DEF LoseLock, vars, queue
    <2> QED
      BY <1>1, <2>1, SharedKept DEF Runs
  <1> QED
    BY <1>4, <1>5, <1>6, <1>7, <1>8, <1>9, <1>10, <1>11, <1>12, <1>13 DEF Next, Work

\* Whatever happens to the lock: no two workers run one attempt of a job, nor any that
\* the row has not reached.
THEOREM AttemptOwnerHolds == Spec => []OneWorkerPerAttempt
  <1>1. Init => SharedInv
    BY ProcessType DEF Init, SharedInv, Runs
  <1>2. SharedInv => OneWorkerPerAttempt
    BY DEF SharedInv, OneWorkerPerAttempt, Runs
  <1> QED
    BY <1>1, <1>2, SharedStep, TypeCorrect, PTL DEF Spec
=============================================================================
