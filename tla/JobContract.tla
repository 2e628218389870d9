---------------------------- MODULE JobContract ----------------------------
(* What the job queue promises, with no workers, locks, retries or crashes: a job
   is submitted once, its message is applied at most Limit times and only while
   the job is open, and it is closed once, as done only if its message was
   applied.  app/workers/jobs.py, process_claimed_job and its callees.  *)
EXTENDS Integers

CONSTANTS Jobs, Limit

VARIABLES phase, applied

cvars == <<phase, applied>>

ContractInit ==
    /\ phase = [j \in Jobs |-> "absent"]
    /\ applied = [j \in Jobs |-> 0]

\* The message of an open job reaches the other side, once more.
Apply(j) ==
    /\ phase[j] = "open"
    /\ applied[j] < Limit[j]
    /\ applied' = [applied EXCEPT ![j] = @ + 1]
    /\ UNCHANGED phase

Moves(j) ==
    \/ phase'[j] = phase[j]
    \/ phase[j] = "absent" /\ phase'[j] = "open"
    \/ phase[j] = "open" /\ phase'[j] = "dropped"
    \/ phase[j] = "open" /\ phase'[j] = "done" /\ applied[j] > 0

\* One transaction submits jobs, or closes jobs, or does both.
Settle ==
    /\ phase' \in [Jobs -> {"absent", "open", "done", "dropped"}]
    /\ \A j \in Jobs : Moves(j)
    /\ UNCHANGED applied

ContractNext == Settle \/ \E j \in Jobs : Apply(j)

ContractSpec == ContractInit /\ [][ContractNext]_cvars

=============================================================================
