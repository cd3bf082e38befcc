------------------------------ MODULE JobQueue ------------------------------
(***************************************************************************)
(* One BullMQ queue as the platform configures it: every queue inherits    *)
(* the defaultJobOptions of SharedModule (attempts: 3, exponential         *)
(* backoff), so a job whose handler throws is delayed and put back, and    *)
(* is given up only after its last attempt.  The library itself is not in  *)
(* the repository; this is what its callers rely on:                       *)
(*                                                                         *)
(*  - add appends the job to the wait list;                                *)
(*  - a worker takes the job at the head of the list;                      *)
(*  - a handler that returns completes the job, one that throws delays it  *)
(*    until its backoff elapses and it re-enters at the TAIL of the list;  *)
(*  - a job whose worker process died is found by the stalled-job check    *)
(*    and re-enters at the HEAD, at most MaxStalledCount times.            *)
(*                                                                         *)
(* Delays are not timed: a delayed job may come back at any moment.        *)
(***************************************************************************)
EXTENDS Naturals, Sequences, FiniteSets

CONSTANTS
    Payload,          \* the data a job can carry
    MaxJobs,          \* bound: the number of jobs ever added
    MaxAttempts,      \* attempts of defaultJobOptions
    MaxStalledCount   \* times a stalled job is given to another worker

ASSUME QueueAssumption ==
    /\ MaxJobs \in Nat
    /\ MaxAttempts \in Nat \ {0}
    /\ MaxStalledCount \in Nat

VARIABLES
    jobs,    \* jobs[j]: state, payload and failure counts of job j
    wait,    \* the wait list, oldest first
    added    \* the number of jobs added so far

queueVars == <<jobs, wait, added>>

JobId == 1..MaxJobs

Job == [state : {"waiting", "active", "delayed", "completed", "failed"},
        data : Payload, attempts : 0..MaxAttempts, stalls : 0..MaxStalledCount]

NoJob == [state |-> "none"]

QueueTypeOK ==
    /\ jobs \in [JobId -> Job \cup {NoJob}]
    /\ wait \in Seq(JobId)
    /\ added \in 0..MaxJobs

QueueInit ==
    /\ jobs = [j \in JobId |-> NoJob]
    /\ wait = <<>>
    /\ added = 0

-----------------------------------------------------------------------------
(* Mutant of Enqueue: the newest job is served first. *)
EnqueueAtHead(data) ==
    /\ added < MaxJobs
    /\ added' = added + 1
    /\ jobs' = [jobs EXCEPT ![added + 1] =
                   [state |-> "waiting", data |-> data, attempts |-> 0, stalls |-> 0]]
    /\ wait' = <<added + 1>> \o wait

(* queue.add(name, data): callers await it, so it is one step of theirs. *)
Enqueue(data) ==
    /\ added < MaxJobs
    /\ added' = added + 1
    /\ jobs' = [jobs EXCEPT ![added + 1] =
                   [state |-> "waiting", data |-> data, attempts |-> 0, stalls |-> 0]]
    /\ wait' = Append(wait, added + 1)

(* A worker that has nothing to do fetches the job at the head. *)
TakeJob(j) ==
    /\ wait # <<>>
    /\ j = Head(wait)
    /\ wait' = Tail(wait)
    /\ jobs' = [jobs EXCEPT ![j].state = "active"]
    /\ added' = added

(* The handler returned. *)
CompleteJob(j) ==
    /\ jobs' = [jobs EXCEPT ![j].state = "completed"]
    /\ UNCHANGED <<wait, added>>

(* Mutant of FailAttempt: one attempt too many. *)
FailAttemptLate(j) ==
    /\ jobs' = [jobs EXCEPT
                  ![j].attempts = @ + 1,
                  ![j].state = IF jobs[j].attempts + 1 <= MaxAttempts
                               THEN "delayed" ELSE "failed"]
    /\ UNCHANGED <<wait, added>>

(* The handler threw: back off, or give up after the last attempt. *)
FailAttempt(j) ==
    /\ jobs' = [jobs EXCEPT
                  ![j].attempts = @ + 1,
                  ![j].state = IF jobs[j].attempts + 1 < MaxAttempts
                               THEN "delayed" ELSE "failed"]
    /\ UNCHANGED <<wait, added>>

(* The backoff of a delayed job elapses. *)
PromoteDelayed(j) ==
    /\ jobs[j].state = "delayed"
    /\ jobs' = [jobs EXCEPT ![j].state = "waiting"]
    /\ wait' = Append(wait, j)
    /\ added' = added

(* The lock of an active job whose worker died has expired. *)
RecoverStalled(j) ==
    /\ jobs[j].state = "active"
    /\ \/ /\ jobs[j].stalls < MaxStalledCount
          /\ jobs' = [jobs EXCEPT ![j].state = "waiting", ![j].stalls = @ + 1]
          /\ wait' = <<j>> \o wait
       \/ /\ jobs[j].stalls >= MaxStalledCount
          /\ jobs' = [jobs EXCEPT ![j].state = "failed"]
          /\ wait' = wait
    /\ added' = added

-----------------------------------------------------------------------------
(* The wait list holds each waiting job once and nothing else. *)
WaitListSound ==
    /\ \A i \in 1..Len(wait) : jobs[wait[i]].state = "waiting"
    /\ \A i, k \in 1..Len(wait) : wait[i] = wait[k] => i = k
    /\ \A j \in JobId : jobs[j].state = "waiting" => \E i \in 1..Len(wait) : wait[i] = j

(* Jobs are numbered in the order they were added. *)
JobsNumbered == \A j \in JobId : jobs[j].state # "none" <=> j <= added

(* A job that may still run has an attempt left. *)
AttemptsLeft ==
    \A j \in JobId : jobs[j].state \in {"waiting", "active", "delayed"}
                        => jobs[j].attempts < MaxAttempts

(* However jobs are retried, promoted or recovered, none waits twice or is *)
(* lost, and none is run more often than its attempts allow.               *)
QueueInv == WaitListSound /\ JobsNumbered /\ AttemptsLeft

Settled(j) == jobs[j].state \in {"completed", "failed"}
=============================================================================
