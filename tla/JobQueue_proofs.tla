--------------------------- MODULE JobQueue_proofs --------------------------
(* Each operation of the queue keeps its invariant and touches one job. *)
EXTENDS JobQueue, SequenceTheorems, TLAPS

QueueOK == QueueTypeOK /\ QueueInv

(* Adding a job appends a fresh one and changes no other. *)
LEMMA EnqueueOK ==
    ASSUME QueueOK, NEW data \in Payload, Enqueue(data)
    PROVE  /\ QueueOK'
           /\ added + 1 \in JobId
           /\ jobs[added + 1].state = "none"
           /\ jobs'[added + 1].data = data
           /\ \A j \in JobId : j # added + 1 => jobs'[j] = jobs[j]
<1> USE QueueAssumption DEF QueueOK, QueueTypeOK, QueueInv, Enqueue
<1> DEFINE n == added + 1
           job == [state |-> "waiting", data |-> data, attempts |-> 0, stalls |-> 0]
<1>1. n \in JobId /\ jobs[n].state = "none"
  BY DEF JobId, JobsNumbered
<1>2. job \in Job
  BY DEF Job
<1>3. jobs'[n] = job /\ \A j \in JobId : j # n => jobs'[j] = jobs[j]
  BY <1>1
<1>4. QueueTypeOK'
  BY <1>1, <1>2, AppendProperties DEF QueueTypeOK, JobId
<1>5. WaitListSound'
  <2>1. /\ Len(wait') = Len(wait) + 1 /\ wait'[Len(wait) + 1] = n
        /\ \A i \in 1..Len(wait) : wait'[i] = wait[i]
        /\ Len(wait) \in Nat
    BY <1>1, AppendProperties, LenProperties
  <2>2. \A i \in 1..Len(wait) : wait[i] # n /\ wait[i] \in JobId
    BY <1>1, ElementOfSeq DEF WaitListSound
  <2>3. QED
    BY <2>1, <2>2, <1>3 DEF WaitListSound
<1>6. JobsNumbered'
  BY <1>3 DEF JobsNumbered, JobId
<1>7. AttemptsLeft'
  BY <1>3 DEF AttemptsLeft
<1>8. QED
  BY <1>1, <1>3, <1>4, <1>5, <1>6, <1>7 DEF QueueInv

(* Taking a job removes the head of the wait list and makes it active. *)
LEMMA TakeJobOK ==
    ASSUME QueueOK, NEW j \in JobId, TakeJob(j)
    PROVE  /\ QueueOK'
           /\ jobs[j].state = "waiting"
           /\ jobs[j] \in Job
           /\ jobs' = [jobs EXCEPT ![j].state = "active"]
           /\ jobs'[j].state = "active"
           /\ jobs'[j].data = jobs[j].data
<1> USE QueueAssumption DEF QueueOK, QueueTypeOK, QueueInv, TakeJob
<1>1. /\ Len(wait) \in Nat \ {0} /\ j = wait[1]
      /\ Tail(wait) \in Seq(JobId) /\ Len(Tail(wait)) = Len(wait) - 1
      /\ \A i \in 1..Len(Tail(wait)) : Tail(wait)[i] = wait[i + 1]
  BY HeadTailProperties, EmptySeq
<1>2. jobs[j].state = "waiting"
  BY <1>1 DEF WaitListSound
<1>3. jobs[j] \in Job
  BY <1>2 DEF NoJob
<1>4. /\ jobs' \in [JobId -> Job \cup {NoJob}]
      /\ jobs'[j].state = "active" /\ jobs'[j].data = jobs[j].data
      /\ jobs'[j].attempts = jobs[j].attempts
      /\ \A i \in JobId : i # j => jobs'[i] = jobs[i]
  BY <1>3 DEF Job
<1>5. WaitListSound'
  <2> DEFINE rest == Tail(wait)
  <2>1. \A i \in 1..Len(rest) : i + 1 \in 1..Len(wait) /\ rest[i] = wait[i + 1]
    BY <1>1
  <2>2. \A i \in 1..Len(wait) : wait[i] \in JobId
    BY ElementOfSeq
  <2>3. \A i \in 1..Len(rest) : rest[i] # j /\ rest[i] \in JobId
    BY <1>1, <2>1, <2>2 DEF WaitListSound
  <2>4. \A i \in 1..Len(rest) : jobs'[rest[i]].state = "waiting"
    BY <1>4, <2>1, <2>3 DEF WaitListSound
  <2>5. \A i, k \in 1..Len(rest) : rest[i] = rest[k] => i = k
    BY <1>1, <2>1 DEF WaitListSound
  <2>6. ASSUME NEW i \in JobId, jobs'[i].state = "waiting"
        PROVE  \E k \in 1..Len(rest) : rest[k] = i
    <3>1. i # j /\ jobs[i].state = "waiting"
      BY <1>4, <2>6
    <3>2. PICK k \in 1..Len(wait) : wait[k] = i
      BY <3>1 DEF WaitListSound
    <3>3. k - 1 \in 1..Len(rest) /\ rest[k - 1] = i
      BY <1>1, <3>1, <3>2
    <3>4. QED
      BY <3>3
  <2>7. QED
    BY <2>4, <2>5, <2>6 DEF WaitListSound
<1>6. JobsNumbered' /\ AttemptsLeft'
  BY <1>2, <1>4 DEF JobsNumbered, AttemptsLeft
<1>7. QED
  BY <1>1, <1>2, <1>3, <1>4, <1>5, <1>6

(* A handler that returns or throws changes its own, active job only. *)
LEMMA FinishJobOK ==
    ASSUME QueueOK, NEW j \in JobId, jobs[j].state = "active",
           CompleteJob(j) \/ FailAttempt(j)
    PROVE  /\ QueueOK'
           /\ jobs'[j].state \in {"completed", "delayed", "failed"}
           /\ jobs'[j].data = jobs[j].data
           /\ \A i \in JobId : i # j => jobs'[i] = jobs[i]
           /\ added' = added
<1> USE QueueAssumption DEF QueueOK, QueueTypeOK, QueueInv
<1>1. jobs[j] \in Job /\ jobs[j].attempts < MaxAttempts
  BY DEF NoJob, AttemptsLeft
<1>2. /\ jobs' \in [JobId -> Job \cup {NoJob}]
      /\ jobs'[j].state \in {"completed", "delayed", "failed"}
      /\ jobs'[j].data = jobs[j].data
      /\ jobs'[j].state = "delayed" => jobs'[j].attempts < MaxAttempts
      /\ \A i \in JobId : i # j => jobs'[i] = jobs[i]
      /\ wait' = wait /\ added' = added
  <2>1. CASE CompleteJob(j)
    BY <1>1, <2>1 DEF CompleteJob, Job
  <2>2. CASE FailAttempt(j)
    <3>1. jobs[j].attempts + 1 \in 0..MaxAttempts
      BY <1>1 DEF Job
    <3>2. QED
      BY <1>1, <2>2, <3>1 DEF FailAttempt, Job
  <2>3. QED
    BY <2>1, <2>2
<1>3. \A i \in 1..Len(wait) : wait[i] \in JobId /\ wait[i] # j
  BY ElementOfSeq DEF WaitListSound
<1>4. WaitListSound'
  BY <1>2, <1>3 DEF WaitListSound
<1>5. JobsNumbered' /\ AttemptsLeft'
  BY <1>2 DEF JobsNumbered, AttemptsLeft
<1>6. QED
  BY <1>2, <1>4, <1>5

(* A delayed job comes back at the tail of the wait list. *)
LEMMA PromoteOK ==
    ASSUME QueueOK, NEW j \in JobId, PromoteDelayed(j)
    PROVE  /\ QueueOK'
           /\ jobs[j].state = "delayed"
           /\ jobs'[j].data = jobs[j].data
           /\ jobs'[j].state # "none"
           /\ \A i \in JobId : i # j => jobs'[i] = jobs[i]
           /\ added' = added
<1> USE QueueAssumption DEF QueueOK, QueueTypeOK, QueueInv, PromoteDelayed
<1>1. jobs[j] \in Job
  BY DEF NoJob
<1>2. /\ jobs' \in [JobId -> Job \cup {NoJob}]
      /\ jobs'[j].state = "waiting"
      /\ jobs'[j].data = jobs[j].data
      /\ jobs'[j].attempts = jobs[j].attempts
      /\ \A i \in JobId : i # j => jobs'[i] = jobs[i]
  BY <1>1 DEF Job
<1>3. /\ wait' \in Seq(JobId) /\ Len(wait) \in Nat
      /\ Len(wait') = Len(wait) + 1 /\ wait'[Len(wait) + 1] = j
      /\ \A i \in 1..Len(wait) : wait'[i] = wait[i]
  BY AppendProperties, LenProperties
<1>4. \A i \in 1..Len(wait) : wait[i] \in JobId /\ wait[i] # j
  BY ElementOfSeq DEF WaitListSound
<1>5. WaitListSound'
  BY <1>2, <1>3, <1>4 DEF WaitListSound
<1>6. JobsNumbered' /\ AttemptsLeft'
  BY <1>2 DEF JobsNumbered, AttemptsLeft
<1>7. QED
  BY <1>2, <1>3, <1>5, <1>6

(* A wait list of distinct waiting jobs stays one when another job is put  *)
(* at its head.                                                            *)
LEMMA PutAtHead ==
    ASSUME NEW w \in Seq(JobId), NEW j \in JobId,
           \A i \in 1..Len(w) : w[i] # j,
           \A i, k \in 1..Len(w) : w[i] = w[k] => i = k
    PROVE  /\ <<j>> \o w \in Seq(JobId)
           /\ \A i \in 1..Len(<<j>> \o w) :
                 (<<j>> \o w)[i] = j \/ \E k \in 1..Len(w) : (<<j>> \o w)[i] = w[k]
           /\ \A i, k \in 1..Len(<<j>> \o w) :
                 (<<j>> \o w)[i] = (<<j>> \o w)[k] => i = k
           /\ \E k \in 1..Len(<<j>> \o w) : (<<j>> \o w)[k] = j
           /\ \A i \in 1..Len(w) : \E k \in 1..Len(<<j>> \o w) : (<<j>> \o w)[k] = w[i]
<1> DEFINE v == <<j>> \o w
<1>1. <<j>> \in Seq(JobId) /\ Len(<<j>>) = 1 /\ <<j>>[1] = j
  OBVIOUS
<1>2. Len(w) \in Nat
  BY LenProperties
<1>3. /\ v \in Seq(JobId)
      /\ Len(v) = 1 + Len(w)
      /\ \A i \in 1..1 + Len(w) : v[i] = IF i <= 1 THEN <<j>>[i] ELSE w[i - 1]
  BY <1>1, ConcatProperties
<1>4. v[1] = j /\ \A i \in 2..1 + Len(w) : v[i] = w[i - 1]
  BY <1>1, <1>2, <1>3
<1> HIDE DEF v
<1>5. \A i \in 1..Len(v) : v[i] = j \/ \E k \in 1..Len(w) : v[i] = w[k]
  <2> TAKE i \in 1..Len(v)
  <2>1. CASE i = 1
    BY <1>4, <2>1
  <2>2. CASE i # 1
    <3>1. i - 1 \in 1..Len(w) /\ v[i] = w[i - 1]
      BY <1>2, <1>3, <1>4, <2>2
    <3>2. QED
      BY <3>1
  <2>3. QED
    BY <2>1, <2>2
<1>6. \A i, k \in 1..Len(v) : v[i] = v[k] => i = k
  <2> TAKE i, k \in 1..Len(v)
  <2> HAVE v[i] = v[k]
  <2>1. CASE i # 1 /\ k # 1
    <3>1. /\ i - 1 \in 1..Len(w) /\ v[i] = w[i - 1]
          /\ k - 1 \in 1..Len(w) /\ v[k] = w[k - 1]
      BY <1>2, <1>3, <1>4, <2>1
    <3>2. i - 1 = k - 1
      BY <3>1
    <3>3. QED
      BY <1>2, <1>3, <3>2
  <2>2. CASE i = 1 /\ k # 1
    <3>1. k - 1 \in 1..Len(w) /\ v[k] = w[k - 1]
      BY <1>2, <1>3, <1>4, <2>2
    <3>2. QED
      BY <1>4, <2>2, <3>1
  <2>3. CASE i # 1 /\ k = 1
    <3>1. i - 1 \in 1..Len(w) /\ v[i] = w[i - 1]
      BY <1>2, <1>3, <1>4, <2>3
    <3>2. QED
      BY <1>4, <2>3, <3>1
  <2>4. QED
    BY <2>1, <2>2, <2>3
<1>7. 1 \in 1..Len(v)
  BY <1>2, <1>3
<1>8. \A i \in 1..Len(w) : \E k \in 1..Len(v) : v[k] = w[i]
  <2> TAKE i \in 1..Len(w)
  <2>1. i + 1 \in 1..Len(v) /\ v[i + 1] = w[i]
    BY <1>2, <1>3, <1>4
  <2>2. QED
    BY <2>1
<1>9. QED
  BY <1>3, <1>4, <1>5, <1>6, <1>7, <1>8 DEF v

(* A stalled job comes back at the head, or is given up. *)
LEMMA RecoverOK ==
    ASSUME QueueOK, NEW j \in JobId, RecoverStalled(j)
    PROVE  /\ QueueOK'
           /\ jobs[j].state = "active"
           /\ jobs'[j].data = jobs[j].data
           /\ jobs'[j].state # "none"
           /\ \A i \in JobId : i # j => jobs'[i] = jobs[i]
           /\ added' = added
<1>1. jobs[j] \in Job /\ jobs[j].state = "active"
  BY DEF QueueOK, QueueTypeOK, RecoverStalled, NoJob
<1>2. /\ wait \in Seq(JobId)
      /\ \A i \in 1..Len(wait) : wait[i] \in JobId /\ wait[i] # j
      /\ \A i, k \in 1..Len(wait) : wait[i] = wait[k] => i = k
  BY <1>1, ElementOfSeq DEF QueueOK, QueueTypeOK, QueueInv, WaitListSound
<1>3. /\ jobs' \in [JobId -> Job \cup {NoJob}]
      /\ jobs'[j].data = jobs[j].data
      /\ jobs'[j].attempts = jobs[j].attempts
      /\ \A i \in JobId : i # j => jobs'[i] = jobs[i]
      /\ added' = added
      /\ \/ jobs'[j].state = "waiting" /\ wait' = <<j>> \o wait
         \/ jobs'[j].state = "failed" /\ wait' = wait
  <2>1. jobs \in [JobId -> Job \cup {NoJob}]
    BY DEF QueueOK, QueueTypeOK
  <2>2. CASE jobs[j].stalls < MaxStalledCount
    <3>1. /\ jobs[j].stalls + 1 \in 0..MaxStalledCount
          /\ ~(jobs[j].stalls >= MaxStalledCount)
      BY <1>1, <2>2, QueueAssumption DEF Job
    <3>2. QED
      BY <1>1, <2>1, <3>1 DEF Job, RecoverStalled
  <2>3. CASE ~(jobs[j].stalls < MaxStalledCount)
    BY <1>1, <2>1, <2>3 DEF Job, RecoverStalled
  <2>4. QED
    BY <2>2, <2>3
<1> DEFINE v == <<j>> \o wait
<1>4. /\ v \in Seq(JobId)
      /\ \A i \in 1..Len(v) : v[i] = j \/ \E k \in 1..Len(wait) : v[i] = wait[k]
      /\ \A i, k \in 1..Len(v) : v[i] = v[k] => i = k
      /\ \E k \in 1..Len(v) : v[k] = j
      /\ \A i \in 1..Len(wait) : \E k \in 1..Len(v) : v[k] = wait[i]
  <2>1. \A i \in 1..Len(wait) : wait[i] # j
    BY <1>2
  <2> HIDE DEF v
  <2>2. QED
    BY <1>2, <2>1, PutAtHead, Zenon DEF v
<1>5. QueueTypeOK'
  <2>1. wait' \in Seq(JobId)
    BY <1>4, <1>2, <1>3
  <2>2. QED
    BY <1>3, <2>1 DEF QueueOK, QueueTypeOK, JobId, Job, NoJob
<1>6. WaitListSound'
  <2>1. /\ \A i \in 1..Len(wait) : jobs[wait[i]].state = "waiting"
        /\ \A i \in JobId : jobs[i].state = "waiting"
                              => \E k \in 1..Len(wait) : wait[k] = i
    BY DEF QueueOK, QueueInv, WaitListSound
  <2>2. CASE jobs'[j].state = "waiting" /\ wait' = <<j>> \o wait
    <3>1. /\ \A i \in 1..Len(wait') :
                wait'[i] = j \/ \E k \in 1..Len(wait) : wait'[i] = wait[k]
          /\ \A i, k \in 1..Len(wait') : wait'[i] = wait'[k] => i = k
          /\ \E k \in 1..Len(wait') : wait'[k] = j
          /\ \A i \in 1..Len(wait) : \E k \in 1..Len(wait') : wait'[k] = wait[i]
      BY <1>4, <2>2
    <3>2. \A i \in 1..Len(wait') : jobs'[wait'[i]].state = "waiting"
      BY <1>2, <1>3, <2>1, <2>2, <3>1
    <3>3. \A i \in JobId : jobs'[i].state = "waiting"
                             => \E k \in 1..Len(wait') : wait'[k] = i
      <4> TAKE i \in JobId
      <4> HAVE jobs'[i].state = "waiting"
      <4>1. CASE i = j
        BY <3>1, <4>1
      <4>2. CASE i # j
        <5>1. PICK k \in 1..Len(wait) : wait[k] = i
          BY <1>3, <2>1, <4>2
        <5>2. QED
          BY <3>1, <5>1
      <4>3. QED
        BY <4>1, <4>2
    <3>4. QED
      BY <3>1, <3>2, <3>3 DEF WaitListSound
  <2>3. CASE jobs'[j].state = "failed" /\ wait' = wait
    BY <1>2, <1>3, <2>1, <2>3 DEF WaitListSound
  <2>4. QED
    BY <1>3, <2>2, <2>3
<1>7. JobsNumbered' /\ AttemptsLeft'
  BY <1>1, <1>3 DEF QueueOK, QueueInv, JobsNumbered, AttemptsLeft
<1>8. QED
  BY <1>1, <1>3, <1>5, <1>6, <1>7 DEF QueueOK, QueueInv

(* A step that leaves the queue alone. *)
LEMMA QueueUnchanged ==
    ASSUME QueueOK, UNCHANGED queueVars
    PROVE  QueueOK'
BY DEF QueueOK, QueueTypeOK, QueueInv, WaitListSound, JobsNumbered, AttemptsLeft,
       queueVars, JobId, Job, NoJob

(* The empty queue. *)
LEMMA QueueInitOK == ASSUME QueueInit PROVE QueueOK
<1> USE QueueAssumption DEF QueueInit
<1>1. QueueTypeOK
  BY EmptySeq DEF QueueTypeOK
<1>2. QueueInv
  BY EmptySeq DEF QueueInv, WaitListSound, JobsNumbered, AttemptsLeft, NoJob, JobId
<1>3. QED
  BY <1>1, <1>2 DEF QueueOK
=============================================================================
