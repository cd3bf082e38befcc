----------------------- MODULE FundingRequests_proofs -----------------------
(* What holds of the funding requests for all numbers of deals, requests,  *)
(* workers, jobs, attempts and faults.                                     *)
EXTENDS FundingRequests, JobQueue_proofs, FiniteSetTheorems

IInv == TypeOK /\ JobsOwned

(* The jobs of busy workers stay as they are. *)
JobsHeld ==
    \A v \in Workers :
        worker[v] # Resting =>
            /\ jobs'[worker[v].job].state = "active"
            /\ jobs'[worker[v].job].data = jobs[worker[v].job].data

(* No job is lost or given other data. *)
JobsKept ==
    \A j \in JobId : jobs[j].state # "none" =>
                        jobs'[j].state # "none" /\ jobs'[j].data = jobs[j].data

(* A busy worker holds an active job of its own. *)
LEMMA BusyWorker ==
    ASSUME IInv, NEW w \in Workers, worker[w].step # "idle"
    PROVE  /\ worker[w] # Resting
           /\ worker[w] \in WorkerState
           /\ worker[w].job \in JobId
           /\ worker[w].job \in 1..added
           /\ jobs[worker[w].job] \in Job
           /\ jobs[worker[w].job].state = "active"
           /\ DealOf(w) \in Deals
           /\ \A v \in Workers : worker[v].job = worker[w].job => v = w
<1> USE QueueAssumption, FundingAssumption
<1>1. worker[w] # Resting
  BY DEF Resting
<1>2. worker[w] \in WorkerState
  BY <1>1 DEF IInv, TypeOK
<1>3. worker[w].job \in JobId
  BY <1>2 DEF WorkerState
<1>4. WorkerSound(w)
  BY DEF IInv, JobsOwned
<1>5. /\ worker[w].job \in 1..added
      /\ jobs[worker[w].job].state = "active"
      /\ \A v \in Workers : worker[v].job = worker[w].job => v = w
  BY <1>1, <1>4 DEF WorkerSound
<1>6. jobs[worker[w].job] \in Job
  BY <1>3, <1>5 DEF IInv, TypeOK, QueueTypeOK, NoJob
<1>7. jobs[worker[w].job].data \in Payload
  BY <1>6 DEF Job
<1>8. DealOf(w) \in Deals
  BY <1>7 DEF DealOf, JobOf
<1>9. QED
  BY <1>1, <1>2, <1>3, <1>5, <1>6, <1>8

(* ... which is not the next one to be added. *)
LEMMA HeldJob ==
    ASSUME IInv, NEW w \in Workers, worker[w] # Resting
    PROVE  /\ worker[w].job \in JobId
           /\ worker[w].job # added + 1
           /\ jobs[worker[w].job].state = "active"
<1>1. worker[w].job \in 1..added /\ jobs[worker[w].job].state = "active"
  BY DEF IInv, JobsOwned, WorkerSound
<1>2. added \in 0..MaxJobs
  BY DEF IInv, TypeOK, QueueTypeOK
<1>3. QED
  BY <1>1, <1>2, QueueAssumption DEF JobId

(* Ownership survives a step that moves no worker and keeps their jobs. *)
LEMMA WorkersStay ==
    ASSUME IInv, QueueInv', worker' = worker, JobsHeld,
           added' = added \/ added' = added + 1
    PROVE  JobsOwned'
<1> SUFFICES ASSUME NEW w \in Workers PROVE WorkerSound(w)'
  BY DEF JobsOwned
<1>1. added \in Nat
  BY QueueAssumption DEF IInv, TypeOK, QueueTypeOK
<1>2. WorkerSound(w)
  BY DEF IInv, JobsOwned
<1>3. CASE worker[w] = Resting
  BY <1>3 DEF WorkerSound, Resting
<1>4. CASE worker[w] # Resting
  <2>1. /\ worker[w].step # "idle" /\ worker[w].job \in 1..added
        /\ \A v \in Workers : worker[v].job = worker[w].job => v = w
        /\ worker[w].step \in NewRequestSteps
             => jobs[worker[w].job].data.name = "NEW_FUNDING_REQUEST"
    BY <1>2, <1>4 DEF WorkerSound, JobOf
  <2>2. worker[w].job \in 1..added'
    BY <1>1, <2>1
  <2>3. /\ jobs'[worker[w].job].state = "active"
        /\ jobs'[worker[w].job].data = jobs[worker[w].job].data
    BY <1>4 DEF JobsHeld
  <2>4. QED
    BY <2>1, <2>2, <2>3 DEF WorkerSound, JobOf
<1>5. QED
  BY <1>3, <1>4

(* ... and one that changes neither the queue nor a worker. *)
LEMMA NothingMoves ==
    ASSUME IInv, UNCHANGED <<queueVars, worker>>
    PROVE  QueueTypeOK' /\ JobsOwned'
<1>1. QueueOK'
  BY QueueUnchanged DEF IInv, TypeOK, JobsOwned, QueueOK
<1>2. JobsHeld
  BY DEF JobsHeld, queueVars, IInv, JobsOwned, WorkerSound
<1>3. QED
  BY <1>1, <1>2, WorkersStay DEF QueueOK, queueVars

(* Ownership survives a step of worker w that keeps its job. *)
LEMMA WorkerProceeds ==
    ASSUME IInv, NEW w \in Workers, worker[w].step # "idle",
           NEW to,
           \/ to = "log"
           \/ /\ to = "create_checklist" \/ to = "create_record"
              /\ JobOf(w).name = "NEW_FUNDING_REQUEST",
           Proceed(w, to)
    PROVE  /\ QueueTypeOK' /\ JobsOwned'
           /\ worker' \in [Workers -> WorkerState \cup {Resting}]
<1>1. QueueOK'
  BY QueueUnchanged DEF IInv, TypeOK, JobsOwned, QueueOK, Proceed
<1>2. worker[w] \in WorkerState /\ worker \in [Workers -> WorkerState \cup {Resting}]
  BY BusyWorker DEF IInv, TypeOK
<1>3. /\ worker' = [worker EXCEPT ![w].step = to]
      /\ jobs' = jobs /\ added' = added
  BY DEF Proceed, queueVars
<1>4. /\ worker' \in [Workers -> WorkerState \cup {Resting}]
      /\ worker'[w].step = to /\ worker'[w].job = worker[w].job
      /\ worker'[w] # Resting
      /\ \A v \in Workers : worker'[v].job = worker[v].job
      /\ \A v \in Workers \ {w} : worker'[v] = worker[v]
  BY <1>2, <1>3 DEF WorkerState, Resting
<1>5. ASSUME NEW v \in Workers PROVE WorkerSound(v)'
  <2>1. WorkerSound(v) /\ WorkerSound(w)
    BY DEF IInv, JobsOwned
  <2>2. CASE v = w
    <3>1. worker[w] # Resting /\ worker'[w].job = worker[w].job
      BY <1>4, BusyWorker
    <3>2. /\ worker[w].job \in 1..added /\ jobs[worker[w].job].state = "active"
          /\ \A u \in Workers : worker[u].job = worker[w].job => u = w
      BY <2>1, <3>1 DEF WorkerSound
    <3>3. \A u \in Workers : worker'[u].job = worker[w].job => u = w
      BY <1>4, <3>2
    <3>4. to \in NewRequestSteps
            => jobs'[worker[w].job].data.name = "NEW_FUNDING_REQUEST"
      BY <1>3 DEF JobOf, NewRequestSteps
    <3>5. to # "idle"
      OBVIOUS
    <3>6. QED
      BY <1>3, <1>4, <2>2, <3>1, <3>2, <3>3, <3>4, <3>5 DEF WorkerSound, JobOf
  <2>3. CASE v # w
    BY <1>3, <1>4, <2>1, <2>3 DEF WorkerSound, JobOf, Resting
  <2>4. QED
    BY <2>2, <2>3
<1>6. QED
  BY <1>1, <1>4, <1>5 DEF QueueOK, JobsOwned

(* Ownership survives a worker's giving up its job, whose state then is    *)
(* its own affair.                                                         *)
LEMMA WorkerRests ==
    ASSUME IInv, NEW w \in Workers, worker[w].step # "idle",
           worker' = [worker EXCEPT ![w] = Resting],
           QueueInv', added' = added,
           \A i \in JobId : i # worker[w].job => jobs'[i] = jobs[i]
    PROVE  JobsOwned' /\ worker' \in [Workers -> WorkerState \cup {Resting}]
<1>1. worker \in [Workers -> WorkerState \cup {Resting}]
  BY DEF IInv, TypeOK
<1>2. /\ worker' \in [Workers -> WorkerState \cup {Resting}]
      /\ worker'[w] = Resting
      /\ \A v \in Workers \ {w} : worker'[v] = worker[v]
  BY <1>1
<1>3. ASSUME NEW v \in Workers PROVE WorkerSound(v)'
  <2>1. CASE worker'[v] = Resting
    BY <2>1 DEF WorkerSound, Resting
  <2>2. CASE worker'[v] # Resting
    <3>1. v # w /\ worker'[v] = worker[v] /\ worker[v] # Resting
      BY <1>2, <2>2
    <3>2. WorkerSound(v)
      BY DEF IInv, JobsOwned
    <3>3. /\ worker[v].job \in JobId /\ worker[v].job # worker[w].job
          /\ worker[v].job # 0
      <4>1. worker[v] \in WorkerState
        BY <1>1, <3>1
      <4>2. worker[v].job \in JobId
        BY <4>1 DEF WorkerState
      <4>3. worker[v].job # worker[w].job
        BY <3>1, <3>2 DEF WorkerSound
      <4>4. QED
        BY <4>2, <4>3, QueueAssumption DEF JobId
    <3>4. jobs'[worker[v].job] = jobs[worker[v].job]
      BY <3>3
    <3>5. \A u \in Workers : worker'[u].job = worker[v].job => u = v
      <4> TAKE u \in Workers
      <4> HAVE worker'[u].job = worker[v].job
      <4>1. u # w
        BY <1>2, <3>3 DEF Resting
      <4>2. worker[u].job = worker[v].job
        BY <1>2, <4>1
      <4>3. QED
        BY <3>1, <3>2, <4>2 DEF WorkerSound
    <3>6. QED
      BY <3>1, <3>2, <3>4, <3>5 DEF WorkerSound, JobOf, Resting
  <2>3. QED
    BY <2>1, <2>2
<1>4. QED
  BY <1>2, <1>3 DEF JobsOwned

-----------------------------------------------------------------------------
(* The steps of the customer and of the API. *)
LEMMA StatusSet ==
    ASSUME deal \in [Deals -> DealState], NEW d \in Deals,
           NEW status \in DealStatus, SetStatus(d, status)
    PROVE  deal' \in [Deals -> DealState]
<1>1. [deal[d] EXCEPT !.status = status] \in DealState
  BY DEF DealState
<1>2. QED
  BY <1>1 DEF SetStatus

LEMMA CustomerStep == ASSUME IInv, Customer PROVE IInv'
<1> USE DEF IInv, TypeOK
<1>1. UNCHANGED <<queueVars, worker, records, direct, faults>>
  BY DEF Customer, CreateDeal, UpdateDeal, DeleteDeal, BeginRequest, BeginWithdraw,
         Begin
<1>2. QueueTypeOK' /\ JobsOwned'
  BY <1>1, NothingMoves
<1> DEFINE Typed == /\ deal' \in [Deals -> DealState]
                    /\ request' \in [Requests -> RequestState \cup {Idle}]
<1>3. Typed
  <2>1. ASSUME NEW d \in Deals, CreateDeal(d) PROVE Typed
    BY <2>1, StatusSet DEF CreateDeal, DealStatus
  <2>2. ASSUME NEW d \in Deals, DeleteDeal(d) PROVE Typed
    BY <2>2, StatusSet DEF DeleteDeal, DealStatus
  <2>3. ASSUME NEW d \in Deals, UpdateDeal(d) PROVE Typed
    BY <2>3 DEF UpdateDeal, DealState
  <2>4. ASSUME NEW d \in Deals, NEW r \in Requests, BeginRequest(r, d)
        PROVE  Typed
    <3>1. [step |-> "set_requested", deal |-> d] \in RequestState
      BY DEF RequestState
    <3>2. QED
      BY <2>4, <3>1 DEF BeginRequest, Begin
  <2>5. ASSUME NEW d \in Deals, NEW r \in Requests, BeginWithdraw(r, d)
        PROVE  Typed
    <3>1. [step |-> "add_withdraw_job", deal |-> d] \in RequestState
      BY DEF RequestState
    <3>2. QED
      BY <2>5, <3>1 DEF BeginWithdraw, Begin
  <2>6. QED
    BY <2>1, <2>2, <2>3, <2>4, <2>5 DEF Customer
<1>4. QED
  BY <1>1, <1>2, <1>3

(* A request that is not idle is for a deal. *)
LEMMA BusyRequest ==
    ASSUME IInv, NEW r \in Requests, request[r].step # "idle"
    PROVE  request[r] \in RequestState /\ request[r].deal \in Deals
<1>1. request[r] # Idle
  BY DEF Idle
<1>2. request[r] \in RequestState
  BY <1>1 DEF IInv, TypeOK
<1>3. QED
  BY <1>2 DEF RequestState

LEMMA WriteStep ==
    ASSUME IInv, NEW r \in Requests, SetRequested(r) \/ SetInProgress(r)
    PROVE  IInv'
<1>1. request[r] \in RequestState /\ request[r].deal \in Deals
  BY BusyRequest DEF SetRequested, SetInProgress
<1>2. UNCHANGED <<queueVars, records, worker, direct, faults>>
  BY DEF SetRequested, SetInProgress, WriteStatus
<1>3. QueueTypeOK' /\ JobsOwned'
  BY <1>2, NothingMoves
<1>4. deal' \in [Deals -> DealState]
  <2>1. CASE SetRequested(r)
    <3>1. \/ deal' = deal
          \/ SetStatus(request[r].deal, "FUNDING_REQUESTED")
      BY <2>1 DEF SetRequested, WriteStatus
    <3>2. QED
      BY <1>1, <3>1, StatusSet DEF IInv, TypeOK, DealStatus
  <2>2. CASE SetInProgress(r)
    <3>1. deal' = deal \/ SetStatus(request[r].deal, "IN_PROGRESS")
      BY <2>2 DEF SetInProgress, WriteStatus
    <3>2. QED
      BY <1>1, <3>1, StatusSet DEF IInv, TypeOK, DealStatus
  <2>3. QED
    BY <2>1, <2>2
<1>5. [request[r] EXCEPT !.step = "add_new_job"] \in RequestState
  BY <1>1 DEF RequestState
<1>6. request' \in [Requests -> RequestState \cup {Idle}]
  BY <1>1, <1>5 DEF IInv, TypeOK, SetRequested, SetInProgress, WriteStatus
<1>7. QED
  BY <1>2, <1>3, <1>4, <1>6 DEF IInv, TypeOK

LEMMA AddStep ==
    ASSUME IInv, NEW r \in Requests, AddNewJob(r) \/ AddWithdrawJob(r)
    PROVE  /\ IInv'
           /\ JobsKept
           /\ UNCHANGED <<worker, records, direct>>
<1> USE DEF AddNewJob, AddWithdrawJob, AddJob
<1>1. request[r] \in RequestState /\ request[r].deal \in Deals
  BY BusyRequest
<1>2. PICK data \in Payload : Enqueue(data)
  BY <1>1, FundingAssumption
<1>3. QueueOK
  BY DEF IInv, TypeOK, JobsOwned, QueueOK
<1>4. /\ QueueOK'
      /\ added + 1 \in JobId
      /\ jobs[added + 1].state = "none"
      /\ \A j \in JobId : j # added + 1 => jobs'[j] = jobs[j]
  BY <1>2, <1>3, EnqueueOK
<1>5. UNCHANGED <<deal, records, worker, direct, faults>>
  OBVIOUS
<1>6. JobsHeld
  <2> SUFFICES ASSUME NEW v \in Workers, worker[v] # Resting
               PROVE  jobs'[worker[v].job] = jobs[worker[v].job]
                        /\ jobs[worker[v].job].state = "active"
    BY DEF JobsHeld
  <2>1. QED
    BY <1>4, HeldJob
<1>7. added' = added + 1
  BY <1>2 DEF Enqueue
<1>8. JobsOwned'
  BY <1>4, <1>5, <1>6, <1>7, WorkersStay DEF QueueOK
<1>9. [request[r] EXCEPT !.step = "set_in_progress"] \in RequestState
  BY <1>1 DEF RequestState
<1>10. request' \in [Requests -> RequestState \cup {Idle}]
  BY <1>9 DEF IInv, TypeOK
<1>11. JobsKept
  BY <1>4 DEF JobsKept
<1>12. QED
  BY <1>4, <1>5, <1>8, <1>10, <1>11 DEF IInv, TypeOK, QueueOK

LEMMA FailStep == ASSUME IInv, NEW r \in Requests, RequestFails(r) PROVE IInv'
<1>1. UNCHANGED <<queueVars, deal, records, worker, direct>>
  BY DEF RequestFails
<1>2. QueueTypeOK' /\ JobsOwned'
  BY <1>1, NothingMoves
<1>3. /\ request' \in [Requests -> RequestState \cup {Idle}]
      /\ faults' \in 0..MaxFaults
  BY FundingAssumption DEF IInv, TypeOK, RequestFails
<1>4. QED
  BY <1>1, <1>2, <1>3 DEF IInv, TypeOK

-----------------------------------------------------------------------------
(* The steps of the deal desk and of its workers. *)
RecordsOK == records' \in [Deals -> Seq(Decision)]

LEMMA DealDeskStep == ASSUME IInv, DealDesk PROVE IInv'
<1>1. UNCHANGED <<queueVars, worker, deal, request, faults>>
  BY DEF DealDesk, PostRecord, Decide
<1>2. QueueTypeOK' /\ JobsOwned'
  BY <1>1, NothingMoves
<1>3. RecordsOK /\ direct' \in [Deals -> 0..MaxDirect]
  <2>1. ASSUME NEW d \in Deals, PostRecord(d)
        PROVE  RecordsOK /\ direct' \in [Deals -> 0..MaxDirect]
    <3>1. Append(records[d], "PENDING") \in Seq(Decision)
      BY AppendProperties DEF IInv, TypeOK, Decision
    <3>2. direct[d] + 1 \in 0..MaxDirect
      BY <2>1, FundingAssumption DEF IInv, TypeOK, PostRecord
    <3>3. QED
      BY <2>1, <3>1, <3>2 DEF IInv, TypeOK, PostRecord, RecordsOK
  <2>2. ASSUME NEW d \in Deals, NEW i \in DOMAIN records[d],
               NEW decision \in Decision, Decide(d, i, decision)
        PROVE  RecordsOK /\ direct' \in [Deals -> 0..MaxDirect]
    <3>1. [records[d] EXCEPT ![i] = decision] \in Seq(Decision)
      BY ExceptSeq DEF IInv, TypeOK
    <3>2. QED
      BY <2>2, <3>1 DEF IInv, TypeOK, Decide, RecordsOK
  <2>3. QED
    BY <2>1, <2>2 DEF DealDesk
<1>4. QED
  BY <1>1, <1>2, <1>3 DEF IInv, TypeOK, RecordsOK

LEMMA TakeStep ==
    ASSUME IInv, NEW w \in Workers, Take(w)
    PROVE  /\ IInv'
           /\ JobsKept
           /\ UNCHANGED <<records, direct>>
<1> DEFINE Busy(j) == [job |-> j,
                       step |-> IF jobs[j].data.name = "NEW_FUNDING_REQUEST"
                                THEN "check" ELSE "delete_record"]
<1>1. PICK j \in JobId : TakeJob(j) /\ worker' = [worker EXCEPT ![w] = Busy(j)]
  BY DEF Take
<1>2. QueueOK
  BY DEF IInv, TypeOK, JobsOwned, QueueOK
<1>3. /\ QueueOK' /\ jobs[j].state = "waiting" /\ jobs[j] \in Job
      /\ jobs' = [jobs EXCEPT ![j].state = "active"]
      /\ jobs'[j].state = "active" /\ jobs'[j].data = jobs[j].data
  BY <1>1, <1>2, TakeJobOK
<1>4. \A i \in JobId : i # j => jobs'[i] = jobs[i]
  BY <1>2, <1>3 DEF QueueOK, QueueTypeOK
<1>5. /\ Busy(j) \in WorkerState /\ Busy(j).job = j
      /\ Busy(j).step # "idle"
      /\ Busy(j).step \in NewRequestSteps
            => jobs[j].data.name = "NEW_FUNDING_REQUEST"
  BY DEF WorkerState, NewRequestSteps
<1> HIDE DEF Busy
<1>6. /\ worker' \in [Workers -> WorkerState \cup {Resting}]
      /\ worker'[w] = Busy(j)
      /\ \A v \in Workers : v # w => worker'[v] = worker[v]
  BY <1>1, <1>5 DEF IInv, TypeOK
<1>7. j \in 1..added /\ added' = added /\ j # 0
  <2>1. j <= added
    BY <1>2, <1>3 DEF QueueOK, QueueInv, JobsNumbered
  <2>2. added' = added
    BY <1>1 DEF TakeJob
  <2>3. QED
    BY <1>2, <2>1, <2>2, QueueAssumption DEF QueueOK, QueueTypeOK, JobId
<1>8. \A v \in Workers : worker[v].job # j
  <2> TAKE v \in Workers
  <2>1. CASE worker[v] = Resting
    BY <1>7, <2>1 DEF Resting
  <2>2. CASE worker[v] # Resting
    BY <1>3, <2>2, HeldJob
  <2>3. QED
    BY <2>1, <2>2
<1>9. ASSUME NEW v \in Workers PROVE WorkerSound(v)'
  <2>1. CASE v = w
    <3>1. \A u \in Workers : worker'[u].job = j => u = w
      BY <1>6, <1>8
    <3>2. jobs'[j].data = jobs[j].data /\ jobs'[j].state = "active"
      BY <1>3
    <3>3. QED
      BY <1>5, <1>6, <1>7, <2>1, <3>1, <3>2 DEF WorkerSound, JobOf
  <2>2. CASE v # w /\ worker[v] = Resting
    BY <1>6, <2>2 DEF WorkerSound, Resting
  <2>3. CASE v # w /\ worker[v] # Resting
    <3>1. WorkerSound(v) /\ worker[v].job \in JobId
      BY <2>3, HeldJob DEF IInv, JobsOwned
    <3>2. jobs'[worker[v].job] = jobs[worker[v].job]
      BY <1>4, <1>8, <3>1
    <3>3. \A u \in Workers : worker'[u].job = worker[v].job => u = v
      <4>1. \A u \in Workers : worker[u].job = worker[v].job => u = v
        BY <2>3, <3>1 DEF WorkerSound
      <4>2. worker'[w].job # worker[v].job
        BY <1>5, <1>6, <1>8
      <4>3. QED
        BY <1>6, <4>1, <4>2
    <3>4. QED
      BY <1>6, <1>7, <2>3, <3>1, <3>2, <3>3 DEF WorkerSound, JobOf
  <2>4. QED
    BY <2>1, <2>2, <2>3
<1>10. UNCHANGED <<deal, records, request, direct, faults>>
  BY DEF Take
<1>11. JobsKept
  BY <1>3, <1>4 DEF JobsKept
<1>12. QED
  BY <1>3, <1>4, <1>6, <1>9, <1>10, <1>11 DEF IInv, TypeOK, JobsOwned, QueueOK

LEMMA ThrowStep ==
    ASSUME IInv, NEW w \in Workers, worker[w].step # "idle",
           Throw(w) \/ (CompleteJob(worker[w].job) /\ worker' = [worker EXCEPT ![w] = Resting])
    PROVE  /\ QueueTypeOK' /\ JobsOwned'
           /\ worker' \in [Workers -> WorkerState \cup {Resting}]
           /\ JobsKept
<1>1. QueueOK
  BY DEF IInv, TypeOK, JobsOwned, QueueOK
<1>2. /\ worker[w].job \in JobId
      /\ jobs[worker[w].job].state = "active"
  BY BusyWorker
<1>3. /\ CompleteJob(worker[w].job) \/ FailAttempt(worker[w].job)
      /\ worker' = [worker EXCEPT ![w] = Resting]
  BY DEF Throw
<1>4. /\ QueueOK'
      /\ jobs'[worker[w].job].state \in {"completed", "delayed", "failed"}
      /\ jobs'[worker[w].job].data = jobs[worker[w].job].data
      /\ \A i \in JobId : i # worker[w].job => jobs'[i] = jobs[i]
      /\ added' = added
  BY <1>1, <1>2, <1>3, FinishJobOK
<1>5. /\ JobsOwned'
      /\ worker' \in [Workers -> WorkerState \cup {Resting}]
  BY <1>3, <1>4, WorkerRests DEF QueueOK
<1>6. JobsKept
  BY <1>4 DEF JobsKept
<1>7. QED
  BY <1>4, <1>5, <1>6 DEF QueueOK

LEMMA HandlerKeeps ==
    ASSUME IInv, NEW w \in Workers, HandlerStep(w) PROVE IInv' /\ JobsKept
<1>1. CASE Take(w)
  BY <1>1, TakeStep
<1>2. CASE CheckNoRecord(w)
  <2>1. worker[w].step # "idle" /\ worker[w].step \in NewRequestSteps
    BY <1>2 DEF CheckNoRecord, NewRequestSteps
  <2>2. JobOf(w).name = "NEW_FUNDING_REQUEST"
    BY <2>1, BusyWorker DEF IInv, JobsOwned, WorkerSound
  <2>3. /\ QueueTypeOK' /\ JobsOwned' /\ JobsKept
        /\ worker' \in [Workers -> WorkerState \cup {Resting}]
    <3>1. CASE Throw(w)
      BY <2>1, <3>1, ThrowStep
    <3>2. CASE Proceed(w, "create_checklist")
      BY <2>1, <2>2, <3>2, WorkerProceeds DEF Proceed, queueVars, JobsKept
    <3>3. QED
      BY <1>2, <3>1, <3>2 DEF CheckNoRecord
  <2>4. QED
    BY <1>2, <2>3 DEF IInv, TypeOK, CheckNoRecord
<1>3. CASE CreateChecklist(w)
  <2>1. worker[w].step # "idle" /\ worker[w].step \in NewRequestSteps
    BY <1>3 DEF CreateChecklist, NewRequestSteps
  <2>2. JobOf(w).name = "NEW_FUNDING_REQUEST"
    BY <2>1, BusyWorker DEF IInv, JobsOwned, WorkerSound
  <2>3. Proceed(w, "create_record")
    BY <1>3 DEF CreateChecklist
  <2>4. /\ QueueTypeOK' /\ JobsOwned' /\ JobsKept
        /\ worker' \in [Workers -> WorkerState \cup {Resting}]
    BY <2>1, <2>2, <2>3, WorkerProceeds DEF Proceed, queueVars, JobsKept
  <2>5. QED
    BY <1>3, <2>4 DEF IInv, TypeOK, CreateChecklist
<1>4. CASE CreateRecord(w) \/ DeleteRecord(w)
  <2>1. worker[w].step # "idle" /\ Proceed(w, "log")
    BY <1>4 DEF CreateRecord, DeleteRecord
  <2>2. /\ QueueTypeOK' /\ JobsOwned' /\ JobsKept
        /\ worker' \in [Workers -> WorkerState \cup {Resting}]
    BY <2>1, WorkerProceeds DEF Proceed, queueVars, JobsKept
  <2>3. DealOf(w) \in Deals
    BY <2>1, BusyWorker
  <2>4. /\ Append(records[DealOf(w)], "PENDING") \in Seq(Decision)
        /\ records[DealOf(w)] # <<>> => Tail(records[DealOf(w)]) \in Seq(Decision)
    BY <2>3, AppendProperties, HeadTailProperties, EmptySeq
       DEF IInv, TypeOK, Decision
  <2>5. RecordsOK
    BY <1>4, <2>3, <2>4 DEF IInv, TypeOK, CreateRecord, DeleteRecord, RecordsOK
  <2>6. UNCHANGED <<deal, request, direct, faults>>
    BY <1>4 DEF CreateRecord, DeleteRecord
  <2>7. QED
    BY <2>2, <2>5, <2>6 DEF IInv, TypeOK, RecordsOK
<1>5. CASE LogAndReturn(w)
  <2>1. /\ QueueTypeOK' /\ JobsOwned' /\ JobsKept
        /\ worker' \in [Workers -> WorkerState \cup {Resting}]
    BY <1>5, ThrowStep DEF LogAndReturn
  <2>2. QED
    BY <1>5, <2>1 DEF IInv, TypeOK, LogAndReturn
<1>6. QED
  BY <1>1, <1>2, <1>3, <1>4, <1>5 DEF HandlerStep

LEMMA FaultStep ==
    ASSUME IInv, NEW w \in Workers, OperationFails(w) \/ WorkerDies(w)
    PROVE  IInv' /\ JobsKept
<1>1. worker[w].step # "idle"
  BY DEF OperationFails, WorkerDies
<1>2. /\ QueueTypeOK' /\ JobsOwned' /\ JobsKept
      /\ worker' \in [Workers -> WorkerState \cup {Resting}]
  <2>1. CASE OperationFails(w)
    BY <1>1, <2>1, ThrowStep DEF OperationFails
  <2>2. CASE WorkerDies(w)
    <3>1. QueueOK' /\ jobs' = jobs /\ added' = added
      BY <2>2, QueueUnchanged
         DEF WorkerDies, queueVars, IInv, TypeOK, JobsOwned, QueueOK
    <3>2. JobsOwned' /\ worker' \in [Workers -> WorkerState \cup {Resting}]
      BY <1>1, <2>2, <3>1, WorkerRests DEF WorkerDies, QueueOK
    <3>3. QED
      BY <3>1, <3>2 DEF QueueOK, JobsKept
  <2>3. QED
    BY <2>1, <2>2
<1>3. faults' \in 0..MaxFaults /\ UNCHANGED <<deal, records, request, direct>>
  BY FundingAssumption DEF IInv, TypeOK, OperationFails, WorkerDies
<1>4. QED
  BY <1>2, <1>3 DEF IInv, TypeOK

LEMMA ReturnStep ==
    ASSUME IInv, NEW j \in JobId, Retry(j) \/ Recover(j)
    PROVE  IInv' /\ JobsKept
<1>1. QueueOK
  BY DEF IInv, TypeOK, JobsOwned, QueueOK
<1>2. /\ QueueOK' /\ added' = added
      /\ jobs'[j].data = jobs[j].data /\ jobs'[j].state # "none"
      /\ \A i \in JobId : i # j => jobs'[i] = jobs[i]
  BY <1>1, PromoteOK, RecoverOK DEF Retry, Recover
<1>3. \A v \in Workers : worker[v] # Resting => worker[v].job # j
  BY <1>1, PromoteOK, HeldJob DEF Retry, Recover
<1>4. JobsHeld
  BY <1>2, <1>3, HeldJob DEF JobsHeld
<1>5. UNCHANGED <<deal, records, request, worker, direct, faults>>
  BY DEF Retry, Recover
<1>6. JobsOwned'
  BY <1>2, <1>4, <1>5, WorkersStay DEF QueueOK
<1>7. JobsKept
  BY <1>2 DEF JobsKept
<1>8. QED
  BY <1>2, <1>5, <1>6, <1>7 DEF IInv, TypeOK, QueueOK

-----------------------------------------------------------------------------
LEMMA EmptyOK == Init => IInv
<1> SUFFICES ASSUME Init PROVE IInv
  OBVIOUS
<1>1. QueueOK
  BY QueueInitOK DEF Init
<1>2. deal \in [Deals -> DealState]
  BY DEF Init, DealState, DealStatus
<1>3. records \in [Deals -> Seq(Decision)]
  BY EmptySeq DEF Init
<1>4. \A w \in Workers : WorkerSound(w)
  BY DEF Init, WorkerSound
<1>5. QED
  BY <1>1, <1>2, <1>3, <1>4, FundingAssumption
     DEF Init, IInv, TypeOK, JobsOwned, QueueOK

LEMMA StepOK == IInv /\ [Next]_vars => IInv'
<1> SUFFICES ASSUME IInv, [Next]_vars PROVE IInv'
  OBVIOUS
<1>1. ASSUME NEW r \in Requests, ApiStep(r) PROVE IInv'
  BY <1>1, WriteStep, AddStep DEF ApiStep
<1>2. CASE UNCHANGED vars
  <2>1. QueueTypeOK' /\ JobsOwned'
    BY <1>2, NothingMoves DEF vars, queueVars
  <2>2. QED
    BY <1>2, <2>1 DEF vars, IInv, TypeOK
<1>3. QED
  BY <1>1, <1>2, CustomerStep, FailStep, HandlerKeeps, FaultStep, ReturnStep,
     DealDeskStep DEF Next

(* Every state of the queue, the deals, the records and the handlers has   *)
(* the type the code gives it, for any number of jobs, workers and faults. *)
THEOREM TypeCorrect == Spec => []TypeOK
<1>1. IInv => TypeOK
  BY DEF IInv
<1>2. QED
  BY EmptyOK, StepOK, <1>1, PTL DEF Spec

(* The queue holds no job twice and loses none, and no two workers run one *)
(* job, whatever is retried, promoted or recovered after a crash.          *)
THEOREM JobsAreOwned == Spec => []JobsOwned
<1>1. IInv => JobsOwned
  BY DEF IInv
<1>2. QED
  BY EmptyOK, StepOK, <1>1, PTL DEF Spec
-----------------------------------------------------------------------------
(* How many records the deals get, for all numbers of requests, workers,   *)
(* attempts and faults.                                                    *)
(* Every step keeps the jobs. *)
LEMMA StepKeepsJobs ==
    ASSUME IInv, [Next]_vars PROVE JobsKept
<1>1. CASE UNCHANGED queueVars
  BY <1>1 DEF queueVars, JobsKept
<1>2. ASSUME NEW r \in Requests, ApiStep(r) \/ RequestFails(r) PROVE JobsKept
  <2>1. CASE AddNewJob(r) \/ AddWithdrawJob(r)
    BY <2>1, AddStep
  <2>2. CASE SetRequested(r) \/ SetInProgress(r) \/ RequestFails(r)
    BY <1>1, <2>2 DEF SetRequested, SetInProgress, RequestFails, WriteStatus
  <2>3. QED
    BY <1>2, <2>1, <2>2 DEF ApiStep
<1>3. CASE Customer
  BY <1>1, <1>3 DEF Customer, CreateDeal, UpdateDeal, DeleteDeal, BeginRequest,
                    BeginWithdraw, Begin
<1>4. CASE DealDesk
  BY <1>1, <1>4 DEF DealDesk, PostRecord, Decide
<1>5. CASE UNCHANGED vars
  BY <1>1, <1>5 DEF vars, queueVars
<1>6. QED
  BY <1>2, <1>3, <1>4, <1>5, HandlerKeeps, FaultStep, ReturnStep DEF Next

(* A worker that is about to insert a record, and for which deal. *)
LEMMA Creator ==
    ASSUME IInv, NEW d, NEW w \in Creating(d)
    PROVE  /\ w \in Workers /\ worker[w] # Resting
           /\ worker[w].job \in NewJobs(d)
           /\ \A v \in Workers : worker[v].job = worker[w].job => v = w
<1>1. w \in Workers /\ worker[w].step \in CreateSteps /\ DealOf(w) = d
  BY DEF Creating
<1>2. worker[w].step # "idle" /\ worker[w].step \in NewRequestSteps
  BY <1>1 DEF CreateSteps, NewRequestSteps
<1>3. /\ worker[w] # Resting /\ worker[w].job \in JobId
      /\ jobs[worker[w].job] \in Job
      /\ jobs[worker[w].job].state = "active"
      /\ \A v \in Workers : worker[v].job = worker[w].job => v = w
  BY <1>1, <1>2, BusyWorker
<1>4. JobOf(w).name = "NEW_FUNDING_REQUEST"
  BY <1>1, <1>2, <1>3 DEF IInv, JobsOwned, WorkerSound
<1>5. jobs[worker[w].job].data \in Payload
  BY <1>3 DEF Job
<1>6. jobs[worker[w].job].data = [name |-> "NEW_FUNDING_REQUEST", deal |-> d]
  BY <1>1, <1>4, <1>5, FundingAssumption DEF JobOf, DealOf
<1>7. QED
  BY <1>1, <1>3, <1>6 DEF NewJobs

LEMMA Finite ==
    ASSUME NEW d
    PROVE  /\ IsFiniteSet(Creating(d)) /\ Cardinality(Creating(d)) \in Nat
           /\ Cardinality(Creating(d)) <= Cardinality(Workers)
           /\ Cardinality(Workers) \in Nat
           /\ IsFiniteSet(NewJobs(d)) /\ Cardinality(NewJobs(d)) \in Nat
<1>1. Creating(d) \subseteq Workers /\ IsFiniteSet(Workers)
  BY FundingAssumption DEF Creating
<1>2. NewJobs(d) \subseteq JobId
  BY DEF NewJobs
<1>3. IsFiniteSet(JobId)
  BY FS_Interval, QueueAssumption DEF JobId
<1>4. QED
  BY <1>1, <1>2, <1>3, FS_Subset, FS_CardinalityType

(* Different creators of a deal's records work on different jobs. *)
CreatorsBounded ==
    \A d \in Deals : Cardinality(Creating(d)) <= Cardinality(NewJobs(d))

LEMMA CreatorsHaveJobs == IInv => CreatorsBounded
<1> SUFFICES ASSUME IInv, NEW d \in Deals
             PROVE  Cardinality(Creating(d)) <= Cardinality(NewJobs(d))
  BY DEF CreatorsBounded
<1> DEFINE f == [w \in Creating(d) |-> worker[w].job]
<1>1. f \in Injection(Creating(d), NewJobs(d))
  BY Creator DEF Injection, IsInjective
<1>2. QED
  BY <1>1, Finite, FS_Injection

-----------------------------------------------------------------------------
(* The records of a deal and those about to be inserted. *)
Total(d) == Len(records[d]) + Cardinality(Creating(d))

(* What a step does to it: nothing but the look that finds no record and   *)
(* the direct insert lets it grow.                                         *)
Grows(d) ==
    \/ Len(records'[d]) = 0
    \/ Total(d)' <= Total(d) + (direct'[d] - direct[d])

(* A worker does not become a creator by going on to its next step. *)
LEMMA NoNewCreator ==
    ASSUME IInv, JobsKept, NEW d \in Deals,
           \A v \in Workers :
              worker'[v].step \in CreateSteps =>
                 worker[v].step \in CreateSteps /\ worker'[v].job = worker[v].job
    PROVE  /\ Creating(d)' \subseteq Creating(d)
           /\ Cardinality(Creating(d))' <= Cardinality(Creating(d))
           /\ Cardinality(Creating(d))' \in Nat
<1>1. Creating(d)' \subseteq Creating(d)
  <2> SUFFICES ASSUME NEW v \in Creating(d)' PROVE v \in Creating(d)
    OBVIOUS
  <2>1. /\ v \in Workers /\ worker'[v].step \in CreateSteps
        /\ jobs'[worker'[v].job].data.deal = d
    BY DEF Creating, DealOf, JobOf
  <2>2. worker[v].step \in CreateSteps /\ worker'[v].job = worker[v].job
    BY <2>1
  <2>3. worker[v].step # "idle"
    BY <2>2 DEF CreateSteps
  <2>4. /\ worker[v].job \in JobId
        /\ jobs[worker[v].job].state = "active"
    BY <2>1, <2>3, BusyWorker
  <2>5. jobs'[worker[v].job].data = jobs[worker[v].job].data
    BY <2>4 DEF JobsKept
  <2>6. QED
    BY <2>1, <2>2, <2>5 DEF Creating, DealOf, JobOf
<1>2. IsFiniteSet(Creating(d)) /\ Cardinality(Creating(d)) \in Nat
  BY Finite
<1>3. QED
  BY <1>1, <1>2, FS_Subset, FS_CardinalityType

(* A step that inserts no record and makes no worker a creator. *)
LEMMA NoGrowth ==
    ASSUME IInv, JobsKept, NEW d \in Deals,
           \A v \in Workers :
              worker'[v].step \in CreateSteps =>
                 worker[v].step \in CreateSteps /\ worker'[v].job = worker[v].job,
           Len(records'[d]) \in Nat,
           Len(records'[d]) <= Len(records[d]), direct'[d] = direct[d]
    PROVE  Grows(d)
<1>1. /\ Cardinality(Creating(d))' <= Cardinality(Creating(d))
      /\ Cardinality(Creating(d))' \in Nat
  BY NoNewCreator
<1>2. /\ Cardinality(Creating(d)) \in Nat /\ Len(records[d]) \in Nat
      /\ direct[d] \in Nat
  BY Finite, LenProperties, FundingAssumption DEF IInv, TypeOK
<1> DEFINE c == Cardinality(Creating(d))
           e == Cardinality(Creating(d))'
<1> HIDE DEF c, e
<1>3. e <= c /\ e \in Nat /\ c \in Nat
  BY <1>1, <1>2 DEF c, e
<1>4. Len(records'[d]) + e <= Len(records[d]) + c + (direct'[d] - direct[d])
  BY <1>2, <1>3
<1>5. QED
  BY <1>4 DEF Grows, Total, c, e

(* What a step of a handler does to the worker that takes it. *)
LEMMA ProceedMoves ==
    ASSUME IInv, NEW w \in Workers, worker[w].step # "idle",
           NEW to, Proceed(w, to)
    PROVE  /\ \A v \in Workers : v # w => worker'[v] = worker[v]
           /\ worker'[w].step = to /\ worker'[w].job = worker[w].job
<1>1. worker[w] \in WorkerState
  BY BusyWorker
<1>2. worker' = [worker EXCEPT ![w].step = to]
  BY DEF Proceed
<1>3. worker \in [Workers -> WorkerState \cup {Resting}]
  BY DEF IInv, TypeOK
<1>4. QED
  BY <1>1, <1>2, <1>3 DEF WorkerState

LEMMA RestMoves ==
    ASSUME IInv, NEW w \in Workers, worker' = [worker EXCEPT ![w] = Resting]
    PROVE  \A v \in Workers :
              worker'[v].step \in CreateSteps => worker'[v] = worker[v]
<1>1. \A v \in Workers : v # w => worker'[v] = worker[v]
  BY DEF IInv, TypeOK
<1>2. worker'[w].step \notin CreateSteps
  BY DEF IInv, TypeOK, Resting, CreateSteps
<1>3. QED
  BY <1>1, <1>2

(* The steps of a worker that insert nothing and do not end a look. *)
LEMMA IdleGrowth ==
    ASSUME IInv, JobsKept, NEW d \in Deals, NEW w \in Workers,
           \/ Take(w) \/ LogAndReturn(w) \/ CreateChecklist(w) \/ DeleteRecord(w)
           \/ OperationFails(w) \/ WorkerDies(w)
           \/ CheckNoRecord(w) /\ Throw(w)
    PROVE  Grows(d)
<1>1. records[d] \in Seq(Decision) /\ records \in [Deals -> Seq(Decision)]
  BY DEF IInv, TypeOK
<1>2. /\ Len(records'[d]) \in Nat
      /\ Len(records'[d]) <= Len(records[d])
  <2>1. CASE DeleteRecord(w)
    <3>1. \/ records'[d] = records[d]
          \/ records[d] # <<>> /\ records'[d] = Tail(records[d])
      BY <1>1, <2>1 DEF DeleteRecord
    <3>2. QED
      BY <1>1, <3>1, HeadTailProperties, LenProperties
  <2>2. CASE ~DeleteRecord(w)
    <3>1. records' = records
      BY <2>2 DEF Take, LogAndReturn, CreateChecklist, OperationFails, WorkerDies,
                  CheckNoRecord
    <3>2. QED
      BY <1>1, <3>1, LenProperties
  <2>3. QED
    BY <2>1, <2>2
<1>3. direct'[d] = direct[d]
  BY DEF Take, LogAndReturn, CreateChecklist, OperationFails, WorkerDies,
         CheckNoRecord, DeleteRecord
<1>4. \A v \in Workers :
         worker'[v].step \in CreateSteps =>
            worker[v].step \in CreateSteps /\ worker'[v].job = worker[v].job
  <2>1. CASE Take(w)
    <3>1. PICK j \in JobId :
             worker' = [worker EXCEPT ![w] =
               [job |-> j,
                step |-> IF jobs[j].data.name = "NEW_FUNDING_REQUEST"
                         THEN "check" ELSE "delete_record"]]
      BY <2>1 DEF Take
    <3>2. \A v \in Workers : v # w => worker'[v] = worker[v]
      BY <3>1 DEF IInv, TypeOK
    <3>3. worker'[w].step \notin CreateSteps
      BY <3>1 DEF IInv, TypeOK, CreateSteps
    <3>4. QED
      BY <3>2, <3>3
  <2>2. CASE CreateChecklist(w)
    <3>1. /\ Proceed(w, "create_record")
          /\ worker[w].step \in CreateSteps /\ worker[w].step # "idle"
      BY <2>2 DEF CreateChecklist, CreateSteps
    <3>2. QED
      BY <3>1, ProceedMoves
  <2>3. CASE DeleteRecord(w)
    <3>1. /\ Proceed(w, "log") /\ "log" \notin CreateSteps
          /\ worker[w].step # "idle"
      BY <2>3 DEF DeleteRecord, CreateSteps
    <3>2. QED
      BY <3>1, ProceedMoves
  <2>4. CASE ~(Take(w) \/ CreateChecklist(w) \/ DeleteRecord(w))
    <3>1. worker' = [worker EXCEPT ![w] = Resting]
      BY <2>4 DEF LogAndReturn, OperationFails, WorkerDies, Throw
    <3>2. QED
      BY <3>1, RestMoves
  <2>5. QED
    BY <2>1, <2>2, <2>3, <2>4
<1>5. QED
  BY <1>2, <1>3, <1>4, NoGrowth

(* The look. *)
LEMMA LookGrowth ==
    ASSUME IInv, JobsKept, NEW d \in Deals, NEW w \in Workers,
           CheckNoRecord(w), ~Throw(w)
    PROVE  Grows(d)
<1>1. /\ records[DealOf(w)] = <<>> /\ Proceed(w, "create_checklist")
      /\ worker[w].step # "idle"
      /\ records' = records /\ direct' = direct /\ jobs' = jobs
  BY DEF CheckNoRecord, Proceed, queueVars
<1>2. CASE d = DealOf(w)
  BY <1>1, <1>2, EmptySeq DEF Grows
<1>3. CASE d # DealOf(w)
  <2>1. /\ \A v \in Workers : v # w => worker'[v] = worker[v]
        /\ worker'[w].job = worker[w].job
    BY <1>1, ProceedMoves
  <2>2. Creating(d)' \subseteq Creating(d)
    BY <1>1, <1>3, <2>1 DEF Creating, DealOf, JobOf
  <2>3. /\ Cardinality(Creating(d))' <= Cardinality(Creating(d))
        /\ Cardinality(Creating(d))' \in Nat
    BY <2>2, Finite, FS_Subset, FS_CardinalityType
  <2> DEFINE c == Cardinality(Creating(d))
             e == Cardinality(Creating(d))'
  <2>4. c \in Nat /\ Len(records[d]) \in Nat /\ direct[d] \in Nat
    BY Finite, LenProperties, FundingAssumption DEF IInv, TypeOK
  <2>5. e <= c /\ e \in Nat
    BY <2>3
  <2> HIDE DEF c, e
  <2>6. Len(records'[d]) = Len(records[d]) /\ direct'[d] = direct[d]
    BY <1>1
  <2>7. Len(records'[d]) + e <= Len(records[d]) + c + (direct'[d] - direct[d])
    BY <2>4, <2>5, <2>6
  <2>8. QED
    BY <2>7 DEF Grows, Total, c, e
<1>4. QED
  BY <1>2, <1>3

(* The insert: its worker is no longer a creator. *)
LEMMA InsertGrowth ==
    ASSUME IInv, JobsKept, NEW d \in Deals, NEW w \in Workers, CreateRecord(w)
    PROVE  Grows(d)
<1>1. /\ records' = [records EXCEPT ![DealOf(w)] = Append(@, "PENDING")]
      /\ Proceed(w, "log") /\ direct' = direct /\ jobs' = jobs
      /\ worker[w].step = "create_record"
  BY DEF CreateRecord, Proceed, queueVars
<1>2. worker[w].step \in CreateSteps /\ "log" \notin CreateSteps
  BY <1>1 DEF CreateSteps
<1>3. /\ \A v \in Workers : v # w => worker'[v] = worker[v]
      /\ worker'[w].step \notin CreateSteps
  BY <1>1, <1>2, ProceedMoves
<1>4. /\ Creating(d)' \subseteq Creating(d) \ {w}
      /\ d = DealOf(w) => w \in Creating(d)
  BY <1>1, <1>2, <1>3 DEF Creating, DealOf, JobOf
<1>5. records \in [Deals -> Seq(Decision)]
  BY DEF IInv, TypeOK
<1> DEFINE c == Cardinality(Creating(d))
           e == Cardinality(Creating(d))'
<1>6. IsFiniteSet(Creating(d)) /\ c \in Nat
  BY Finite
<1>7. /\ Len(records[d]) \in Nat /\ direct[d] \in Nat /\ direct'[d] = direct[d]
  <2>1. Len(records[d]) \in Nat /\ direct[d] \in Nat
    BY LenProperties, FundingAssumption DEF IInv, TypeOK
  <2>2. QED
    BY <1>1, <2>1
<1>8. CASE d = DealOf(w)
  <2>1. /\ IsFiniteSet(Creating(d) \ {w})
        /\ Cardinality(Creating(d) \ {w}) = c - 1
    BY <1>4, <1>6, <1>8, FS_RemoveElement
  <2>2. e <= c - 1 /\ e \in Nat
    BY <1>4, <2>1, FS_Subset, FS_CardinalityType
  <2>3. records'[d] = Append(records[d], "PENDING")
    BY <1>1, <1>5, <1>8
  <2>4. Len(records'[d]) = Len(records[d]) + 1
    BY <1>5, <2>3, AppendProperties DEF Decision
  <2> HIDE DEF c, e
  <2>5. Len(records'[d]) + e <= Len(records[d]) + c + (direct'[d] - direct[d])
    BY <1>6, <1>7, <2>2, <2>4
  <2>6. QED
    BY <2>5 DEF Grows, Total, c, e
<1>9. CASE d # DealOf(w)
  <2>1. records'[d] = records[d]
    BY <1>1, <1>5, <1>9
  <2>2. Creating(d)' \subseteq Creating(d)
    BY <1>4
  <2>3. e <= c /\ e \in Nat
    BY <1>6, <2>2, FS_Subset, FS_CardinalityType
  <2> HIDE DEF c, e
  <2>4. Len(records'[d]) + e <= Len(records[d]) + c + (direct'[d] - direct[d])
    BY <1>6, <1>7, <2>1, <2>3
  <2>5. QED
    BY <2>4 DEF Grows, Total, c, e
<1>10. QED
  BY <1>8, <1>9

(* No step lets the records of a deal grow but for a direct insert, and    *)
(* for a look that finds none.                                             *)
LEMMA StepGrowth ==
    ASSUME IInv, [Next]_vars, NEW d \in Deals
    PROVE  /\ Grows(d)
           /\ direct[d] \in Nat /\ direct'[d] \in Nat /\ direct[d] <= direct'[d]
<1>1. JobsKept
  BY StepKeepsJobs
<1>2. direct \in [Deals -> Nat] /\ direct[d] \in Nat
  BY FundingAssumption DEF IInv, TypeOK
<1>3. records \in [Deals -> Seq(Decision)] /\ Len(records[d]) \in Nat
  BY LenProperties DEF IInv, TypeOK
<1>4. ASSUME UNCHANGED <<records, worker, direct>>
      PROVE  Grows(d) /\ direct' = direct
  <2>1. Len(records'[d]) = Len(records[d]) /\ direct'[d] = direct[d]
    BY <1>4
  <2>2. \A v \in Workers : worker'[v] = worker[v]
    BY <1>4
  <2>3. Grows(d)
    BY <1>1, <1>3, <2>1, <2>2, NoGrowth
  <2>4. QED
    BY <1>4, <2>3
<1>5. CASE Customer
  <2>1. UNCHANGED <<records, worker, direct>>
    BY <1>5 DEF Customer, CreateDeal, UpdateDeal, DeleteDeal, BeginRequest,
                BeginWithdraw, Begin
  <2>2. QED
    BY <1>2, <1>4, <2>1
<1>6. ASSUME NEW r \in Requests, ApiStep(r) \/ RequestFails(r)
      PROVE  UNCHANGED <<records, worker, direct>>
  BY <1>6 DEF ApiStep, SetRequested, AddNewJob, AddWithdrawJob, SetInProgress,
              WriteStatus, AddJob, RequestFails
<1>7. ASSUME NEW w \in Workers,
             HandlerStep(w) \/ OperationFails(w) \/ WorkerDies(w)
      PROVE  Grows(d) /\ direct' = direct
  <2>1. direct' = direct
    BY <1>7 DEF HandlerStep, Take, CheckNoRecord, CreateChecklist, CreateRecord,
                DeleteRecord, LogAndReturn, OperationFails, WorkerDies
  <2>2. Grows(d)
    BY <1>1, <1>7, IdleGrowth, LookGrowth, InsertGrowth DEF HandlerStep
  <2>3. QED
    BY <2>1, <2>2
<1>8. ASSUME NEW j \in JobId, Retry(j) \/ Recover(j)
      PROVE  UNCHANGED <<records, worker, direct>>
  BY <1>8 DEF Retry, Recover
<1>9. CASE DealDesk
  <2>1. worker' = worker
    BY <1>9 DEF DealDesk, PostRecord, Decide
  <2>2. ASSUME NEW e \in Deals, NEW i \in DOMAIN records[e],
               NEW decision \in Decision, Decide(e, i, decision)
        PROVE  Grows(d) /\ direct' = direct
    <3>1. records' = [records EXCEPT ![e][i] = decision] /\ direct' = direct
      BY <2>2 DEF Decide
    <3>2. Len([records[e] EXCEPT ![i] = decision]) = Len(records[e])
      BY <1>3, ExceptSeq
    <3>3. Len(records'[d]) = Len(records[d])
      BY <1>3, <3>1, <3>2
    <3>4. QED
      BY <1>1, <1>3, <2>1, <3>1, <3>3, NoGrowth
  <2>3. ASSUME NEW e \in Deals, PostRecord(e)
        PROVE  Grows(d) /\ direct'[d] \in Nat /\ direct[d] <= direct'[d]
    <3>1. /\ records' = [records EXCEPT ![e] = Append(@, "PENDING")]
          /\ direct' = [direct EXCEPT ![e] = @ + 1]
      BY <2>3 DEF PostRecord
    <3>2. CASE e = d
      <4>1. records'[d] = Append(records[d], "PENDING")
        BY <1>3, <3>1, <3>2
      <4>2. Len(records'[d]) = Len(records[d]) + 1
        BY <1>3, <4>1, AppendProperties DEF Decision
      <4>3. direct'[d] = direct[d] + 1
        BY <1>2, <3>1, <3>2
      <4>4. /\ Cardinality(Creating(d))' <= Cardinality(Creating(d))
            /\ Cardinality(Creating(d))' \in Nat
        BY <1>1, <2>1, NoNewCreator
      <4>5. Cardinality(Creating(d)) \in Nat
        BY Finite
      <4> DEFINE c == Cardinality(Creating(d))
                 f == Cardinality(Creating(d))'
      <4> HIDE DEF c, f
      <4>6. f <= c /\ f \in Nat /\ c \in Nat
        BY <4>4, <4>5 DEF c, f
      <4>7. Len(records'[d]) + f <= Len(records[d]) + c + (direct'[d] - direct[d])
        BY <1>2, <1>3, <4>2, <4>3, <4>6
      <4>8. QED
        BY <1>2, <4>3, <4>7 DEF Grows, Total, c, f
    <3>3. CASE e # d
      <4>1. records'[d] = records[d] /\ direct'[d] = direct[d]
        BY <1>2, <1>3, <3>1, <3>3
      <4>2. QED
        BY <1>1, <1>2, <1>3, <2>1, <4>1, NoGrowth
    <3>4. QED
      BY <3>2, <3>3
  <2>4. QED
    BY <1>2, <1>9, <2>2, <2>3 DEF DealDesk
<1>10. CASE UNCHANGED vars
  BY <1>4, <1>2, <1>10 DEF vars
<1>11. QED
  BY <1>2, <1>4, <1>5, <1>6, <1>7, <1>8, <1>9, <1>10 DEF Next

-----------------------------------------------------------------------------
(* However many retries, crashes and stalls there are, a deal has no more  *)
(* records than funding requests were made for it and records posted for   *)
(* it by the deal desk: no job makes two records that stay.                *)
THEOREM BoundedByRequests == Spec => []RecordsBoundedByRequests
<1>1. Init => RecordsBoundedByRequests
  <2> SUFFICES ASSUME Init, NEW d \in Deals
               PROVE  Len(records[d]) + Cardinality(Creating(d))
                        <= Cardinality(NewJobs(d)) + direct[d]
    BY DEF RecordsBoundedByRequests
  <2>1. Creating(d) = {} /\ Len(records[d]) = 0 /\ direct[d] = 0
    BY DEF Init, Creating, CreateSteps, Resting
  <2>2. Cardinality(Creating(d)) = 0 /\ Cardinality(NewJobs(d)) \in Nat
    BY <2>1, Finite, FS_EmptySet
  <2>3. QED
    BY <2>1, <2>2
<1>2. IInv' => CreatorsBounded'
  BY CreatorsHaveJobs, PTL
<1>3. IInv /\ IInv' /\ RecordsBoundedByRequests /\ [Next]_vars
        => RecordsBoundedByRequests'
  <2> SUFFICES ASSUME IInv, IInv', RecordsBoundedByRequests, [Next]_vars,
                      NEW d \in Deals
               PROVE  Len(records'[d]) + Cardinality(Creating(d))'
                        <= Cardinality(NewJobs(d))' + direct'[d]
    BY DEF RecordsBoundedByRequests
  <2> DEFINE c == Cardinality(Creating(d))
             e == Cardinality(Creating(d))'
             n == Cardinality(NewJobs(d))
             m == Cardinality(NewJobs(d))'
             a == Len(records[d])
             b == Len(records'[d])
             x == direct[d]
             y == direct'[d]
  <2>1. /\ Grows(d)
        /\ direct[d] \in Nat /\ direct'[d] \in Nat /\ direct[d] <= direct'[d]
    BY StepGrowth
  <2>2. NewJobs(d) \subseteq NewJobs(d)'
    BY StepKeepsJobs DEF JobsKept, NewJobs
  <2>3. /\ IsFiniteSet(Creating(d)') /\ IsFiniteSet(NewJobs(d)')
    <3>1. Creating(d)' \subseteq Workers /\ NewJobs(d)' \subseteq JobId
      BY DEF Creating, NewJobs
    <3>2. QED
      BY <3>1, FundingAssumption, QueueAssumption, FS_Interval, FS_Subset DEF JobId
  <2>4. e \in Nat /\ m \in Nat /\ c \in Nat /\ n \in Nat /\ n <= m
    BY <2>2, <2>3, Finite, FS_Subset, FS_CardinalityType
  <2>5. /\ Len(records[d]) + c <= n + direct[d]
        /\ e <= m
    BY <1>2 DEF RecordsBoundedByRequests, CreatorsBounded
  <2>6. Len(records[d]) \in Nat /\ Len(records'[d]) \in Nat
    BY LenProperties DEF IInv, TypeOK
  <2>7. \/ Len(records'[d]) = 0
        \/ Len(records'[d]) + e <= Len(records[d]) + c + (direct'[d] - direct[d])
    BY <2>1 DEF Grows, Total
  <2>8. /\ a \in Nat /\ b \in Nat /\ x \in Nat /\ y \in Nat
        /\ a + c <= n + x /\ e <= m
        /\ b = 0 \/ b + e <= a + c + (y - x)
    BY <2>1, <2>5, <2>6, <2>7
  <2> HIDE DEF c, e, n, m, a, b, x, y
  <2>9. b + e <= m + y
    BY <2>4, <2>8
  <2>10. QED
    BY <2>9 DEF e, m, b, y
<1>4. QED
  BY EmptyOK, StepOK, <1>1, <1>3, PTL DEF Spec

(* However many requests and workers there are, a deal has at most one     *)
(* record per worker process besides those the deal desk posted.           *)
THEOREM BoundedByWorkers == Spec => []RecordsBoundedByWorkers
<1>1. Init => RecordsBoundedByWorkers
  <2> SUFFICES ASSUME Init, NEW d \in Deals
               PROVE  Len(records[d]) + Cardinality(Creating(d))
                        <= Cardinality(Workers) + direct[d]
    BY DEF RecordsBoundedByWorkers
  <2>1. Creating(d) = {} /\ Len(records[d]) = 0 /\ direct[d] = 0
    BY DEF Init, Creating, CreateSteps, Resting
  <2>2. Cardinality(Creating(d)) = 0 /\ Cardinality(Workers) \in Nat
    BY <2>1, Finite, FS_EmptySet
  <2>3. QED
    BY <2>1, <2>2
<1>2. IInv /\ RecordsBoundedByWorkers /\ [Next]_vars => RecordsBoundedByWorkers'
  <2> SUFFICES ASSUME IInv, RecordsBoundedByWorkers, [Next]_vars, NEW d \in Deals
               PROVE  Len(records'[d]) + Cardinality(Creating(d))'
                        <= Cardinality(Workers) + direct'[d]
    BY DEF RecordsBoundedByWorkers
  <2> DEFINE c == Cardinality(Creating(d))
             e == Cardinality(Creating(d))'
             n == Cardinality(Workers)
             a == Len(records[d])
             b == Len(records'[d])
             x == direct[d]
             y == direct'[d]
  <2>1. Grows(d) /\ x \in Nat /\ y \in Nat /\ x <= y
    BY StepGrowth
  <2>2. e \in Nat /\ e <= n
    <3>1. Creating(d)' \subseteq Workers
      BY DEF Creating
    <3>2. QED
      BY <3>1, FundingAssumption, FS_Subset, FS_CardinalityType
  <2>3. c \in Nat /\ n \in Nat
    BY Finite
  <2>4. a + c <= n + x
    BY DEF RecordsBoundedByWorkers
  <2>5. a \in Nat
    BY LenProperties DEF IInv, TypeOK
  <2>6. b \in Nat
    <3>1. IInv'
      BY StepOK
    <3>2. QED
      BY <3>1, LenProperties DEF IInv, TypeOK
  <2>7. b = 0 \/ b + e <= a + c + (y - x)
    BY <2>1 DEF Grows, Total
  <2>8. x \in Nat /\ y \in Nat
    BY <2>1
  <2> HIDE DEF c, e, n, a, b, x, y
  <2>9. b + e <= n + y
    BY <2>2, <2>3, <2>4, <2>5, <2>6, <2>7, <2>8
  <2>10. QED
    BY <2>9 DEF e, n, b, y
<1>3. QED
  BY EmptyOK, StepOK, <1>1, <1>2, PTL DEF Spec

-----------------------------------------------------------------------------
(* The refinement: workers and records are the registry of CheckThenCreate. *)
Made == [d \in Deals |-> Len(records[d])]

(* What the registry sees of the workers a step does not move. *)
LEMMA LookingKept ==
    ASSUME IInv, JobsKept, NEW v \in Workers, worker'[v] = worker[v]
    PROVE  LookingFor'[v] = LookingFor[v]
<1>1. CASE worker[v].step \in CreateSteps
  <2>1. worker[v].step # "idle"
    BY <1>1 DEF CreateSteps
  <2>2. /\ worker[v].job \in JobId
        /\ jobs[worker[v].job].state = "active"
    BY <2>1, BusyWorker
  <2>3. jobs'[worker[v].job].data = jobs[worker[v].job].data
    BY <2>2 DEF JobsKept
  <2>4. QED
    BY <1>1, <2>3 DEF LookingFor, DealOf, JobOf
<1>2. CASE worker[v].step \notin CreateSteps
  BY <1>2 DEF LookingFor
<1>3. QED
  BY <1>1, <1>2

(* ... and what it sees of the one a step moves. *)
LEMMA LookingMoved ==
    ASSUME IInv, JobsKept, NEW w \in Workers,
           \A v \in Workers : v # w => worker'[v] = worker[v]
    PROVE  LookingFor' = [LookingFor EXCEPT ![w] = LookingFor'[w]]
<1>1. \A v \in Workers : v # w => LookingFor'[v] = LookingFor[v]
  BY LookingKept
<1>2. /\ LookingFor = [v \in Workers |-> LookingFor[v]]
      /\ LookingFor' = [v \in Workers |-> LookingFor'[v]]
  BY DEF LookingFor
<1>3. QED
  BY <1>1, <1>2

LEMMA LookingStays ==
    ASSUME IInv, JobsKept, \A v \in Workers : worker'[v] = worker[v]
    PROVE  LookingFor' = LookingFor
<1>1. \A v \in Workers : LookingFor'[v] = LookingFor[v]
  BY LookingKept
<1>2. /\ LookingFor = [v \in Workers |-> LookingFor[v]]
      /\ LookingFor' = [v \in Workers |-> LookingFor'[v]]
  BY DEF LookingFor
<1>3. QED
  BY <1>1, <1>2

(* A worker that leaves its step without inserting gives up, or was not    *)
(* looking.                                                                *)
LEMMA LeavingGivesUp ==
    ASSUME IInv, JobsKept, NEW w \in Workers, records' = records, direct' = direct,
           \A v \in Workers : v # w => worker'[v] = worker[v],
           worker'[w].step \notin CreateSteps
    PROVE  [Registry!Next]_(Registry!vars)
<1>1. LookingFor' = [LookingFor EXCEPT ![w] = LookingFor'[w]]
  BY LookingMoved
<1>2. LookingFor'[w] = NoDeal
  BY DEF LookingFor
<1>3. LookingFor = [v \in Workers |-> LookingFor[v]]
  BY DEF LookingFor
<1>4. CASE LookingFor[w] = NoDeal
  <2>1. LookingFor' = LookingFor
    BY <1>1, <1>2, <1>3, <1>4
  <2>2. QED
    BY <2>1 DEF Registry!vars
<1>5. CASE LookingFor[w] # NoDeal
  <2>1. Registry!GiveUp(w)
    BY <1>1, <1>2, <1>5 DEF Registry!GiveUp
  <2>2. QED
    BY <2>1 DEF Registry!Next
<1>6. QED
  BY <1>4, <1>5

LEMMA HandlerRefines ==
    ASSUME IInv, JobsKept, NEW w \in Workers,
           HandlerStep(w) \/ OperationFails(w) \/ WorkerDies(w)
    PROVE  [Registry!Next]_(Registry!vars)
<1>1. worker \in [Workers -> WorkerState \cup {Resting}]
  BY DEF IInv, TypeOK
<1>2. ASSUME worker' = [worker EXCEPT ![w] = Resting], records' = records,
             direct' = direct
      PROVE  [Registry!Next]_(Registry!vars)
  <2>1. /\ \A v \in Workers : v # w => worker'[v] = worker[v]
        /\ worker'[w].step \notin CreateSteps
    BY <1>1, <1>2 DEF Resting, CreateSteps
  <2>2. QED
    BY <1>2, <2>1, LeavingGivesUp
<1>3. CASE OperationFails(w) \/ WorkerDies(w) \/ LogAndReturn(w)
             \/ (CheckNoRecord(w) /\ Throw(w))
  BY <1>2, <1>3 DEF OperationFails, WorkerDies, LogAndReturn, CheckNoRecord, Throw
<1>4. CASE Take(w)
  <2>1. PICK j \in JobId :
           worker' = [worker EXCEPT ![w] =
             [job |-> j,
              step |-> IF jobs[j].data.name = "NEW_FUNDING_REQUEST"
                       THEN "check" ELSE "delete_record"]]
    BY <1>4 DEF Take
  <2>2. /\ \A v \in Workers : v # w => worker'[v] = worker[v]
        /\ worker'[w].step \notin CreateSteps
    BY <1>1, <2>1 DEF CreateSteps
  <2>3. QED
    BY <1>4, <2>2, LeavingGivesUp DEF Take
<1>5. CASE CheckNoRecord(w) /\ ~Throw(w)
  <2>1. /\ worker[w].step = "check" /\ records[DealOf(w)] = <<>>
        /\ Proceed(w, "create_checklist") /\ jobs' = jobs
        /\ records' = records /\ direct' = direct
    BY <1>5 DEF CheckNoRecord, Proceed, queueVars
  <2>2. worker[w].step # "idle" /\ worker[w].step \notin CreateSteps
        /\ "create_checklist" \in CreateSteps
    BY <2>1 DEF CreateSteps
  <2>3. /\ \A v \in Workers : v # w => worker'[v] = worker[v]
        /\ worker'[w].step \in CreateSteps /\ worker'[w].job = worker[w].job
    BY <2>1, <2>2, ProceedMoves
  <2>4. LookingFor' = [LookingFor EXCEPT ![w] = LookingFor'[w]]
    BY <2>3, LookingMoved
  <2>5. LookingFor[w] = NoDeal /\ LookingFor'[w] = DealOf(w)
    BY <2>1, <2>2, <2>3 DEF LookingFor, DealOf, JobOf
  <2>6. DealOf(w) \in Deals
    BY <2>2, BusyWorker
  <2>7. [d \in Deals |-> Len(records[d])][DealOf(w)] = 0
    BY <2>1, <2>6, EmptySeq
  <2>8. Registry!Look(w, DealOf(w))
    BY <2>1, <2>4, <2>5, <2>7 DEF Registry!Look
  <2>9. QED
    BY <2>6, <2>8 DEF Registry!Next
<1>6. CASE CreateChecklist(w)
  <2>1. /\ Proceed(w, "create_record") /\ jobs' = jobs
        /\ records' = records /\ direct' = direct
        /\ worker[w].step = "create_checklist"
    BY <1>6 DEF CreateChecklist, Proceed, queueVars
  <2>2. /\ worker[w].step # "idle" /\ worker[w].step \in CreateSteps
        /\ "create_record" \in CreateSteps
    BY <2>1 DEF CreateSteps
  <2>3. /\ \A v \in Workers : v # w => worker'[v] = worker[v]
        /\ worker'[w].step \in CreateSteps /\ worker'[w].job = worker[w].job
    BY <2>1, <2>2, ProceedMoves
  <2>4. LookingFor'[w] = LookingFor[w]
    BY <2>1, <2>2, <2>3 DEF LookingFor, DealOf, JobOf
  <2>5. LookingFor' = [LookingFor EXCEPT ![w] = LookingFor[w]]
    BY <2>3, <2>4, LookingMoved
  <2>6. LookingFor' = LookingFor
    BY <2>5 DEF LookingFor
  <2>7. QED
    BY <2>1, <2>6 DEF Registry!vars
<1>7. CASE CreateRecord(w)
  <2>1. /\ Proceed(w, "log")
        /\ records' = [records EXCEPT ![DealOf(w)] = Append(@, "PENDING")]
        /\ direct' = direct /\ worker[w].step = "create_record"
    BY <1>7 DEF CreateRecord
  <2>2. /\ worker[w].step # "idle" /\ worker[w].step \in CreateSteps
        /\ "log" \notin CreateSteps
    BY <2>1 DEF CreateSteps
  <2>3. /\ \A v \in Workers : v # w => worker'[v] = worker[v]
        /\ worker'[w].step \notin CreateSteps
    BY <2>1, <2>2, ProceedMoves
  <2>4. LookingFor' = [LookingFor EXCEPT ![w] = LookingFor'[w]]
    BY <2>3, LookingMoved
  <2>5. DealOf(w) \in Deals
    BY <2>2, BusyWorker
  <2>6. LookingFor[w] = DealOf(w) /\ LookingFor'[w] = NoDeal
    BY <2>2, <2>3 DEF LookingFor
  <2>7. LookingFor[w] # NoDeal
    BY <2>5, <2>6, FundingAssumption
  <2>8. /\ records \in [Deals -> Seq(Decision)]
        /\ Len(Append(records[DealOf(w)], "PENDING")) = Len(records[DealOf(w)]) + 1
    BY <2>5, AppendProperties DEF IInv, TypeOK, Decision
  <2>9. Made' = [Made EXCEPT ![DealOf(w)] = @ + 1]
    BY <2>1, <2>5, <2>8 DEF Made
  <2>10. Registry!Create(w)
    BY <2>1, <2>4, <2>6, <2>7, <2>9 DEF Registry!Create, Made
  <2>11. QED
    BY <2>10 DEF Registry!Next
<1>8. CASE DeleteRecord(w)
  <2>1. /\ Proceed(w, "log") /\ direct' = direct
        /\ records' = [records EXCEPT ![DealOf(w)] = IF @ = <<>> THEN @ ELSE Tail(@)]
        /\ worker[w].step = "delete_record"
    BY <1>8 DEF DeleteRecord
  <2>2. /\ worker[w].step # "idle" /\ worker[w].step \notin CreateSteps
        /\ "log" \notin CreateSteps
    BY <2>1 DEF CreateSteps
  <2>3. /\ \A v \in Workers : v # w => worker'[v] = worker[v]
        /\ worker'[w].step \notin CreateSteps
    BY <2>1, <2>2, ProceedMoves
  <2>4. DealOf(w) \in Deals
    BY <2>2, BusyWorker
  <2>5. records \in [Deals -> Seq(Decision)]
    BY DEF IInv, TypeOK
  <2>6. CASE records[DealOf(w)] = <<>>
    <3>1. records' = records
      BY <2>1, <2>4, <2>5, <2>6
    <3>2. QED
      BY <2>1, <2>3, <3>1, LeavingGivesUp
  <2>7. CASE records[DealOf(w)] # <<>>
    <3>1. LookingFor' = [LookingFor EXCEPT ![w] = LookingFor'[w]]
      BY <2>3, LookingMoved
    <3>2. LookingFor[w] = NoDeal /\ LookingFor'[w] = NoDeal
      BY <2>2, <2>3 DEF LookingFor
    <3>3. LookingFor' = LookingFor
      BY <3>1, <3>2 DEF LookingFor
    <3>4. /\ Len(records[DealOf(w)]) \in Nat \ {0}
          /\ Len(Tail(records[DealOf(w)])) = Len(records[DealOf(w)]) - 1
      BY <2>4, <2>5, <2>7, HeadTailProperties, EmptySeq, LenProperties
    <3>5. PICK t \in Deals : t = DealOf(w)
      BY <2>4
    <3>6. /\ records' = [records EXCEPT ![t] = Tail(records[t])]
          /\ t \in Deals
          /\ Len(records[t]) \in Nat \ {0}
          /\ Len(Tail(records[t])) = Len(records[t]) - 1
      BY <2>1, <2>7, <3>5, <3>4
    <3>7. Made[t] > 0
      BY <3>6 DEF Made
    <3>8. Made' = [Made EXCEPT ![t] = Made[t] - 1]
      BY <2>5, <3>6 DEF Made
    <3>9. Registry!Remove(t)
      BY <2>1, <3>3, <3>7, <3>8 DEF Registry!Remove, Made
    <3>10. QED
      BY <3>9 DEF Registry!Next
  <2>8. QED
    BY <2>6, <2>7
<1>9. QED
  BY <1>3, <1>4, <1>5, <1>6, <1>7, <1>8 DEF HandlerStep

LEMMA DealDeskRefines ==
    ASSUME IInv, JobsKept, DealDesk PROVE [Registry!Next]_(Registry!vars)
<1>1. records \in [Deals -> Seq(Decision)] /\ direct \in [Deals -> Nat]
  BY FundingAssumption DEF IInv, TypeOK
<1>2. worker' = worker
  BY DEF DealDesk, PostRecord, Decide
<1>3. LookingFor' = LookingFor
  BY <1>2, LookingStays
<1>4. ASSUME NEW d \in Deals, PostRecord(d) PROVE Registry!Insert(d)
  <2>1. /\ records' = [records EXCEPT ![d] = Append(@, "PENDING")]
        /\ direct' = [direct EXCEPT ![d] = @ + 1]
    BY <1>4 DEF PostRecord
  <2>2. Len(Append(records[d], "PENDING")) = Len(records[d]) + 1
    BY <1>1, AppendProperties DEF Decision
  <2>3. Made' = [Made EXCEPT ![d] = @ + 1]
    BY <1>1, <2>1, <2>2 DEF Made
  <2>4. QED
    BY <1>3, <2>1, <2>3 DEF Registry!Insert, Made
<1>5. ASSUME NEW d \in Deals, NEW i \in DOMAIN records[d],
             NEW decision \in Decision, Decide(d, i, decision)
      PROVE  UNCHANGED Registry!vars
  <2>1. records' = [records EXCEPT ![d][i] = decision] /\ direct' = direct
    BY <1>5 DEF Decide
  <2>2. Len([records[d] EXCEPT ![i] = decision]) = Len(records[d])
    BY <1>1, ExceptSeq
  <2>3. Made' = Made
    BY <1>1, <2>1, <2>2 DEF Made
  <2>4. QED
    BY <1>3, <2>1, <2>3 DEF Registry!vars, Made
<1>6. QED
  BY <1>4, <1>5 DEF DealDesk, Registry!Next

(* A step that moves neither worker nor record is a stutter. *)
LEMMA OthersStutter ==
    ASSUME IInv, JobsKept, UNCHANGED <<records, worker, direct>>
    PROVE  UNCHANGED Registry!vars
<1>1. LookingFor' = LookingFor
  BY LookingStays
<1>2. QED
  BY <1>1 DEF Registry!vars

(* Whatever the queue, the retries and the crashes do, workers and records *)
(* follow the check-then-insert protocol: a record is inserted only by a   *)
(* worker that found none, or directly.                                    *)
THEOREM FollowsRegistry == Spec => RegistrySpec
<1>1. Init => Registry!Init
  <2> SUFFICES ASSUME Init PROVE Registry!Init
    OBVIOUS
  <2>1. \A w \in Workers : worker[w].step \notin CreateSteps
    BY DEF Init, Resting, CreateSteps
  <2>2. QED
    BY <2>1 DEF Init, Registry!Init, LookingFor
<1>2. IInv /\ [Next]_vars => [Registry!Next]_(Registry!vars)
  <2> SUFFICES ASSUME IInv, [Next]_vars PROVE [Registry!Next]_(Registry!vars)
    OBVIOUS
  <2>1. JobsKept
    BY StepKeepsJobs
  <2>2. ASSUME UNCHANGED <<records, worker, direct>>
        PROVE  [Registry!Next]_(Registry!vars)
    BY <2>1, <2>2, OthersStutter
  <2>3. ASSUME NEW r \in Requests, ApiStep(r) \/ RequestFails(r)
        PROVE  UNCHANGED <<records, worker, direct>>
    BY <2>3 DEF ApiStep, SetRequested, AddNewJob, AddWithdrawJob, SetInProgress,
                WriteStatus, AddJob, RequestFails
  <2>4. ASSUME NEW j \in JobId, Retry(j) \/ Recover(j)
        PROVE  UNCHANGED <<records, worker, direct>>
    BY <2>4 DEF Retry, Recover
  <2>5. CASE Customer
    <3>1. UNCHANGED <<records, worker, direct>>
      BY <2>5 DEF Customer, CreateDeal, UpdateDeal, DeleteDeal, BeginRequest,
                  BeginWithdraw, Begin
    <3>2. QED
      BY <2>2, <3>1
  <2>6. CASE UNCHANGED vars
    BY <2>2, <2>6 DEF vars
  <2>7. ASSUME NEW w \in Workers,
               HandlerStep(w) \/ OperationFails(w) \/ WorkerDies(w)
        PROVE  [Registry!Next]_(Registry!vars)
    BY <2>1, <2>7, HandlerRefines
  <2>8. CASE DealDesk
    BY <2>1, <2>8, DealDeskRefines
  <2>9. QED
    BY <2>2, <2>3, <2>4, <2>5, <2>6, <2>7, <2>8 DEF Next
<1>3. QED
  BY EmptyOK, StepOK, <1>1, <1>2, PTL DEF Spec, RegistrySpec, Registry!Spec

-----------------------------------------------------------------------------
(* What the protocol of the registry gives by itself. *)

(* The registry counts the members of a set as this module does. *)
LEMMA SameCount ==
    ASSUME NEW S
    PROVE  Registry!Cardinality(S) = Cardinality(S)
BY DEF Registry!Cardinality, Cardinality

(* The workers looking at a deal are finitely many, at most all of them. *)
LEMMA LookersFinite ==
    ASSUME NEW d \in Deals
    PROVE  /\ IsFiniteSet(Registry!Lookers(d))
           /\ Cardinality(Registry!Lookers(d)) \in Nat
           /\ Cardinality(Workers) \in Nat
           /\ Cardinality(Registry!Lookers(d)) <= Cardinality(Workers)
<1>1. Registry!Lookers(d) \subseteq Workers
  BY DEF Registry!Lookers
<1>2. QED
  BY <1>1, FS_Subset, FS_CardinalityType, FundingAssumption

(* Every step of the registry keeps a deal or none per worker and counts   *)
(* that are natural numbers.                                               *)
THEOREM RegistryTypeCorrect == RegistrySpec => []Registry!TypeOK
<1>1. Registry!Init => Registry!TypeOK
  BY DEF Registry!Init, Registry!TypeOK
<1>2. Registry!TypeOK /\ [Registry!Next]_(Registry!vars) => Registry!TypeOK'
  <2> SUFFICES ASSUME Registry!TypeOK, [Registry!Next]_(Registry!vars) PROVE Registry!TypeOK'
    OBVIOUS
  <2> USE DEF Registry!TypeOK, Made
  <2>1. ASSUME NEW w \in Workers, Registry!Create(w) PROVE Registry!TypeOK'
    <3>1. LookingFor[w] \in Deals
      BY <2>1 DEF Registry!Create
    <3>2. QED
      BY <2>1, <3>1 DEF Registry!Create
  <2>2. ASSUME NEW w \in Workers, Registry!GiveUp(w) PROVE Registry!TypeOK'
    BY <2>2 DEF Registry!GiveUp
  <2>3. ASSUME NEW w \in Workers, NEW d \in Deals, Registry!Look(w, d) PROVE Registry!TypeOK'
    BY <2>3 DEF Registry!Look
  <2>4. ASSUME NEW d \in Deals, Registry!Insert(d) PROVE Registry!TypeOK'
    BY <2>4 DEF Registry!Insert
  <2>5. ASSUME NEW d \in Deals, Registry!Remove(d) PROVE Registry!TypeOK'
    BY <2>5 DEF Registry!Remove
  <2>6. CASE UNCHANGED Registry!vars
    BY <2>6 DEF Registry!vars
  <2>7. QED
    BY <2>1, <2>2, <2>3, <2>4, <2>5, <2>6 DEF Registry!Next
<1>3. QED
  BY <1>1, <1>2, PTL DEF RegistrySpec, Registry!Spec

(* However many workers look and insert at once, the records of a deal and *)
(* the workers about to insert one are at most as many as there are        *)
(* workers, besides the records inserted directly: the protocol alone      *)
(* gives the bound, whatever queue and retries do.                         *)
THEOREM RegistryBounded == RegistrySpec => []Registry!Bounded
<1>0. IsFiniteSet(Workers) /\ NoDeal \notin Deals
  BY FundingAssumption
<1>1. Registry!Init => Registry!Bounded
  BY LookersFinite, SameCount DEF Registry!Init, Registry!Bounded
<1>2. Registry!TypeOK /\ Registry!Bounded /\ [Registry!Next]_(Registry!vars)
        => Registry!Bounded'
  <2> SUFFICES ASSUME Registry!TypeOK, Registry!Bounded, [Registry!Next]_(Registry!vars),
                      NEW d \in Deals
        PROVE  Made'[d] + Cardinality(Registry!Lookers(d)')
                        <= Cardinality(Workers) + direct'[d]
    BY SameCount DEF Registry!Bounded, Made
  <2> USE DEF Registry!TypeOK, Made
  <2>0. /\ IsFiniteSet(Registry!Lookers(d)) /\ Cardinality(Registry!Lookers(d)) \in Nat
        /\ Cardinality(Workers) \in Nat
        /\ Made[d] \in Nat /\ direct[d] \in Nat
        /\ Made[d] + Cardinality(Registry!Lookers(d)) <= Cardinality(Workers) + direct[d]
    BY LookersFinite, SameCount DEF Registry!Bounded
  <2>1. ASSUME NEW w \in Workers, Registry!Create(w)
        PROVE  Made'[d] + Cardinality(Registry!Lookers(d)') <= Cardinality(Workers) + direct'[d]
    <3>1. LookingFor[w] \in Deals /\ NoDeal # d
      BY <2>1, <1>0 DEF Registry!Create
    <3>2. Registry!Lookers(d)' = IF LookingFor[w] = d THEN Registry!Lookers(d) \ {w}
                                 ELSE Registry!Lookers(d)
      BY <2>1, <3>1 DEF Registry!Create, Registry!Lookers
    <3>3. Cardinality(Registry!Lookers(d) \ {w}) = IF w \in Registry!Lookers(d)
                                          THEN Cardinality(Registry!Lookers(d)) - 1
                                          ELSE Cardinality(Registry!Lookers(d))
      BY <2>0, FS_RemoveElement
    <3>4. w \in Registry!Lookers(d) <=> LookingFor[w] = d
      BY DEF Registry!Lookers
    <3>5. Made'[d] = IF LookingFor[w] = d THEN Made[d] + 1 ELSE Made[d]
      BY <2>1, <3>1 DEF Registry!Create
    <3>6. direct'[d] = direct[d]
      BY <2>1 DEF Registry!Create
    <3>7. QED
      BY <2>0, <3>2, <3>3, <3>4, <3>5, <3>6
  <2>2. ASSUME NEW w \in Workers, Registry!GiveUp(w)
        PROVE  Made'[d] + Cardinality(Registry!Lookers(d)') <= Cardinality(Workers) + direct'[d]
    <3>1. Registry!Lookers(d)' \subseteq Registry!Lookers(d)
      BY <2>2, <1>0 DEF Registry!GiveUp, Registry!Lookers
    <3>2. /\ Cardinality(Registry!Lookers(d)') <= Cardinality(Registry!Lookers(d))
          /\ Cardinality(Registry!Lookers(d)') \in Nat
      BY <2>0, <3>1, FS_Subset, FS_CardinalityType
    <3>3. QED
      BY <2>0, <2>2, <3>2 DEF Registry!GiveUp
  <2>3. ASSUME NEW w \in Workers, NEW l \in Deals, Registry!Look(w, l)
        PROVE  Made'[d] + Cardinality(Registry!Lookers(d)') <= Cardinality(Workers) + direct'[d]
    <3>1. UNCHANGED <<Made, direct>>
      BY <2>3 DEF Registry!Look
    <3>2. CASE l = d
      <4>1. Made[d] = 0
        BY <2>3, <3>2 DEF Registry!Look
      <4>2. Registry!Lookers(d)' \subseteq Workers
        BY DEF Registry!Lookers
      <4>3. /\ Cardinality(Registry!Lookers(d)') <= Cardinality(Workers)
            /\ Cardinality(Registry!Lookers(d)') \in Nat
        BY <4>2, <1>0, FS_Subset, FS_CardinalityType
      <4>4. QED
        BY <2>0, <3>1, <4>1, <4>3
    <3>3. CASE l # d
      <4>1. Registry!Lookers(d)' = Registry!Lookers(d)
        BY <2>3, <3>3, <1>0 DEF Registry!Look, Registry!Lookers
      <4>2. QED
        BY <2>0, <3>1, <4>1
    <3>4. QED
      BY <3>2, <3>3
  <2>4. ASSUME NEW l \in Deals, Registry!Insert(l)
        PROVE  Made'[d] + Cardinality(Registry!Lookers(d)') <= Cardinality(Workers) + direct'[d]
    <3>1. Registry!Lookers(d)' = Registry!Lookers(d)
      BY <2>4 DEF Registry!Insert, Registry!Lookers
    <3>2. \/ Made'[d] = Made[d] + 1 /\ direct'[d] = direct[d] + 1
          \/ Made'[d] = Made[d] /\ direct'[d] = direct[d]
      BY <2>4 DEF Registry!Insert
    <3>3. QED
      BY <2>0, <3>1, <3>2
  <2>5. ASSUME NEW l \in Deals, Registry!Remove(l)
        PROVE  Made'[d] + Cardinality(Registry!Lookers(d)') <= Cardinality(Workers) + direct'[d]
    <3>1. Registry!Lookers(d)' = Registry!Lookers(d) /\ direct'[d] = direct[d]
      BY <2>5 DEF Registry!Remove, Registry!Lookers
    <3>2. Made'[d] = Made[d] \/ Made'[d] = Made[d] - 1
      BY <2>5 DEF Registry!Remove
    <3>3. QED
      BY <2>0, <3>1, <3>2
  <2>6. CASE UNCHANGED Registry!vars
    BY <2>0, <2>6 DEF Registry!vars, Registry!Lookers
  <2>7. QED
    BY <2>1, <2>2, <2>3, <2>4, <2>5, <2>6 DEF Registry!Next
<1>3. QED
  BY <1>1, <1>2, RegistryTypeCorrect, PTL DEF RegistrySpec, Registry!Spec

-----------------------------------------------------------------------------
(* Where requests and jobs are handled one at a time, the deal desk        *)
(* follows the deals: jobs are done in the order they were added.          *)

(* What the records and the queue know of a deal after the first n jobs:   *)
(* whether the last job about it is a new request.                         *)
Standing(q, d, n) ==
    \E i \in 1..n :
        /\ q[i].data = [name |-> "NEW_FUNDING_REQUEST", deal |-> d]
        /\ \A m \in 1..n : m > i => q[m].data.deal # d
Wanted(d) == Standing(jobs, d, added)

(* Jobs are taken in the order they were added.                            *)
Taken == added - Len(wait)
InOrder ==
    /\ Len(wait) <= added
    /\ \A i \in 1..Len(wait) : wait[i] = Taken + i
    /\ \A j \in 1..added : \/ jobs[j].state \in {"waiting", "completed"}
                           \/ \E w \in Workers : worker[w].job = j
    /\ \A w \in Workers : worker[w] # Resting =>
          /\ worker[w].job = Taken
          /\ worker[w].step = "delete_record" => JobOf(w).name = "WITHDRAW_FUNDING_REQUEST"

(* Requests and withdrawals of a deal alternate.                           *)
Alternating ==
    \A n \in 1..added :
        jobs[n].data.name = "NEW_FUNDING_REQUEST"
            <=> ~Standing(jobs, jobs[n].data.deal, n - 1)

(* The jobs whose effect the records show.                                 *)
Done == IF \E w \in Workers : worker[w].step \notin {"idle", "log"} THEN Taken - 1 ELSE Taken
RecordsFollow ==
    \A d \in Deals : Len(records[d]) = IF Standing(jobs, d, Done) THEN 1 ELSE 0

(* The last job of a deal agrees with its status, but for the request that *)
(* is being made.                                                          *)
StatusFollows(d) ==
    /\ deal[d].status = "ABSENT" => ~Wanted(d) /\ \A r \in Requests : request[r].deal # d
    /\ \A r \in Requests : request[r].deal = d =>
          /\ Wanted(d) <=> request[r].step = "add_withdraw_job"
          /\ Present(d) => deal[d].status = IF request[r].step = "set_requested"
                                            THEN "IN_PROGRESS" ELSE "FUNDING_REQUESTED"
    /\ Present(d) /\ (\A r \in Requests : request[r].deal # d) =>
          (deal[d].status = "FUNDING_REQUESTED" <=> Wanted(d))

Followed ==
    InOrder /\ Alternating /\ RecordsFollow /\ \A d \in Deals : StatusFollows(d)

(* Of what is handled one at a time there are no two. *)
LEMMA OneElement ==
    ASSUME NEW S, IsFiniteSet(S), Cardinality(S) <= 1, NEW x \in S, NEW y \in S
    PROVE  x = y
<1> SUFFICES ASSUME x # y PROVE FALSE
  OBVIOUS
<1>1. IsFiniteSet(S \ {x}) /\ Cardinality(S \ {x}) = Cardinality(S) - 1
  BY FS_RemoveElement
<1>2. Cardinality(S \ {x}) = 0
  BY <1>1, FS_CardinalityType
<1>3. S \ {x} = {}
  BY <1>1, <1>2, FS_EmptySet
<1>4. QED
  BY <1>3

LEMMA OneBusy ==
    ASSUME NEW T, IsFiniteSet(T), NEW f, NEW rest,
           Cardinality({x \in T : f[x] # rest}) <= 1
    PROVE  \A x, y \in T : f[x] # rest /\ f[y] # rest => x = y
<1> DEFINE S == {x \in T : f[x] # rest}
<1>1. IsFiniteSet(S) /\ Cardinality(S) <= 1
  BY FS_Subset
<1>2. QED
  BY <1>1, OneElement

(* What the type says of queue and workers. *)
LEMMA TypeFacts ==
    ASSUME IInv
    PROVE  /\ added \in Nat /\ added <= MaxJobs /\ MaxJobs \in Nat
           /\ wait \in Seq(JobId) /\ Len(wait) \in Nat
           /\ \A j \in 1..added :
                 /\ j \in JobId /\ jobs[j] \in Job
                 /\ jobs[j].data \in Payload /\ jobs[j].data.deal \in Deals
           /\ \A w \in Workers : worker[w] = Resting \/ worker[w] \in WorkerState
           /\ \A r \in Requests : request[r] = Idle \/ request[r] \in RequestState
           /\ \A d \in Deals : records[d] \in Seq(Decision) /\ Len(records[d]) \in Nat
           /\ \A d \in Deals : deal[d] \in DealState
<1>1. /\ added \in Nat /\ added <= MaxJobs /\ MaxJobs \in Nat
      /\ wait \in Seq(JobId) /\ Len(wait) \in Nat
  BY QueueAssumption, LenProperties DEF IInv, TypeOK, QueueTypeOK
<1>2. ASSUME NEW j \in 1..added
      PROVE  /\ j \in JobId /\ jobs[j] \in Job
             /\ jobs[j].data \in Payload /\ jobs[j].data.deal \in Deals
  <2>1. j \in JobId
    BY <1>1 DEF JobId
  <2>2. jobs[j].state # "none"
    BY <2>1, <1>1 DEF IInv, JobsOwned, QueueInv, JobsNumbered
  <2>3. jobs[j] \in Job
    BY <2>1, <2>2 DEF IInv, TypeOK, QueueTypeOK, NoJob
  <2>4. jobs[j].data \in Payload
    BY <2>3 DEF Job
  <2>5. QED
    BY <2>1, <2>3, <2>4, FundingAssumption
<1>3. \A d \in Deals : records[d] \in Seq(Decision) /\ Len(records[d]) \in Nat
  BY LenProperties DEF IInv, TypeOK
<1>4. QED
  BY <1>1, <1>2, <1>3 DEF IInv, TypeOK

(* Standing goes by the data of the first n jobs, and by the last of them. *)
LEMMA StandingSame ==
    ASSUME NEW p, NEW q, NEW d, NEW n \in Nat, \A i \in 1..n : p[i].data = q[i].data
    PROVE  Standing(p, d, n) <=> Standing(q, d, n)
BY DEF Standing

LEMMA StandingNext ==
    ASSUME NEW q, NEW d \in Deals, NEW n \in Nat, q[n + 1].data \in Payload
    PROVE  Standing(q, d, n + 1)
             <=> IF q[n + 1].data.deal = d
                 THEN q[n + 1].data.name = "NEW_FUNDING_REQUEST"
                 ELSE Standing(q, d, n)
<1> DEFINE new == [name |-> "NEW_FUNDING_REQUEST", deal |-> d]
<1>1. q[n + 1].data = new
        <=> q[n + 1].data.deal = d /\ q[n + 1].data.name = "NEW_FUNDING_REQUEST"
  BY FundingAssumption
<1>2. CASE q[n + 1].data.deal = d
  <2>1. ASSUME Standing(q, d, n + 1) PROVE q[n + 1].data = new
    <3>1. PICK i \in 1..(n + 1) :
             q[i].data = new /\ \A m \in 1..(n + 1) : m > i => q[m].data.deal # d
      BY <2>1 DEF Standing
    <3>2. i = n + 1
      BY <3>1, <1>2
    <3>3. QED
      BY <3>1, <3>2
  <2>2. ASSUME q[n + 1].data = new PROVE Standing(q, d, n + 1)
    <3>1. n + 1 \in 1..(n + 1) /\ \A m \in 1..(n + 1) : ~(m > n + 1)
      OBVIOUS
    <3>2. QED
      BY <2>2, <3>1 DEF Standing
  <2>3. QED
    BY <1>1, <1>2, <2>1, <2>2
<1>3. CASE q[n + 1].data.deal # d
  <2>1. ASSUME Standing(q, d, n + 1) PROVE Standing(q, d, n)
    <3>1. PICK i \in 1..(n + 1) :
             q[i].data = new /\ \A m \in 1..(n + 1) : m > i => q[m].data.deal # d
      BY <2>1 DEF Standing
    <3>2. i # n + 1
      BY <3>1, <1>3
    <3>3. i \in 1..n
      BY <3>2
    <3>4. QED
      BY <3>1, <3>3 DEF Standing
  <2>2. ASSUME Standing(q, d, n) PROVE Standing(q, d, n + 1)
    <3>1. PICK i \in 1..n :
             q[i].data = new /\ \A m \in 1..n : m > i => q[m].data.deal # d
      BY <2>2 DEF Standing
    <3>2. i \in 1..(n + 1)
      OBVIOUS
    <3>3. \A m \in 1..(n + 1) : m > i => q[m].data.deal # d
      <4> SUFFICES ASSUME NEW m \in 1..(n + 1), m > i PROVE q[m].data.deal # d
        OBVIOUS
      <4>1. CASE m = n + 1
        BY <4>1, <1>3
      <4>2. CASE m # n + 1
        BY <4>2, <3>1
      <4>3. QED
        BY <4>1, <4>2
    <3>4. QED
      BY <3>1, <3>2, <3>3 DEF Standing
  <2>3. QED
    BY <1>3, <2>1, <2>2
<1>4. QED
  BY <1>2, <1>3

LEMMA FollowedAtFirst == Init => Followed
<1> SUFFICES ASSUME Init PROVE Followed
  OBVIOUS
<1>1. added = 0 /\ Len(wait) = 0
  BY EmptySeq DEF Init, QueueInit
<1>2. \A d \in Deals, n \in {0} : ~Standing(jobs, d, n)
  BY DEF Standing
<1>3. \A w \in Workers : worker[w] = Resting /\ worker[w].step = "idle"
  BY DEF Init, Resting
<1>4. Taken = 0 /\ Done = 0
  <2>1. Taken = 0
    BY <1>1 DEF Taken
  <2>2. ~\E w \in Workers : worker[w].step \notin {"idle", "log"}
    BY <1>3
  <2>3. QED
    BY <2>1, <2>2 DEF Done
<1>5. InOrder
  BY <1>1, <1>3 DEF InOrder
<1>6. Alternating
  BY <1>1 DEF Alternating
<1>7. RecordsFollow
  BY <1>2, <1>4 DEF RecordsFollow, Init
<1>8. ASSUME NEW d \in Deals PROVE StatusFollows(d)
  <2>1. ~Wanted(d)
    BY <1>1, <1>2 DEF Wanted
  <2>2. \A r \in Requests : request[r].deal # d
    BY FundingAssumption DEF Init, Idle
  <2>3. deal[d].status = "ABSENT"
    BY DEF Init
  <2>4. QED
    BY <2>1, <2>2, <2>3 DEF StatusFollows, Present
<1>9. QED
  BY <1>5, <1>6, <1>7, <1>8 DEF Followed

(* A step that adds no job leaves their order as it is. *)
LEMMA AlternatingKept ==
    ASSUME IInv, JobsKept, Alternating, added' = added
    PROVE  Alternating'
<1>1. \A j \in 1..added : jobs'[j].data = jobs[j].data
  BY TypeFacts DEF JobsKept, IInv, JobsOwned, QueueInv, JobsNumbered
<1>2. ASSUME NEW n \in 1..added
      PROVE  jobs'[n].data.name = "NEW_FUNDING_REQUEST"
                <=> ~Standing(jobs', jobs'[n].data.deal, n - 1)
  <2>1. n - 1 \in Nat /\ \A i \in 1..(n - 1) : i \in 1..added
    BY TypeFacts
  <2>2. jobs'[n].data = jobs[n].data
    BY <1>1
  <2>3. PICK d : d = jobs[n].data.deal
    OBVIOUS
  <2>4. Standing(jobs', d, n - 1) <=> Standing(jobs, d, n - 1)
    BY <1>1, <2>1, StandingSame
  <2>5. QED
    BY <2>2, <2>3, <2>4 DEF Alternating
<1>3. QED
  BY <1>2 DEF Alternating

(* What the first n jobs leave standing stays so. *)
LEMMA StandingKept ==
    ASSUME IInv, JobsKept, NEW n \in 0..added, NEW d
    PROVE  Standing(jobs', d, n) <=> Standing(jobs, d, n)
<1>1. \A j \in 1..added : jobs'[j].data = jobs[j].data
  BY TypeFacts DEF JobsKept, IInv, JobsOwned, QueueInv, JobsNumbered
<1>2. n \in Nat /\ \A i \in 1..n : i \in 1..added
  BY TypeFacts
<1>3. QED
  BY <1>1, <1>2, StandingSame

(* A step that adds no job and touches neither deal nor request. *)
LEMMA StatusKept ==
    ASSUME IInv, JobsKept, added' = added, UNCHANGED <<deal, request>>,
           NEW d \in Deals, StatusFollows(d)
    PROVE  StatusFollows(d)'
<1>1. PICK n \in Nat : n = added
  BY TypeFacts
<1>2. Wanted(d)' <=> Wanted(d)
  BY <1>1, StandingKept DEF Wanted
<1>3. QED
  BY <1>2 DEF StatusFollows, Present

(* A step that touches neither queue nor worker, nor the number of records. *)
LEMMA NothingTaken ==
    ASSUME IInv, InOrder, Alternating, RecordsFollow, UNCHANGED <<queueVars, worker>>,
           \A d \in Deals : Len(records'[d]) = Len(records[d])
    PROVE  (InOrder /\ Alternating /\ RecordsFollow)'
<1>1. jobs' = jobs /\ wait' = wait /\ added' = added /\ worker' = worker
  BY DEF queueVars
<1>2. Taken' = Taken /\ Done' = Done
  BY <1>1 DEF Taken, Done
<1>3. InOrder'
  BY <1>1, <1>2 DEF InOrder, JobOf
<1>4. Alternating'
  BY <1>1 DEF Alternating
<1>5. RecordsFollow'
  BY <1>1, <1>2 DEF RecordsFollow
<1>6. QED
  BY <1>3, <1>4, <1>5

(* A customer changes, creates or deletes a deal, or begins a request. *)
LEMMA CustomerFollows ==
    ASSUME IInv, Followed, OneAtATime', Customer
    PROVE  Followed'
<1>1. UNCHANGED <<queueVars, worker, records>>
  BY DEF Customer, CreateDeal, UpdateDeal, DeleteDeal, BeginRequest, BeginWithdraw,
         Begin
<1>2. (InOrder /\ Alternating /\ RecordsFollow)'
  BY <1>1, NothingTaken DEF Followed
<1>3. jobs' = jobs /\ added' = added
  BY <1>1 DEF queueVars
<1>4. \A d \in Deals : Wanted(d)' <=> Wanted(d)
  BY <1>3 DEF Wanted
<1>5. ASSUME NEW e \in Deals, CreateDeal(e) \/ UpdateDeal(e) \/ DeleteDeal(e),
             NEW d \in Deals
      PROVE  StatusFollows(d)'
  <2>1. request' = request /\ StatusFollows(d) /\ (Wanted(d)' <=> Wanted(d))
    BY <1>4, <1>5 DEF CreateDeal, UpdateDeal, DeleteDeal, Followed
  <2>2. CASE d # e
    <3>1. deal'[d] = deal[d]
      BY <1>5, <2>2 DEF CreateDeal, UpdateDeal, DeleteDeal, SetStatus, IInv, TypeOK
    <3>2. QED
      BY <2>1, <3>1 DEF StatusFollows, Present
  <2>3. CASE d = e /\ CreateDeal(e)
    <3>1. deal[d].status = "ABSENT" /\ deal'[d].status = "IN_PROGRESS"
      BY <2>3, TypeFacts DEF CreateDeal, SetStatus, IInv, TypeOK, DealState
    <3>2. QED
      BY <2>1, <3>1 DEF StatusFollows, Present
  <2>4. CASE d = e /\ UpdateDeal(e)
    <3>1. deal'[d].status = deal[d].status
      BY <2>4, TypeFacts DEF UpdateDeal, IInv, TypeOK, DealState
    <3>2. QED
      BY <2>1, <3>1 DEF StatusFollows, Present
  <2>5. CASE d = e /\ DeleteDeal(e)
    <3>1. deal'[d].status = "DELETED"
      BY <2>5, TypeFacts DEF DeleteDeal, SetStatus, IInv, TypeOK, DealState
    <3>2. QED
      BY <2>1, <3>1 DEF StatusFollows, Present
  <2>6. QED
    BY <1>5, <2>2, <2>3, <2>4, <2>5
<1>6. ASSUME NEW e \in Deals, NEW r \in Requests, BeginRequest(r, e) \/ BeginWithdraw(r, e),
             NEW d \in Deals
      PROVE  StatusFollows(d)'
  <2>1. /\ deal' = deal /\ StatusFollows(d) /\ (Wanted(d)' <=> Wanted(d))
        /\ request[r].step = "idle" /\ request[r] = Idle
    BY <1>4, <1>6, BusyRequest, TypeFacts
       DEF BeginRequest, BeginWithdraw, Begin, Followed, RequestState
  <2>2. PICK step \in {"set_requested", "add_withdraw_job"} :
           /\ request' = [request EXCEPT ![r] = [step |-> step, deal |-> e]]
           /\ deal[e].status = IF step = "set_requested" THEN "IN_PROGRESS"
                               ELSE "FUNDING_REQUESTED"
    BY <1>6 DEF BeginRequest, BeginWithdraw, Begin
  <2>3. /\ request'[r].deal = e /\ request'[r].step = step
        /\ request' \in [Requests -> RequestState \cup {Idle}]
        /\ request'[r] # Idle
        /\ \A q \in Requests : q # r => request'[q] = request[q]
    BY <2>2 DEF IInv, TypeOK, Idle, RequestState
  <2>4. \A q \in Requests : q # r => request'[q] = Idle /\ request'[q].deal = NoDeal
    <3>1. \A q, s \in Requests : request'[q] # Idle /\ request'[s] # Idle => q = s
      <4>1. Cardinality({q \in Requests : request'[q] # Idle}) <= 1
        BY DEF OneAtATime
      <4>2. QED
        BY <4>1, OneBusy, FundingAssumption
    <3>2. QED
      BY <2>3, <3>1 DEF Idle
  <2>5. \A q \in Requests : request[q].deal # d
    BY <2>1, <2>3, <2>4, FundingAssumption DEF Idle
  <2>6. CASE d # e
    <3>1. \A q \in Requests : request'[q].deal # d
      BY <2>3, <2>4, <2>6, FundingAssumption
    <3>2. QED
      BY <2>1, <2>5, <3>1 DEF StatusFollows, Present
  <2>7. CASE d = e
    <3>1. Present(d) /\ deal[d].status # "ABSENT"
      BY <2>2, <2>7 DEF Present
    <3>2. deal[d].status = "FUNDING_REQUESTED" <=> Wanted(d)
      BY <2>1, <2>5, <3>1 DEF StatusFollows
    <3>3. \A q \in Requests : request'[q].deal = d => q = r
      BY <2>4, FundingAssumption
    <3>4. QED
      BY <2>1, <2>2, <2>3, <2>7, <3>1, <3>2, <3>3 DEF StatusFollows, Present
  <2>8. QED
    BY <2>6, <2>7
<1>7. \A d \in Deals : StatusFollows(d)'
  BY <1>5, <1>6 DEF Customer
<1>8. QED
  BY <1>2, <1>7 DEF Followed

(* Where one request is handled, the others are about no deal. *)
LEMMA OtherRequests ==
    ASSUME IInv, OneAtATime, NEW r \in Requests, request[r].step # "idle"
    PROVE  \A q \in Requests : q # r => request[q] = Idle /\ request[q].deal = NoDeal
<1>1. request[r] # Idle
  BY DEF Idle
<1>2. Cardinality({q \in Requests : request[q] # Idle}) <= 1
  BY DEF OneAtATime
<1>3. \A q, s \in Requests : request[q] # Idle /\ request[s] # Idle => q = s
  BY <1>2, OneBusy, FundingAssumption
<1>4. QED
  BY <1>1, <1>3 DEF Idle

(* The handler writes the status of its deal. *)
LEMMA WriteFollows ==
    ASSUME IInv, Followed, OneAtATime, NEW r \in Requests,
           SetRequested(r) \/ SetInProgress(r)
    PROVE  Followed'
<1>1. UNCHANGED <<queueVars, worker, records>>
  BY DEF SetRequested, SetInProgress, WriteStatus
<1>2. (InOrder /\ Alternating /\ RecordsFollow)'
  BY <1>1, NothingTaken DEF Followed
<1>3. /\ request[r].step # "idle" /\ request[r] \in RequestState
      /\ request[r].deal \in Deals
  BY BusyRequest DEF SetRequested, SetInProgress
<1>4. PICK e \in Deals : e = request[r].deal
  BY <1>3
<1>5. \A q \in Requests : q # r => request[q] = Idle /\ request[q].deal = NoDeal
  BY <1>3, OtherRequests
<1>6. \A q \in Requests : q # r => request'[q] = request[q]
  BY DEF SetRequested, SetInProgress, WriteStatus, IInv, TypeOK
<1>7. ASSUME NEW d \in Deals PROVE StatusFollows(d)'
  <2>1. StatusFollows(d) /\ (Wanted(d)' <=> Wanted(d))
    BY <1>1 DEF Followed, Wanted, queueVars
  <2>2. CASE d # e
    <3>1. deal'[d] = deal[d]
      BY <1>4, <2>2 DEF SetRequested, SetInProgress, WriteStatus, SetStatus, IInv, TypeOK
    <3>2. request'[r].deal # d
      BY <1>3, <1>4, <2>2, FundingAssumption
         DEF SetRequested, SetInProgress, WriteStatus, IInv, TypeOK, Idle, RequestState
    <3>3. \A q \in Requests : request[q].deal # d /\ request'[q].deal # d
      BY <1>4, <1>5, <1>6, <2>2, <3>2, FundingAssumption
    <3>4. QED
      BY <2>1, <3>1, <3>3 DEF StatusFollows, Present
  <2>3. CASE d = e
    <3>1. deal[d].status # "ABSENT" /\ ~Wanted(d)
      BY <1>4, <2>1, <2>3 DEF StatusFollows, SetRequested, SetInProgress
    <3>2. CASE SetRequested(r) /\ Present(d)
      <4>1. deal'[d].status = "FUNDING_REQUESTED"
        BY <1>4, <2>3, <3>2, TypeFacts
           DEF SetRequested, WriteStatus, SetStatus, IInv, TypeOK, DealState
      <4>2. request'[r].step = "add_new_job"
        BY <1>3, <1>4, <2>3, <3>2
           DEF SetRequested, WriteStatus, IInv, TypeOK, RequestState
      <4>3. \A q \in Requests : request'[q].deal = d => q = r
        BY <1>5, <1>6, FundingAssumption
      <4>4. request'[r].deal = d
        BY <1>3, <1>4, <2>3, <3>2
           DEF SetRequested, WriteStatus, IInv, TypeOK, RequestState
      <4>5. QED
        BY <2>1, <3>1, <4>1, <4>2, <4>3, <4>4 DEF StatusFollows, Present
    <3>3. CASE SetInProgress(r) /\ Present(d)
      <4>1. deal'[d].status = "IN_PROGRESS"
        BY <1>4, <2>3, <3>3, TypeFacts
           DEF SetInProgress, WriteStatus, SetStatus, IInv, TypeOK, DealState
      <4>2. request'[r] = Idle
        BY <1>4, <2>3, <3>3 DEF SetInProgress, WriteStatus, IInv, TypeOK
      <4>3. \A q \in Requests : request'[q].deal # d
        BY <1>5, <1>6, <4>2, FundingAssumption DEF Idle
      <4>4. QED
        BY <2>1, <3>1, <4>1, <4>3 DEF StatusFollows, Present
    <3>4. CASE ~Present(d)
      <4>1. deal' = deal /\ request'[r] = Idle
        BY <1>4, <2>3, <3>4 DEF SetRequested, SetInProgress, WriteStatus, IInv, TypeOK
      <4>2. \A q \in Requests : request'[q].deal # d
        BY <1>5, <1>6, <4>1, FundingAssumption DEF Idle
      <4>3. QED
        BY <3>1, <3>4, <4>1, <4>2 DEF StatusFollows, Present
    <3>5. QED
      BY <3>2, <3>3, <3>4
  <2>4. QED
    BY <2>2, <2>3
<1>8. QED
  BY <1>2, <1>7 DEF Followed

(* The jobs that are taken, and those whose effect the records show, are   *)
(* among those that were added.                                            *)
LEMMA TakenBounds ==
    ASSUME IInv, InOrder
    PROVE  Taken \in 0..added /\ Done \in 0..added
<1>1. Taken \in 0..added
  BY TypeFacts DEF InOrder, Taken
<1>2. CASE \E w \in Workers : worker[w].step \notin {"idle", "log"}
  <2>1. PICK w \in Workers : worker[w].step \notin {"idle", "log"}
    BY <1>2
  <2>2. worker[w] # Resting /\ worker[w].job \in 1..added
    BY <2>1, BusyWorker
  <2>3. worker[w].job = Taken
    BY <2>2 DEF InOrder
  <2>4. Taken - 1 \in 0..added
    BY <2>2, <2>3, TypeFacts
  <2>5. QED
    BY <1>1, <1>2, <2>4 DEF Done
<1>3. CASE ~\E w \in Workers : worker[w].step \notin {"idle", "log"}
  BY <1>1, <1>3 DEF Done
<1>4. QED
  BY <1>2, <1>3

(* The handler adds its job. *)
LEMMA AddFollows ==
    ASSUME IInv, Followed, OneAtATime, JobsKept, NEW r \in Requests,
           AddNewJob(r) \/ AddWithdrawJob(r)
    PROVE  Followed'
<1>1. UNCHANGED <<deal, records, worker>>
  BY DEF AddNewJob, AddWithdrawJob, AddJob
<1>2. /\ request[r].step # "idle" /\ request[r] \in RequestState
      /\ request[r].deal \in Deals
  BY BusyRequest DEF AddNewJob, AddWithdrawJob
<1>3. PICK e \in Deals : e = request[r].deal
  BY <1>2
<1>4. PICK name \in {"NEW_FUNDING_REQUEST", "WITHDRAW_FUNDING_REQUEST"} :
         /\ Enqueue([name |-> name, deal |-> e])
         /\ \/ name = "NEW_FUNDING_REQUEST" /\ AddNewJob(r)
            \/ name = "WITHDRAW_FUNDING_REQUEST" /\ AddWithdrawJob(r)
  BY <1>3 DEF AddNewJob, AddWithdrawJob, AddJob
<1>5. PICK n \in Nat : n = added
  BY TypeFacts
<1>6. /\ n + 1 \in JobId /\ added' = n + 1 /\ wait' = Append(wait, n + 1)
      /\ jobs' = [jobs EXCEPT ![n + 1] =
                     [state |-> "waiting", data |-> [name |-> name, deal |-> e],
                      attempts |-> 0, stalls |-> 0]]
  BY <1>4, <1>5, TypeFacts DEF Enqueue, JobId
<1>7. /\ jobs'[n + 1].state = "waiting"
      /\ jobs'[n + 1].data = [name |-> name, deal |-> e]
      /\ \A j \in 1..n : jobs'[j] = jobs[j]
  BY <1>5, <1>6, TypeFacts DEF IInv, TypeOK, QueueTypeOK
<1>8. /\ Len(wait') = Len(wait) + 1 /\ wait'[Len(wait) + 1] = n + 1
      /\ \A i \in 1..Len(wait) : wait'[i] = wait[i]
  BY <1>6, TypeFacts, AppendProperties
<1>9. PICK t \in 0..n : t = Taken
  BY <1>5, TakenBounds DEF Followed
<1>10. Taken' = t /\ Done' = Done
  <2>1. Taken' = t
    BY <1>5, <1>6, <1>8, <1>9, TypeFacts DEF Taken
  <2>2. QED
    BY <1>1, <1>9, <2>1 DEF Done
<1>11. InOrder'
  <2>1. Len(wait') <= added'
    BY <1>5, <1>6, <1>8, TypeFacts DEF Followed, InOrder
  <2>2. \A i \in 1..Len(wait') : wait'[i] = t + i
    <3>1. \A i \in 1..Len(wait) : wait[i] = t + i
      BY <1>9 DEF Followed, InOrder
    <3>2. t + (Len(wait) + 1) = n + 1
      BY <1>5, <1>9, TypeFacts DEF Taken
    <3>3. QED
      BY <1>8, <3>1, <3>2, TypeFacts
  <2>3. \A j \in 1..(n + 1) : \/ jobs'[j].state \in {"waiting", "completed"}
                              \/ \E w \in Workers : worker[w].job = j
    <3>1. \A j \in 1..n : \/ jobs[j].state \in {"waiting", "completed"}
                          \/ \E w \in Workers : worker[w].job = j
      BY <1>5 DEF Followed, InOrder
    <3>2. QED
      BY <1>7, <3>1
  <2>4. ASSUME NEW w \in Workers, worker[w] # Resting
        PROVE  /\ worker[w].job = t
               /\ worker[w].step = "delete_record"
                     => jobs'[worker[w].job].data.name = "WITHDRAW_FUNDING_REQUEST"
    <3>1. /\ worker[w].job = t
          /\ worker[w].step = "delete_record"
                => jobs[worker[w].job].data.name = "WITHDRAW_FUNDING_REQUEST"
      BY <1>9, <2>4 DEF Followed, InOrder, JobOf
    <3>2. worker[w].job \in 1..n
      BY <1>5, <2>4 DEF IInv, JobsOwned, WorkerSound
    <3>3. QED
      BY <1>7, <3>1, <3>2
  <2>5. QED
    BY <1>1, <1>6, <1>10, <2>1, <2>2, <2>3, <2>4 DEF InOrder, JobOf
<1>12. \A d \in Deals : Standing(jobs', d, n) <=> Wanted(d)
  BY <1>5, StandingKept DEF Wanted
<1>13. Wanted(e) <=> name # "NEW_FUNDING_REQUEST"
  BY <1>3, <1>4 DEF Followed, StatusFollows, AddNewJob, AddWithdrawJob
<1>14. Alternating'
  <2>1. ASSUME NEW m \in 1..(n + 1)
        PROVE  jobs'[m].data.name = "NEW_FUNDING_REQUEST"
                  <=> ~Standing(jobs', jobs'[m].data.deal, m - 1)
    <3>1. CASE m = n + 1
      <4>1. jobs'[m].data.name = name /\ jobs'[m].data.deal = e /\ m - 1 = n
        BY <1>7, <3>1
      <4>2. QED
        BY <1>12, <1>13, <4>1
    <3>2. CASE m # n + 1
      <4>1. m \in 1..added /\ jobs'[m] = jobs[m] /\ m - 1 \in 0..added
        BY <1>5, <1>7, <3>2
      <4>2. PICK d : d = jobs[m].data.deal
        OBVIOUS
      <4>3. Standing(jobs', d, m - 1) <=> Standing(jobs, d, m - 1)
        BY <4>1, StandingKept
      <4>4. QED
        BY <4>1, <4>2, <4>3 DEF Followed, Alternating
    <3>3. QED
      BY <3>1, <3>2
  <2>2. QED
    BY <1>6, <2>1 DEF Alternating
<1>15. RecordsFollow'
  <2>1. PICK k \in 0..added : k = Done
    BY TakenBounds DEF Followed
  <2>2. \A d \in Deals : Standing(jobs', d, k) <=> Standing(jobs, d, k)
    BY StandingKept
  <2>3. QED
    BY <1>1, <1>10, <2>1, <2>2 DEF Followed, RecordsFollow
<1>16. ASSUME NEW d \in Deals PROVE StatusFollows(d)'
  <2>1. StatusFollows(d)
    BY DEF Followed
  <2>2. Wanted(d)' <=> IF d = e THEN name = "NEW_FUNDING_REQUEST" ELSE Wanted(d)
    <3>1. jobs'[n + 1].data \in Payload
      BY <1>7, FundingAssumption
    <3>2. Standing(jobs', d, n + 1) <=> IF e = d THEN name = "NEW_FUNDING_REQUEST"
                                        ELSE Standing(jobs', d, n)
      BY <1>7, <3>1, StandingNext
    <3>3. QED
      BY <1>6, <1>12, <3>2 DEF Wanted
  <2>3. \A q \in Requests : q # r => request[q].deal = NoDeal /\ request'[q] = request[q]
    BY <1>2, OtherRequests DEF AddNewJob, AddWithdrawJob, AddJob, IInv, TypeOK
  <2>4. \A q \in Requests : request'[q].deal = d => q = r
    BY <2>3, FundingAssumption
  <2>5. CASE d # e
    <3>1. request'[r].deal # d /\ request[r].deal # d
      BY <1>2, <1>3, <2>5, FundingAssumption
         DEF AddNewJob, AddWithdrawJob, AddJob, IInv, TypeOK, Idle, RequestState
    <3>2. \A q \in Requests : request'[q].deal # d /\ request[q].deal # d
      BY <2>3, <3>1, FundingAssumption
    <3>3. QED
      BY <1>1, <2>1, <2>2, <2>5, <3>2 DEF StatusFollows, Present
  <2>6. CASE d = e
    <3>1. deal[d].status # "ABSENT"
      BY <1>3, <2>1, <2>6 DEF StatusFollows
    <3>2. Present(d) => deal[d].status = "FUNDING_REQUESTED"
      BY <1>3, <2>1, <2>6 DEF StatusFollows, AddNewJob, AddWithdrawJob
    <3>3. CASE AddNewJob(r) /\ name = "NEW_FUNDING_REQUEST"
      <4>1. request'[r].deal = NoDeal
        BY <3>3 DEF AddNewJob, AddJob, IInv, TypeOK, Idle
      <4>2. \A q \in Requests : request'[q].deal # d
        BY <2>4, <4>1, FundingAssumption
      <4>3. QED
        BY <1>1, <2>2, <2>6, <3>1, <3>2, <3>3, <4>2 DEF StatusFollows, Present
    <3>4. CASE AddWithdrawJob(r) /\ name = "WITHDRAW_FUNDING_REQUEST"
      <4>1. request'[r].deal = d /\ request'[r].step = "set_in_progress"
        BY <1>2, <1>3, <2>6, <3>4 DEF AddWithdrawJob, AddJob, IInv, TypeOK, RequestState
      <4>2. QED
        BY <1>1, <2>2, <2>4, <2>6, <3>1, <3>2, <3>4, <4>1 DEF StatusFollows, Present
    <3>5. QED
      BY <1>4, <3>3, <3>4
  <2>7. QED
    BY <2>5, <2>6
<1>17. QED
  BY <1>11, <1>14, <1>15, <1>16 DEF Followed

(* The job that is done, and what the jobs up to it leave standing. *)
LEMMA JobInHand ==
    ASSUME IInv, Followed, NEW w \in Workers, worker[w].step # "idle"
    PROVE  /\ worker[w].job = Taken /\ Taken \in 1..added
           /\ jobs[Taken].state = "active" /\ jobs[Taken] \in Job
           /\ DealOf(w) \in Deals
           /\ worker[w].step \in NewRequestSteps
                 => /\ ~Standing(jobs, DealOf(w), Taken - 1)
                    /\ JobOf(w).name = "NEW_FUNDING_REQUEST"
           /\ worker[w].step = "delete_record"
                 => /\ Standing(jobs, DealOf(w), Taken - 1)
                    /\ JobOf(w).name # "NEW_FUNDING_REQUEST"
           /\ \A d \in Deals :
                 Standing(jobs, d, Taken)
                    <=> IF DealOf(w) = d THEN JobOf(w).name = "NEW_FUNDING_REQUEST"
                        ELSE Standing(jobs, d, Taken - 1)
           /\ worker[w].step # "log" => Done = Taken - 1
<1>1. /\ worker[w] # Resting /\ worker[w].job \in 1..added
      /\ jobs[worker[w].job].state = "active" /\ jobs[worker[w].job] \in Job
      /\ DealOf(w) \in Deals
  BY BusyWorker
<1>2. /\ worker[w].job = Taken
      /\ worker[w].step = "delete_record" => JobOf(w).name = "WITHDRAW_FUNDING_REQUEST"
  BY <1>1 DEF Followed, InOrder
<1>3. PICK t \in 1..added : t = Taken
  BY <1>1, <1>2
<1>4. JobOf(w) = jobs[t].data
  BY <1>2, <1>3 DEF JobOf
<1>5. jobs[t].data.name = "NEW_FUNDING_REQUEST"
         <=> ~Standing(jobs, jobs[t].data.deal, t - 1)
  BY DEF Followed, Alternating
<1>6. worker[w].step \in NewRequestSteps => JobOf(w).name = "NEW_FUNDING_REQUEST"
  BY <1>1 DEF IInv, JobsOwned, WorkerSound
<1>7. t - 1 \in Nat /\ (t - 1) + 1 = t /\ jobs[t].data \in Payload
  BY TypeFacts
<1>8. ASSUME NEW d \in Deals
      PROVE  Standing(jobs, d, t)
                <=> IF jobs[t].data.deal = d
                    THEN jobs[t].data.name = "NEW_FUNDING_REQUEST"
                    ELSE Standing(jobs, d, t - 1)
  <2>1. PICK m \in Nat : m = t - 1 /\ m + 1 = t
    BY <1>7
  <2>2. Standing(jobs, d, m + 1)
           <=> IF jobs[m + 1].data.deal = d
               THEN jobs[m + 1].data.name = "NEW_FUNDING_REQUEST"
               ELSE Standing(jobs, d, m)
    BY <1>7, <2>1, StandingNext
  <2>3. QED
    BY <2>1, <2>2
<1>9. worker[w].step # "log" => Done = Taken - 1
  BY DEF Done
<1>10. DealOf(w) = jobs[t].data.deal
  BY <1>4 DEF DealOf
<1>11. QED
  BY <1>1, <1>2, <1>3, <1>4, <1>5, <1>6, <1>8, <1>9, <1>10

(* Where one worker is busy, the others rest. *)
LEMMA OtherWorkers ==
    ASSUME IInv, OneAtATime, NEW w \in Workers, worker[w].step # "idle"
    PROVE  \A v \in Workers : v # w => worker[v] = Resting
<1>1. worker[w] # Resting
  BY DEF Resting
<1>2. Cardinality({v \in Workers : worker[v] # Resting}) <= 1
  BY DEF OneAtATime
<1>3. \A u, v \in Workers : worker[u] # Resting /\ worker[v] # Resting => u = v
  BY <1>2, OneBusy, FundingAssumption
<1>4. QED
  BY <1>1, <1>3

(* The worker goes on to another step with the job it has. *)
LEMMA ProceedFollows ==
    ASSUME IInv, Followed, OneAtATime, NEW w \in Workers, worker[w].step # "idle",
           NEW to \in CreateSteps \cup {"log"}, Proceed(w, to)
    PROVE  /\ InOrder' /\ Alternating'
           /\ Taken' = Taken
           /\ Done' = IF to = "log" THEN Taken ELSE Taken - 1
<1>1. jobs' = jobs /\ wait' = wait /\ added' = added
  BY DEF Proceed, queueVars
<1>2. /\ \A v \in Workers : v # w => worker'[v] = worker[v]
      /\ worker'[w].step = to /\ worker'[w].job = worker[w].job
  BY ProceedMoves
<1>3. \A v \in Workers : v # w => worker[v] = Resting
  BY OtherWorkers
<1>4. Taken' = Taken
  BY <1>1 DEF Taken
<1>5. to # "delete_record" /\ to # "idle" /\ worker[w] # Resting
  BY DEF CreateSteps, Resting
<1>6. InOrder'
  <2>1. \A j \in 1..added : \/ jobs[j].state \in {"waiting", "completed"}
                            \/ \E v \in Workers : worker'[v].job = j
    BY <1>2 DEF Followed, InOrder
  <2>2. \A v \in Workers : worker'[v] # Resting =>
           worker'[v].job = Taken /\ worker'[v].step # "delete_record"
    BY <1>2, <1>3, <1>5 DEF Followed, InOrder
  <2>3. QED
    BY <1>1, <1>4, <2>1, <2>2 DEF Followed, InOrder
<1>7. Alternating'
  BY <1>1 DEF Followed, Alternating
<1>8. Done' = IF to = "log" THEN Taken ELSE Taken - 1
  <2>1. (\E v \in Workers : worker'[v].step \notin {"idle", "log"}) <=> to # "log"
    BY <1>2, <1>3, <1>5 DEF Resting
  <2>2. QED
    BY <1>4, <2>1 DEF Done
<1>9. QED
  BY <1>4, <1>6, <1>7, <1>8

(* The processor's steps between taking a job and logging it. *)
LEMMA HandlerFollows ==
    ASSUME IInv, Followed, OneAtATime, JobsKept, NEW w \in Workers,
           \/ CheckNoRecord(w) \/ CreateChecklist(w)
           \/ CreateRecord(w) \/ DeleteRecord(w)
    PROVE  Followed'
<1>1. /\ worker[w].step # "idle" /\ worker[w].step # "log"
      /\ UNCHANGED <<deal, request>>
  BY DEF CheckNoRecord, CreateChecklist, CreateRecord, DeleteRecord
<1>2. PICK t \in 1..added : t = Taken
  BY <1>1, JobInHand
<1>3. PICK e \in Deals : e = DealOf(w)
  BY <1>1, JobInHand
<1>4. /\ \A d \in Deals : Len(records[d]) = IF Standing(jobs, d, t - 1) THEN 1 ELSE 0
      /\ worker[w].step \in NewRequestSteps =>
            ~Standing(jobs, e, t - 1) /\ JobOf(w).name = "NEW_FUNDING_REQUEST"
      /\ worker[w].step = "delete_record" =>
            Standing(jobs, e, t - 1) /\ JobOf(w).name # "NEW_FUNDING_REQUEST"
      /\ \A d \in Deals :
            Standing(jobs, d, t)
               <=> IF e = d THEN JobOf(w).name = "NEW_FUNDING_REQUEST"
                   ELSE Standing(jobs, d, t - 1)
  BY <1>1, <1>2, <1>3, JobInHand DEF Followed, RecordsFollow
<1>5. ASSUME NEW to \in CreateSteps \cup {"log"}, Proceed(w, to),
             \A d \in Deals : Len(records'[d]) =
                IF Standing(jobs, d, IF to = "log" THEN t ELSE t - 1) THEN 1 ELSE 0
      PROVE  Followed'
  <2>1. /\ InOrder' /\ Alternating'
        /\ Done' = IF to = "log" THEN t ELSE t - 1
    BY <1>1, <1>2, <1>5, ProceedFollows
  <2>2. jobs' = jobs /\ added' = added
    BY <1>5 DEF Proceed, queueVars
  <2>3. RecordsFollow'
    BY <1>5, <2>1, <2>2 DEF RecordsFollow
  <2>4. \A d \in Deals : StatusFollows(d)'
    BY <1>1, <2>2, StatusKept DEF Followed
  <2>5. QED
    BY <2>1, <2>3, <2>4 DEF Followed
<1>6. CASE CheckNoRecord(w)
  <2>1. worker[w].step \in NewRequestSteps
    BY <1>6 DEF CheckNoRecord, NewRequestSteps
  <2>2. Len(records[e]) = 0
    BY <1>4, <2>1
  <2>3. records[e] = <<>>
    BY <2>2, TypeFacts, EmptySeq
  <2>4. Proceed(w, "create_checklist") /\ records' = records
    BY <1>3, <1>6, <2>3 DEF CheckNoRecord
  <2>5. QED
    BY <1>4, <1>5, <2>4 DEF CreateSteps
<1>7. CASE CreateChecklist(w)
  BY <1>4, <1>5, <1>7 DEF CreateChecklist, CreateSteps
<1>8. CASE CreateRecord(w)
  <2>1. worker[w].step \in NewRequestSteps
    BY <1>8 DEF CreateRecord, NewRequestSteps
  <2>2. /\ Proceed(w, "log")
        /\ records' = [records EXCEPT ![e] = Append(records[e], "PENDING")]
    BY <1>3, <1>8 DEF CreateRecord
  <2>3. Len(Append(records[e], "PENDING")) = 1
    <3>1. records[e] \in Seq(Decision) /\ Len(records[e]) = 0
      BY <1>4, <2>1, TypeFacts
    <3>2. "PENDING" \in Decision
      BY DEF Decision
    <3>3. QED
      BY <3>1, <3>2, AppendProperties
  <2>4. ASSUME NEW d \in Deals
        PROVE  Len(records'[d]) = IF Standing(jobs, d, t) THEN 1 ELSE 0
    <3>1. CASE d = e
      BY <1>4, <2>1, <2>2, <2>3, <3>1 DEF IInv, TypeOK
    <3>2. CASE d # e
      BY <1>4, <2>2, <3>2 DEF IInv, TypeOK
    <3>3. QED
      BY <3>1, <3>2
  <2>5. QED
    BY <1>5, <2>2, <2>4
<1>9. CASE DeleteRecord(w)
  <2>1. worker[w].step = "delete_record"
    BY <1>9 DEF DeleteRecord
  <2>2. records[e] \in Seq(Decision) /\ Len(records[e]) = 1
    BY <1>4, <2>1, TypeFacts
  <2>3. records[e] # <<>>
    <3> SUFFICES ASSUME records[e] = <<>> PROVE FALSE
      OBVIOUS
    <3>1. Len(records[e]) = Len(<<>>)
      OBVIOUS
    <3>2. Len(<<>>) = 0
      BY EmptySeq
    <3>3. QED
      BY <2>2, <3>1, <3>2
  <2>4. Proceed(w, "log") /\ records' = [records EXCEPT ![e] = Tail(records[e])]
    BY <1>3, <1>9, <2>3 DEF DeleteRecord
  <2>5. Len(Tail(records[e])) = 0
    BY <2>2, <2>3, HeadTailProperties
  <2>6. ASSUME NEW d \in Deals
        PROVE  Len(records'[d]) = IF Standing(jobs, d, t) THEN 1 ELSE 0
    <3>1. CASE d = e
      BY <1>4, <2>1, <2>4, <2>5, <3>1 DEF IInv, TypeOK
    <3>2. CASE d # e
      BY <1>4, <2>4, <3>2 DEF IInv, TypeOK
    <3>3. QED
      BY <3>1, <3>2
  <2>7. QED
    BY <1>5, <2>4, <2>6
<1>10. QED
  BY <1>6, <1>7, <1>8, <1>9

(* A worker takes the oldest job. *)
LEMMA TakeFollows ==
    ASSUME IInv, Followed, OneAtATime', JobsKept, NEW w \in Workers, Take(w)
    PROVE  Followed'
<1>1. UNCHANGED <<deal, records, request>> /\ worker[w].step = "idle"
  BY DEF Take
<1>2. PICK j \in JobId :
         /\ TakeJob(j)
         /\ worker' = [worker EXCEPT ![w] =
               [job |-> j,
                step |-> IF jobs[j].data.name = "NEW_FUNDING_REQUEST"
                         THEN "check" ELSE "delete_record"]]
  BY DEF Take
<1>3. /\ worker'[w].job = j /\ worker'[w].step \in {"check", "delete_record"}
      /\ worker'[w].step = "delete_record" => jobs[j].data.name # "NEW_FUNDING_REQUEST"
      /\ \A v \in Workers : v # w => worker'[v] = worker[v]
  BY <1>2 DEF IInv, TypeOK
<1>4. \A v \in Workers : v # w => worker[v] = Resting /\ worker'[v] = Resting
  <2>1. worker'[w] # Resting
    BY <1>3 DEF Resting
  <2>2. Cardinality({v \in Workers : worker'[v] # Resting}) <= 1
    BY DEF OneAtATime
  <2>3. \A u, v \in Workers : worker'[u] # Resting /\ worker'[v] # Resting => u = v
    BY <2>2, OneBusy, FundingAssumption
  <2>4. QED
    BY <1>3, <2>1, <2>3
<1>5. PICK t \in 0..added : t = Taken
  BY TakenBounds DEF Followed
<1>6. /\ wait # <<>> /\ j = Head(wait) /\ wait' = Tail(wait) /\ added' = added
      /\ jobs' = [jobs EXCEPT ![j].state = "active"]
  BY <1>2 DEF TakeJob
<1>7. /\ Len(wait) > 0 /\ Len(wait') = Len(wait) - 1
      /\ \A i \in 1..(Len(wait) - 1) : wait'[i] = wait[i + 1]
  BY <1>6, TypeFacts, EmptySeq, HeadTailProperties
<1>8. j = t + 1
  <2>1. Head(wait) = wait[1]
    BY <1>7
  <2>2. QED
    BY <1>5, <1>6, <1>7, <2>1, TypeFacts DEF Followed, InOrder
<1>9. Taken' = t + 1
  BY <1>5, <1>6, <1>7, TypeFacts DEF Taken
<1>10. Done = t /\ Done' = t
  <2>1. ~\E v \in Workers : worker[v].step \notin {"idle", "log"}
    BY <1>1, <1>4 DEF Resting
  <2>2. \E v \in Workers : worker'[v].step \notin {"idle", "log"}
    BY <1>3
  <2>3. (t + 1) - 1 = t
    BY TypeFacts
  <2>4. QED
    BY <1>5, <1>9, <2>1, <2>2, <2>3 DEF Done
<1>11. j \in 1..added /\ jobs[j].data \in Payload /\ jobs[j] \in Job
  <2>1. t + 1 <= added
    BY <1>5, <1>7, TypeFacts DEF Taken
  <2>2. j \in 1..added
    BY <1>8, <2>1, TypeFacts
  <2>3. QED
    BY <2>2, TypeFacts
<1>12. jobs'[j].data = jobs[j].data /\ \A i \in 1..added : i # j => jobs'[i] = jobs[i]
  BY <1>6, <1>11, TypeFacts DEF IInv, TypeOK, QueueTypeOK, Job
<1>13. InOrder'
  <2>1. Len(wait') <= added
    BY <1>7, TypeFacts DEF Followed, InOrder
  <2>2. \A i \in 1..Len(wait') : wait'[i] = (t + 1) + i
    <3>1. \A i \in 1..Len(wait) : wait[i] = t + i
      BY <1>5 DEF Followed, InOrder
    <3>2. ASSUME NEW i \in 1..Len(wait') PROVE wait'[i] = (t + 1) + i
      <4>1. /\ i \in 1..(Len(wait) - 1) /\ i + 1 \in 1..Len(wait)
            /\ t + (i + 1) = (t + 1) + i
        BY <1>7, TypeFacts
      <4>2. QED
        BY <1>7, <3>1, <4>1
    <3>3. QED
      BY <3>2
  <2>3. \A i \in 1..added : \/ jobs'[i].state \in {"waiting", "completed"}
                            \/ \E v \in Workers : worker'[v].job = i
    <3>1. \A i \in 1..added : \/ jobs[i].state \in {"waiting", "completed"}
                              \/ \E v \in Workers : worker[v].job = i
      BY DEF Followed, InOrder
    <3>2. worker[w] = Resting
      BY <1>1, TypeFacts DEF WorkerState
    <3>3. \A v \in Workers : worker[v].job = 0
      BY <1>4, <3>2 DEF Resting
    <3>4. QED
      BY <1>3, <1>12, <3>1, <3>3
  <2>4. ASSUME NEW v \in Workers, worker'[v] # Resting
        PROVE  /\ worker'[v].job = t + 1
               /\ worker'[v].step = "delete_record"
                     => jobs'[worker'[v].job].data.name = "WITHDRAW_FUNDING_REQUEST"
    <3>1. v = w
      BY <1>4, <2>4
    <3>2. jobs[j].data.name # "NEW_FUNDING_REQUEST"
            => jobs[j].data.name = "WITHDRAW_FUNDING_REQUEST"
      BY <1>11, FundingAssumption
    <3>3. QED
      BY <1>3, <1>8, <1>12, <3>1, <3>2
  <2>5. QED
    BY <1>6, <1>9, <2>1, <2>2, <2>3, <2>4 DEF InOrder, JobOf
<1>14. Alternating'
  BY <1>6, AlternatingKept DEF Followed
<1>15. RecordsFollow'
  <2>1. \A d \in Deals : Standing(jobs', d, t) <=> Standing(jobs, d, t)
    BY StandingKept
  <2>2. QED
    BY <1>1, <1>10, <2>1 DEF Followed, RecordsFollow
<1>16. \A d \in Deals : StatusFollows(d)'
  BY <1>1, <1>6, StatusKept DEF Followed
<1>17. QED
  BY <1>13, <1>14, <1>15, <1>16 DEF Followed

(* The worker is done with its job. *)
LEMMA LogFollows ==
    ASSUME IInv, Followed, OneAtATime, JobsKept, NEW w \in Workers, LogAndReturn(w)
    PROVE  Followed'
<1>1. /\ UNCHANGED <<deal, records, request>> /\ worker[w].step = "log"
      /\ worker[w].step # "idle"
      /\ wait' = wait /\ added' = added
      /\ jobs' = [jobs EXCEPT ![worker[w].job].state = "completed"]
      /\ worker' = [worker EXCEPT ![w] = Resting]
  BY DEF LogAndReturn, CompleteJob
<1>2. PICK t \in 1..added : t = Taken
  BY <1>1, JobInHand
<1>3. worker[w].job = t /\ jobs[t] \in Job
  BY <1>1, <1>2, JobInHand
<1>4. \A v \in Workers : v # w => worker[v] = Resting
  BY <1>1, OtherWorkers
<1>5. \A v \in Workers : worker'[v] = Resting
  BY <1>1, <1>4 DEF IInv, TypeOK
<1>6. Taken' = t
  BY <1>1, <1>2 DEF Taken
<1>7. Done = t /\ Done' = t
  <2>1. ~\E v \in Workers : worker[v].step \notin {"idle", "log"}
    BY <1>1, <1>4 DEF Resting
  <2>2. ~\E v \in Workers : worker'[v].step \notin {"idle", "log"}
    BY <1>5 DEF Resting
  <2>3. QED
    BY <1>2, <1>6, <2>1, <2>2 DEF Done
<1>8. /\ jobs'[t].state = "completed"
      /\ \A i \in 1..added : i # t => jobs'[i] = jobs[i]
  BY <1>1, <1>3, TypeFacts DEF IInv, TypeOK, QueueTypeOK, Job
<1>9. InOrder'
  <2>1. \A i \in 1..added : jobs'[i].state \in {"waiting", "completed"}
    <3>1. \A i \in 1..added : \/ jobs[i].state \in {"waiting", "completed"}
                              \/ \E v \in Workers : worker[v].job = i
      BY DEF Followed, InOrder
    <3>2. \A v \in Workers : worker[v].job \in {0, t}
      BY <1>3, <1>4 DEF Resting
    <3>3. QED
      BY <1>8, <3>1, <3>2
  <2>2. QED
    BY <1>1, <1>2, <1>5, <1>6, <2>1 DEF Followed, InOrder
<1>10. Alternating'
  BY <1>1, AlternatingKept DEF Followed
<1>11. RecordsFollow'
  <2>1. \A d \in Deals : Standing(jobs', d, t) <=> Standing(jobs, d, t)
    BY StandingKept
  <2>2. QED
    BY <1>1, <1>7, <2>1 DEF Followed, RecordsFollow
<1>12. \A d \in Deals : StatusFollows(d)'
  BY <1>1, StatusKept DEF Followed
<1>13. QED
  BY <1>9, <1>10, <1>11, <1>12 DEF Followed

(* The deal desk decides; it posts no record where none is posted. *)
LEMMA DecisionFollows ==
    ASSUME IInv, Followed, OneAtATime, OneAtATime', JobsKept, DealDesk
    PROVE  Followed'
<1>1. PICK e \in Deals :
         \/ PostRecord(e)
         \/ \E i \in DOMAIN records[e], decision \in Decision : Decide(e, i, decision)
  BY DEF DealDesk
<1>2. ~PostRecord(e)
  <2>1. direct[e] = 0 /\ direct'[e] = 0
    BY DEF OneAtATime
  <2>2. direct \in [Deals -> 0..MaxDirect]
    BY DEF IInv, TypeOK
  <2>3. QED
    BY <2>1, <2>2 DEF PostRecord
<1>3. PICK i \in DOMAIN records[e], decision \in Decision : Decide(e, i, decision)
  BY <1>1, <1>2
<1>4. /\ records' = [records EXCEPT ![e] = [records[e] EXCEPT ![i] = decision]]
      /\ UNCHANGED <<queueVars, deal, request, worker>> /\ added' = added
  BY <1>3 DEF Decide, queueVars
<1>5. \A d \in Deals : Len(records'[d]) = Len(records[d])
  <2>1. records[e] \in Seq(Decision) /\ i \in 1..Len(records[e])
    BY TypeFacts, LenProperties
  <2>2. Len([records[e] EXCEPT ![i] = decision]) = Len(records[e])
    BY <2>1, ExceptSeq
  <2>3. QED
    BY <1>4, <2>2 DEF IInv, TypeOK
<1>6. (InOrder /\ Alternating /\ RecordsFollow)'
  BY <1>4, <1>5, NothingTaken DEF Followed
<1>7. \A d \in Deals : StatusFollows(d)'
  BY <1>4, StatusKept DEF Followed
<1>8. QED
  BY <1>6, <1>7 DEF Followed

LEMMA StepFollowed ==
    IInv /\ Followed /\ OneAtATime /\ [Next]_vars /\ OneAtATime' => Followed'
<1> SUFFICES ASSUME IInv, Followed, OneAtATime, [Next]_vars, OneAtATime'
             PROVE  Followed'
  OBVIOUS
<1>1. JobsKept
  BY StepKeepsJobs
<1>2. faults = 0 /\ faults' = 0
  BY DEF OneAtATime
<1>3. CASE Customer
  BY <1>3, CustomerFollows
<1>4. ASSUME NEW r \in Requests, ApiStep(r) PROVE Followed'
  BY <1>1, <1>4, WriteFollows, AddFollows DEF ApiStep
<1>5. ASSUME NEW w \in Workers, HandlerStep(w) PROVE Followed'
  BY <1>1, <1>5, TakeFollows, HandlerFollows, LogFollows DEF HandlerStep
<1>6. ASSUME NEW j \in JobId, Retry(j) \/ Recover(j) PROVE FALSE
  <2>1. jobs[j].state \in {"delayed", "active"}
    BY <1>6 DEF Retry, PromoteDelayed, Recover, RecoverStalled
  <2>2. j \in 1..added
    BY <2>1, TypeFacts DEF JobId, IInv, JobsOwned, QueueInv, JobsNumbered
  <2>3. PICK w \in Workers : worker[w].job = j
    BY <2>1, <2>2 DEF Followed, InOrder
  <2>4. worker[w] # Resting
    BY <2>2, <2>3, TypeFacts DEF Resting
  <2>5. jobs[j].state = "active"
    BY <2>3, <2>4, HeldJob
  <2>6. QED
    BY <1>6, <2>3, <2>5 DEF Retry, PromoteDelayed, Recover
<1>7. CASE DealDesk
  BY <1>1, <1>7, DecisionFollows
<1>8. CASE UNCHANGED vars
  <2>1. UNCHANGED <<queueVars, deal, records, request, worker>> /\ added' = added
    BY <1>8 DEF vars, queueVars
  <2>2. (InOrder /\ Alternating /\ RecordsFollow)'
    BY <2>1, NothingTaken DEF Followed
  <2>3. \A d \in Deals : StatusFollows(d)'
    BY <1>1, <2>1, StatusKept DEF Followed
  <2>4. QED
    BY <2>2, <2>3 DEF Followed
<1>9. ASSUME NEW r \in Requests, RequestFails(r) PROVE FALSE
  BY <1>2, <1>9 DEF RequestFails
<1>10. ASSUME NEW w \in Workers, OperationFails(w) \/ WorkerDies(w) PROVE FALSE
  BY <1>2, <1>10 DEF OperationFails, WorkerDies
<1>11. QED
  BY <1>3, <1>4, <1>5, <1>6, <1>7, <1>8, <1>9, <1>10 DEF Next

(* Once no work is left, the records are what the jobs say, and the jobs   *)
(* what the status says.                                                   *)
QuietFollows ==
    Quiet => \A d \in Deals :
        Present(d) => Len(records[d]) = IF deal[d].status = "FUNDING_REQUESTED" THEN 1 ELSE 0

LEMMA FollowedWhenQuiet == IInv /\ Followed => QuietFollows
<1> SUFFICES ASSUME IInv, Followed, Quiet, NEW d \in Deals, Present(d)
             PROVE  Len(records[d]) = IF deal[d].status = "FUNDING_REQUESTED" THEN 1 ELSE 0
  BY DEF QuietFollows
<1>1. \A j \in JobId : jobs[j].state \notin {"waiting", "active"}
  BY DEF Quiet, Settled
<1>2. Len(wait) = 0
  <2> SUFFICES ASSUME Len(wait) # 0 PROVE FALSE
    OBVIOUS
  <2>1. 1 \in 1..Len(wait)
    BY TypeFacts
  <2>2. wait[1] \in JobId /\ jobs[wait[1]].state = "waiting"
    BY <2>1, TypeFacts, LenProperties DEF IInv, JobsOwned, QueueInv, WaitListSound
  <2>3. QED
    BY <1>1, <2>2
<1>3. \A w \in Workers : worker[w].step = "idle"
  BY <1>1, BusyWorker
<1>4. Done = added
  BY <1>2, <1>3, TypeFacts DEF Done, Taken
<1>5. Len(records[d]) = IF Wanted(d) THEN 1 ELSE 0
  BY <1>4 DEF Followed, RecordsFollow, Wanted
<1>6. \A r \in Requests : request[r].deal # d
  BY FundingAssumption DEF Quiet, Idle
<1>7. deal[d].status = "FUNDING_REQUESTED" <=> Wanted(d)
  BY <1>6 DEF Followed, StatusFollows
<1>8. QED
  BY <1>5, <1>7

(* Where requests and jobs are handled one at a time, and nothing fails,   *)
(* the deal desk has, whenever no work is left, one record of each deal    *)
(* that awaits funding and none of any other: requests and withdrawals     *)
(* alternate, the queue keeps their order, and the processor finds each    *)
(* time what it looks for (requestFunding, withdrawFunding,                *)
(* FundingRequestProcessor).                                               *)
THEOREM DeskFollows == Spec => DeskFollowsDeals
<1>1. Spec => []IInv
  BY EmptyOK, StepOK, PTL DEF Spec
<1>2. Spec /\ []OneAtATime => []Followed
  BY <1>1, FollowedAtFirst, StepFollowed, PTL DEF Spec
<1>3. Spec /\ []OneAtATime => []QuietFollows
  BY <1>1, <1>2, FollowedWhenQuiet, PTL
<1>4. QED
  BY <1>3, PTL DEF DeskFollowsDeals, QuietFollows
=============================================================================
