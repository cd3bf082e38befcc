-------------------------- MODULE Onboarding_proofs -------------------------
(* What holds of the onboarding for all numbers of registrations, workers, *)
(* jobs, attempts, checks and faults.                                      *)
EXTENDS Onboarding, JobQueue_proofs, FiniteSetTheorems

(* A busy worker holds an active job of its own. *)
Owned ==
    \A w \in Workers :
        worker[w] # Resting =>
            /\ jobs[worker[w].job].state = "active"
            /\ \A v \in Workers : worker[v].job = worker[w].job => v = w

Exists(j) == jobs[j].state # "none"

(* A registration has a single job, from the single request that stored    *)
(* it, and none as long as that request runs.                              *)
OneJobEach ==
    /\ \A j \in JobId : Exists(j) => Registered(jobs[j].data)
    /\ \A i, j \in JobId : Exists(i) /\ Exists(j) /\ jobs[i].data = jobs[j].data => i = j
    /\ \A q \in Requests :
        request[q] # Idle =>
            /\ request[q].step = "add_job" => Registered(request[q].registration)
            /\ \A j \in JobId : Exists(j) => jobs[j].data # request[q].registration
            /\ \A p \in Requests :
                  request[p].registration = request[q].registration => p = q

(* What the handler of worker w has done to the record it made. *)
Progress(w) ==
    LET mine == records[RegistrationOf(w)]
        i    == worker[w].record
    IN  /\ worker[w].step = "create_record" => Len(mine) <= direct[RegistrationOf(w)]
        /\ worker[w].step = "link_checklist" => i \in DOMAIN mine /\ mine[i] = NewRecord
        /\ worker[w].step = "queue_checks" =>
              i \in DOMAIN mine /\ mine[i].linked /\ mine[i].queued < Checks
        /\ worker[w].step = "log" =>
              i \in DOMAIN mine /\ mine[i] = [linked |-> TRUE, queued |-> Checks]

RecordsSound ==
    /\ \A g \in Registrations : Len(records[g]) <= direct[g] + 1
    /\ \A w \in Workers : Progress(w)
    /\ CompletedMeansChecked

IInv == TypeOK /\ QueueInv /\ Owned /\ OneJobEach /\ RecordsSound

(* The queue's part of the invariant. *)
LEMMA QueueSound == ASSUME IInv PROVE QueueOK
BY DEF IInv, TypeOK, QueueOK

(* A job that was added is for a registration. *)
LEMMA JobData ==
    ASSUME IInv, NEW j \in JobId, Exists(j)
    PROVE  jobs[j] \in Job /\ jobs[j].data \in Registrations
<1>1. jobs[j] \in Job
  BY DEF IInv, TypeOK, QueueTypeOK, Exists, NoJob
<1>2. QED
  BY <1>1, OnboardingAssumption DEF Job

(* A worker that is not idle has a job of its own, for a registration. *)
LEMMA BusyWorker ==
    ASSUME IInv, NEW w \in Workers, worker[w].step # "idle"
    PROVE  /\ worker[w] # Resting
           /\ worker[w] \in WorkerState
           /\ worker[w].job \in JobId
           /\ worker[w].job # 0
           /\ jobs[worker[w].job] \in Job
           /\ jobs[worker[w].job].state = "active"
           /\ Exists(worker[w].job)
           /\ RegistrationOf(w) \in Registrations
           /\ \A v \in Workers : worker[v].job = worker[w].job => v = w
<1>1. worker[w] # Resting
  BY DEF Resting
<1>2. worker[w] \in WorkerState
  BY <1>1 DEF IInv, TypeOK
<1>3. worker[w].job \in JobId /\ worker[w].job # 0
  <2>1. worker[w].job \in JobId
    BY <1>2 DEF WorkerState
  <2>2. QED
    BY <2>1, QueueAssumption DEF JobId
<1>4. /\ jobs[worker[w].job].state = "active"
      /\ \A v \in Workers : worker[v].job = worker[w].job => v = w
  BY <1>1 DEF IInv, Owned
<1>5. jobs[worker[w].job] \in Job
  BY <1>3, <1>4 DEF IInv, TypeOK, QueueTypeOK, NoJob
<1>6. RegistrationOf(w) \in Registrations
  BY <1>5, OnboardingAssumption DEF Job, RegistrationOf
<1>7. QED
  BY <1>1, <1>2, <1>3, <1>4, <1>5, <1>6 DEF Exists

(* A worker is idle only when it rests. *)
LEMMA IdleWorker ==
    ASSUME IInv, NEW w \in Workers
    PROVE  worker[w].step = "idle" => worker[w] = Resting
<1>1. worker[w] \in WorkerState \cup {Resting}
  BY DEF IInv, TypeOK
<1>2. CASE worker[w] \in WorkerState
  BY <1>2 DEF WorkerState, Resting
<1>3. CASE worker[w] = Resting
  BY <1>3 DEF Resting
<1>4. QED
  BY <1>1, <1>2, <1>3

(* Two busy workers are busy with different registrations. *)
LEMMA OthersRegistration ==
    ASSUME IInv, NEW w \in Workers, NEW v \in Workers, v # w,
           worker[w].step # "idle", worker[v].step # "idle"
    PROVE  RegistrationOf(v) # RegistrationOf(w)
<1>1. /\ worker[w].job \in JobId /\ worker[v].job \in JobId
      /\ Exists(worker[w].job) /\ Exists(worker[v].job)
      /\ worker[v].job # worker[w].job
  BY BusyWorker
<1>2. QED
  BY <1>1 DEF IInv, OneJobEach, RegistrationOf

(* No job is lost or given other data ... *)
JobsKept ==
    \A j \in JobId : Exists(j) => jobs'[j].state # "none" /\ jobs'[j].data = jobs[j].data

(* ... and none is added. *)
NoneAdded == \A j \in JobId : jobs'[j].state # "none" => Exists(j)

(* The jobs of the workers that keep theirs stay active. *)
JobsHeld ==
    \A v \in Workers : worker[v] # Resting => jobs'[worker[v].job] = jobs[worker[v].job]

(* A step that moves no worker and touches no job of one. *)
LEMMA WorkersStay == ASSUME IInv, worker' = worker, JobsHeld PROVE Owned'
BY DEF IInv, Owned, JobsHeld

(* A step of worker w that keeps its job, and leaves the queue alone. *)
LEMMA WorkerProceeds ==
    ASSUME IInv, NEW w \in Workers, worker[w].step # "idle",
           NEW state \in WorkerState, state.job = worker[w].job,
           worker' = [worker EXCEPT ![w] = state], UNCHANGED queueVars
    PROVE  /\ QueueOK' /\ Owned' /\ JobsKept /\ NoneAdded
           /\ worker' \in [Workers -> WorkerState \cup {Resting}]
           /\ RegistrationOf(w)' = RegistrationOf(w)
           /\ worker'[w] = state
           /\ \A v \in Workers : v # w => worker'[v] = worker[v]
<1>1. QueueOK' /\ jobs' = jobs
  BY QueueSound, QueueUnchanged DEF queueVars
<1>2. /\ worker' \in [Workers -> WorkerState \cup {Resting}]
      /\ worker'[w] = state
      /\ \A v \in Workers : v # w => worker'[v] = worker[v]
  BY DEF IInv, TypeOK
<1>3. \A v \in Workers : worker'[v].job = worker[v].job
  BY <1>2
<1>4. Owned'
  <2> SUFFICES ASSUME NEW v \in Workers, worker'[v] # Resting
               PROVE  /\ jobs[worker[v].job].state = "active"
                      /\ \A u \in Workers : worker[u].job = worker[v].job => u = v
    BY <1>1, <1>3 DEF Owned
  <2>1. worker[v] # Resting
    BY <1>2, BusyWorker
  <2>2. QED
    BY <2>1 DEF IInv, Owned
<1>5. QED
  BY <1>1, <1>2, <1>3, <1>4 DEF JobsKept, NoneAdded, Exists, RegistrationOf

(* A step with which worker w gives up its job, whatever becomes of that. *)
LEMMA WorkerRests ==
    ASSUME IInv, NEW w \in Workers, worker[w].step # "idle",
           worker' = [worker EXCEPT ![w] = Resting],
           \A i \in JobId : i # worker[w].job => jobs'[i] = jobs[i]
    PROVE  /\ Owned'
           /\ worker' \in [Workers -> WorkerState \cup {Resting}]
           /\ worker'[w] = Resting
           /\ \A v \in Workers : v # w => /\ worker'[v] = worker[v]
                                          /\ worker[v].step # "idle" =>
                                                RegistrationOf(v)' = RegistrationOf(v)
<1>1. /\ worker' \in [Workers -> WorkerState \cup {Resting}]
      /\ worker'[w] = Resting
      /\ \A v \in Workers : v # w => worker'[v] = worker[v]
  BY DEF IInv, TypeOK
<1>2. ASSUME NEW v \in Workers, v # w, worker[v].step # "idle"
      PROVE  jobs'[worker[v].job] = jobs[worker[v].job]
  BY <1>2, BusyWorker
<1>3. ASSUME NEW v \in Workers, worker'[v] # Resting
      PROVE  /\ jobs'[worker'[v].job].state = "active"
             /\ \A u \in Workers : worker'[u].job = worker'[v].job => u = v
  <2>1. v # w /\ worker'[v] = worker[v] /\ worker[v].step # "idle"
    BY <1>1, <1>3, IdleWorker
  <2>2. /\ worker[v].job # 0 /\ jobs[worker[v].job].state = "active"
        /\ \A u \in Workers : worker[u].job = worker[v].job => u = v
    BY <2>1, BusyWorker
  <2>3. worker'[w].job # worker[v].job
    BY <1>1, <2>2 DEF Resting
  <2>4. QED
    BY <1>1, <1>2, <2>1, <2>2, <2>3
<1>4. QED
  BY <1>1, <1>2, <1>3 DEF Owned, RegistrationOf

(* A step that adds no job and at most lets requests end. *)
LEMMA RegistryStays ==
    ASSUME IInv, JobsKept, NoneAdded, wallet' = wallet,
           \A q \in Requests : request'[q] = request[q] \/ request'[q] = Idle
    PROVE  OneJobEach'
<1>1. /\ \A j \in JobId : jobs'[j].state # "none" => Registered(jobs[j].data)
      /\ \A i, j \in JobId :
            jobs'[i].state # "none" /\ jobs'[j].state # "none" /\ jobs'[i].data = jobs'[j].data
                => i = j
  BY DEF JobsKept, NoneAdded, IInv, OneJobEach, Exists, Registered
<1>2. \A j \in JobId : jobs'[j].state # "none" => wallet'[jobs'[j].data] # NoWallet
  BY <1>1 DEF JobsKept, NoneAdded, Registered
<1>3. ASSUME NEW q \in Requests, request'[q] # Idle
      PROVE  /\ request'[q].step = "add_job" => wallet'[request'[q].registration] # NoWallet
             /\ \A j \in JobId : jobs'[j].state # "none" => jobs'[j].data # request'[q].registration
             /\ \A p \in Requests :
                   request'[p].registration = request'[q].registration => p = q
  <2>1. request'[q] = request[q] /\ request[q] \in RequestState
    BY <1>3 DEF IInv, TypeOK
  <2>2. request[q].registration # NoRegistration
    BY <2>1, OnboardingAssumption DEF RequestState
  <2>3. /\ request[q].step = "add_job" => wallet[request[q].registration] # NoWallet
        /\ \A j \in JobId : Exists(j) => jobs[j].data # request[q].registration
        /\ \A p \in Requests :
              request[p].registration = request[q].registration => p = q
    BY <1>3, <2>1 DEF IInv, OneJobEach, Registered
  <2>4. \A p \in Requests :
           request'[p].registration = request[q].registration => p = q
    <3> TAKE p \in Requests
    <3>1. CASE request'[p] = request[p]
      BY <2>3, <3>1
    <3>2. CASE request'[p] = Idle
      BY <2>2, <3>2 DEF Idle
    <3>3. QED
      BY <3>1, <3>2
  <2>5. \A j \in JobId : jobs'[j].state # "none" => jobs'[j].data # request[q].registration
    BY <2>3 DEF JobsKept, NoneAdded
  <2>6. request[q].step = "add_job" => wallet'[request[q].registration] # NoWallet
    BY <2>3
  <2>7. QED
    BY <2>1, <2>4, <2>5, <2>6
<1>4. QED
  BY <1>1, <1>2, <1>3 DEF OneJobEach, Registered, Exists

(* The records of a registration only gain what they lack. *)
RecordsKept ==
    \A g \in Registrations : Checked(g) => Checked(g)'

(* Completed jobs stay true to the records, if no other job completes than *)
(* one whose registration is checked.                                      *)
LEMMA CompletedStay ==
    ASSUME IInv, JobsKept, RecordsKept,
           \A j \in JobId : jobs'[j].state = "completed" =>
               \/ jobs[j].state = "completed"
               \/ Exists(j) /\ \E g \in Registrations : jobs[j].data = g /\ Checked(g)'
    PROVE  CompletedMeansChecked'
<1> SUFFICES ASSUME NEW j \in JobId, jobs'[j].state = "completed"
             PROVE  Checked(jobs[j].data)'
  BY DEF CompletedMeansChecked
<1>1. Exists(j) /\ jobs'[j].data = jobs[j].data
  BY DEF JobsKept, Exists, IInv, TypeOK
<1>2. jobs[j].data \in Registrations
  BY <1>1, JobData
<1>3. PICK g \in Registrations : jobs[j].data = g /\ Checked(g)'
  BY <1>2 DEF IInv, RecordsSound, CompletedMeansChecked, RecordsKept
<1>4. QED
  BY <1>1, <1>3 DEF Checked

(* The progress of a worker that stays where it is, with its records.      *)
LEMMA ProgressStays ==
    ASSUME IInv, NEW v \in Workers, worker[v].step # "idle", worker'[v] = worker[v],
           RegistrationOf(v)' = RegistrationOf(v),
           records'[RegistrationOf(v)] = records[RegistrationOf(v)],
           direct'[RegistrationOf(v)] = direct[RegistrationOf(v)]
    PROVE  Progress(v)'
<1>1. Progress(v)
  BY DEF IInv, RecordsSound
<1>2. QED
  BY <1>1 DEF Progress

(* A worker that rests owes no progress. *)
LEMMA RestingProgress ==
    ASSUME NEW v \in Workers, worker'[v].step = "idle" PROVE Progress(v)'
BY DEF Progress

(* A step of the API, or of the queue alone: no worker moves, no job       *)
(* completes and no record changes.                                        *)
LEMMA HandlersStay ==
    ASSUME IInv, JobsKept, JobsHeld, UNCHANGED <<worker, records, direct>>,
           \A j \in JobId : jobs'[j].state = "completed" => jobs[j].state = "completed"
    PROVE  Owned' /\ RecordsSound'
<1>1. Owned'
  BY WorkersStay
<1>2. ASSUME NEW w \in Workers PROVE Progress(w)'
  <2>1. CASE worker[w].step = "idle"
    BY <2>1, RestingProgress
  <2>2. CASE worker[w].step # "idle"
    <3>1. RegistrationOf(w)' = RegistrationOf(w)
      BY <2>2, BusyWorker DEF JobsHeld, RegistrationOf
    <3>2. QED
      BY <2>2, <3>1, ProgressStays
  <2>3. QED
    BY <2>1, <2>2
<1>3. RecordsKept
  BY DEF RecordsKept, Checked
<1>4. CompletedMeansChecked'
  BY <1>3, CompletedStay
<1>5. QED
  BY <1>1, <1>2, <1>4 DEF IInv, RecordsSound

(* A step of worker w that keeps its job, or gives it up, and leaves the   *)
(* records alone.                                                          *)
LEMMA OneWorkerMoves ==
    ASSUME IInv, JobsKept, NEW w \in Workers, UNCHANGED <<records, direct>>,
           \A v \in Workers : v # w => /\ worker'[v] = worker[v]
                                       /\ worker[v].step # "idle" =>
                                             RegistrationOf(v)' = RegistrationOf(v),
           Progress(w)',
           \A j \in JobId : jobs'[j].state = "completed" =>
               \/ jobs[j].state = "completed"
               \/ Exists(j) /\ \E g \in Registrations : jobs[j].data = g /\ Checked(g)'
    PROVE  RecordsSound'
<1>1. ASSUME NEW v \in Workers PROVE Progress(v)'
  <2>1. CASE v # w /\ worker[v].step = "idle"
    BY <2>1, RestingProgress
  <2>2. CASE v # w /\ worker[v].step # "idle"
    BY <2>2, BusyWorker, ProgressStays
  <2>3. QED
    BY <2>1, <2>2
<1>2. RecordsKept
  BY DEF RecordsKept, Checked
<1>3. CompletedMeansChecked'
  BY <1>2, CompletedStay
<1>4. QED
  BY <1>1, <1>3 DEF IInv, RecordsSound

(* A step of worker w that changes the records of its registration only.   *)
LEMMA OneWorkerWrites ==
    ASSUME IInv, NEW w \in Workers, worker[w].step # "idle",
           NEW state \in WorkerState, state.job = worker[w].job,
           worker' = [worker EXCEPT ![w] = state], UNCHANGED <<queueVars, direct>>,
           NEW mine \in Seq(Record),
           records' = [records EXCEPT ![RegistrationOf(w)] = mine],
           Len(mine) <= direct[RegistrationOf(w)] + 1,
           \A i \in DOMAIN records[RegistrationOf(w)] :
               records[RegistrationOf(w)][i] = [linked |-> TRUE, queued |-> Checks] =>
                   i \in DOMAIN mine /\ mine[i] = records[RegistrationOf(w)][i],
           Progress(w)'
    PROVE  /\ QueueOK' /\ Owned' /\ JobsKept /\ NoneAdded
           /\ worker' \in [Workers -> WorkerState \cup {Resting}]
           /\ records' \in [Registrations -> Seq(Record)]
           /\ RecordsSound'
<1> DEFINE h == RegistrationOf(w)
<1>1. /\ QueueOK' /\ Owned' /\ JobsKept /\ NoneAdded
      /\ worker' \in [Workers -> WorkerState \cup {Resting}]
      /\ \A v \in Workers : v # w => worker'[v] = worker[v]
  BY WorkerProceeds
<1>2. h \in Registrations
  BY BusyWorker
<1>3. /\ records' \in [Registrations -> Seq(Record)]
      /\ records'[h] = mine
      /\ \A g \in Registrations : g # h => records'[g] = records[g]
  BY <1>2 DEF IInv, TypeOK
<1>4. ASSUME NEW v \in Workers, v # w PROVE Progress(v)'
  <2>1. CASE worker[v].step = "idle"
    BY <1>1, <1>4, <2>1, RestingProgress
  <2>2. CASE worker[v].step # "idle"
    <3>1. RegistrationOf(v) \in Registrations /\ RegistrationOf(v) # h
      BY <1>4, <2>2, BusyWorker, OthersRegistration
    <3>2. RegistrationOf(v)' = RegistrationOf(v)
      BY <1>1, <1>4 DEF RegistrationOf, queueVars
    <3>3. records'[RegistrationOf(v)] = records[RegistrationOf(v)]
      BY <1>3, <3>1
    <3>4. QED
      BY <1>1, <1>4, <2>2, <3>2, <3>3, ProgressStays
  <2>3. QED
    BY <2>1, <2>2
<1>5. RecordsKept
  <2> SUFFICES ASSUME NEW g \in Registrations, Checked(g) PROVE Checked(g)'
    BY DEF RecordsKept
  <2>1. CASE g = h
    BY <1>3, <2>1 DEF Checked
  <2>2. CASE g # h
    BY <1>3, <2>2 DEF Checked
  <2>3. QED
    BY <2>1, <2>2
<1>6. CompletedMeansChecked'
  BY <1>1, <1>5, CompletedStay DEF queueVars
<1>7. \A g \in Registrations : Len(records'[g]) <= direct'[g] + 1
  BY <1>3 DEF IInv, RecordsSound
<1>8. QED
  BY <1>1, <1>3, <1>4, <1>6, <1>7 DEF RecordsSound

(* A step that leaves the queue alone leaves each job alone. *)
LEMMA QueueStays ==
    ASSUME IInv, UNCHANGED queueVars
    PROVE  /\ QueueOK' /\ JobsKept /\ NoneAdded /\ JobsHeld
           /\ \A j \in JobId : jobs'[j].state = "completed" => jobs[j].state = "completed"
<1>1. QueueOK'
  BY QueueSound, QueueUnchanged
<1>2. jobs' = jobs
  BY DEF queueVars
<1>3. QED
  BY <1>1, <1>2 DEF JobsKept, NoneAdded, JobsHeld, Exists

-----------------------------------------------------------------------------
(* The steps of the API. *)

(* A new request is for a registration that has no job and no request. *)
LEMMA BeginStep ==
    ASSUME IInv, NEW q \in Requests, NEW g \in Registrations, NEW a \in Wallets,
           BeginRegistration(q, g, a)
    PROVE  IInv'
<1> USE DEF BeginRegistration
<1> DEFINE state == [step |-> "create_registration", registration |-> g, wallet |-> a]
<1>1. UNCHANGED <<queueVars, wallet, holders, records, worker, direct, faults>>
  OBVIOUS
<1>2. QueueOK' /\ Owned' /\ RecordsSound' /\ jobs' = jobs
  BY <1>1, QueueStays, HandlersStay DEF queueVars
<1>3. state \in RequestState
  BY DEF RequestState
<1>4. /\ request' \in [Requests -> RequestState \cup {Idle}]
      /\ request'[q] = state
      /\ \A p \in Requests : p # q => request'[p] = request[p]
  BY <1>3 DEF IInv, TypeOK
<1>5. \A j \in JobId : Exists(j) => jobs[j].data # g
  BY DEF IInv, OneJobEach, Registered
<1>6. ASSUME NEW p \in Requests, request'[p] # Idle
      PROVE  /\ request'[p].step = "add_job" => wallet[request'[p].registration] # NoWallet
             /\ \A j \in JobId : Exists(j) => jobs[j].data # request'[p].registration
             /\ \A r \in Requests :
                   request'[r].registration = request'[p].registration => r = p
  <2>1. CASE p = q
    BY <1>4, <1>5, <2>1
  <2>2. CASE p # q
    BY <1>4, <1>6, <2>2 DEF IInv, OneJobEach, Registered
  <2>3. QED
    BY <2>1, <2>2
<1>7. OneJobEach'
  BY <1>1, <1>2, <1>6 DEF IInv, OneJobEach, Registered, Exists
<1>8. QED
  BY <1>1, <1>2, <1>4, <1>7 DEF IInv, TypeOK, QueueOK

(* A request that is not idle is for a registration of its own. *)
LEMMA BusyRequest ==
    ASSUME IInv, NEW q \in Requests, request[q].step # "idle"
    PROVE  /\ request[q] # Idle
           /\ request[q] \in RequestState
           /\ request[q].registration \in Registrations
           /\ request[q].wallet # NoWallet
<1>1. request[q] # Idle
  BY DEF Idle
<1>2. request[q] \in RequestState
  BY <1>1 DEF IInv, TypeOK
<1>3. QED
  BY <1>1, <1>2, OnboardingAssumption DEF RequestState

LEMMA CreateStep ==
    ASSUME IInv, NEW q \in Requests, CreateRegistration(q) PROVE IInv'
<1> USE DEF CreateRegistration
<1> DEFINE g == request[q].registration
           state == [request[q] EXCEPT !.step = "add_job"]
<1>1. UNCHANGED <<queueVars, holders, records, worker, direct, faults>>
  OBVIOUS
<1>2. QueueOK' /\ Owned' /\ RecordsSound' /\ jobs' = jobs
  BY <1>1, QueueStays, HandlersStay DEF queueVars
<1>3. request[q] \in RequestState /\ g \in Registrations /\ request[q] # Idle
      /\ request[q].wallet # NoWallet /\ request[q].wallet \in Wallets
  BY BusyRequest DEF RequestState
<1>4. state \in RequestState /\ state.registration = g /\ state # Idle
  BY <1>3 DEF RequestState, Idle
<1>5. /\ request' \in [Requests -> RequestState \cup {Idle}]
      /\ request'[q] = state
      /\ \A p \in Requests : p # q => request'[p] = request[p]
  BY <1>4 DEF IInv, TypeOK
<1>6. /\ wallet' \in [Registrations -> Wallets \cup {NoWallet}]
      /\ wallet'[g] # NoWallet
      /\ \A h \in Registrations : wallet[h] # NoWallet => wallet'[h] # NoWallet
  BY <1>3 DEF IInv, TypeOK
<1> HIDE DEF state
<1>7. ASSUME NEW p \in Requests, request'[p] # Idle
      PROVE  /\ request'[p].step = "add_job" => wallet'[request'[p].registration] # NoWallet
             /\ \A j \in JobId : Exists(j) => jobs[j].data # request'[p].registration
             /\ \A r \in Requests :
                   request'[r].registration = request'[p].registration => r = p
  <2>1. request[p] # Idle /\ request'[p].registration = request[p].registration
        /\ request[p].registration \in Registrations
    BY <1>3, <1>4, <1>5, <1>7 DEF IInv, TypeOK, RequestState
  <2>2. \A r \in Requests : request'[r].registration = request[r].registration
    BY <1>4, <1>5
  <2>3. /\ request[p].step = "add_job" => wallet[request[p].registration] # NoWallet
        /\ \A j \in JobId : Exists(j) => jobs[j].data # request[p].registration
        /\ \A r \in Requests :
              request[r].registration = request[p].registration => r = p
    BY <2>1 DEF IInv, OneJobEach, Registered
  <2>4. request'[p].step = "add_job" => wallet'[request[p].registration] # NoWallet
    BY <1>5, <1>6, <2>1, <2>3
  <2>5. QED
    BY <2>1, <2>2, <2>3, <2>4
<1>8. \A j \in JobId : Exists(j) => jobs[j].data \in Registrations
  BY JobData
<1>9. OneJobEach'
  BY <1>1, <1>2, <1>6, <1>7, <1>8 DEF IInv, OneJobEach, Registered, Exists
<1>10. QED
  BY <1>1, <1>2, <1>5, <1>6, <1>9 DEF IInv, TypeOK, QueueOK

LEMMA AddStep == ASSUME IInv, NEW q \in Requests, AddJob(q) PROVE IInv'
<1> USE DEF AddJob
<1> DEFINE g == request[q].registration
           n == added + 1
<1>1. UNCHANGED <<wallet, holders, records, worker, direct, faults>>
  OBVIOUS
<1>2. request[q] # Idle /\ g \in Registrations
  BY BusyRequest
<1>3. /\ QueueOK' /\ n \in JobId /\ jobs[n].state = "none" /\ jobs'[n].data = g
      /\ \A j \in JobId : j # n => jobs'[j] = jobs[j]
  BY <1>2, QueueSound, EnqueueOK, OnboardingAssumption
<1>4. jobs'[n].state = "waiting"
  BY <1>3 DEF Enqueue, IInv, TypeOK, QueueTypeOK
<1>5. JobsKept /\ JobsHeld
  <2>1. JobsKept
    BY <1>3 DEF JobsKept, Exists
  <2>2. \A v \in Workers : worker[v] # Resting => worker[v].job \in JobId /\ worker[v].job # n
    BY <1>3, IdleWorker, BusyWorker DEF Exists
  <2>3. QED
    BY <1>3, <2>1, <2>2 DEF JobsHeld
<1>6. Owned' /\ RecordsSound'
  BY <1>1, <1>3, <1>4, <1>5, HandlersStay
<1>7. /\ request' \in [Requests -> RequestState \cup {Idle}]
      /\ request'[q] = Idle
      /\ \A p \in Requests : p # q => request'[p] = request[p]
  BY DEF IInv, TypeOK
<1>8. /\ \A j \in JobId : jobs'[j].state # "none" => wallet'[jobs'[j].data] # NoWallet
      /\ \A i, j \in JobId :
            jobs'[i].state # "none" /\ jobs'[j].state # "none" /\ jobs'[i].data = jobs'[j].data
                => i = j
  <2>1. wallet[g] # NoWallet /\ \A j \in JobId : Exists(j) => jobs[j].data # g
    BY <1>2 DEF IInv, OneJobEach, Registered
  <2>2. ASSUME NEW j \in JobId, jobs'[j].state # "none", j # n
        PROVE  /\ jobs'[j] = jobs[j] /\ Exists(j)
               /\ wallet[jobs[j].data] # NoWallet /\ jobs[j].data # g
    BY <1>3, <2>1, <2>2 DEF IInv, OneJobEach, Registered, Exists
  <2>3. \A i, j \in JobId : Exists(i) /\ Exists(j) /\ jobs[i].data = jobs[j].data => i = j
    BY DEF IInv, OneJobEach
  <2>4. \A j \in JobId : jobs'[j].state # "none" => wallet'[jobs'[j].data] # NoWallet
    BY <1>1, <1>3, <2>1, <2>2
  <2>5. ASSUME NEW i \in JobId, NEW j \in JobId, jobs'[i].state # "none",
               jobs'[j].state # "none", jobs'[i].data = jobs'[j].data
        PROVE  i = j
    <3>1. CASE i = n \/ j = n
      BY <1>3, <2>2, <2>5, <3>1
    <3>2. CASE i # n /\ j # n
      BY <2>2, <2>3, <2>5, <3>2
    <3>3. QED
      BY <3>1, <3>2
  <2>6. QED
    BY <2>4, <2>5
<1>9. ASSUME NEW p \in Requests, request'[p] # Idle
      PROVE  /\ request'[p].step = "add_job" => wallet'[request'[p].registration] # NoWallet
             /\ \A j \in JobId : jobs'[j].state # "none" =>
                                     jobs'[j].data # request'[p].registration
             /\ \A r \in Requests :
                   request'[r].registration = request'[p].registration => r = p
  <2>1. p # q /\ request'[p] = request[p] /\ request[p] # Idle
        /\ request[p] \in RequestState
    BY <1>7, <1>9 DEF IInv, TypeOK
  <2>2. request[p].registration # g /\ request[p].registration # NoRegistration
    BY <1>2, <2>1, OnboardingAssumption DEF IInv, OneJobEach, RequestState
  <2>3. /\ request[p].step = "add_job" => wallet[request[p].registration] # NoWallet
        /\ \A j \in JobId : Exists(j) => jobs[j].data # request[p].registration
        /\ \A r \in Requests :
              request[r].registration = request[p].registration => r = p
    BY <2>1 DEF IInv, OneJobEach, Registered
  <2>4. \A r \in Requests :
           request'[r].registration = request[p].registration => r = p
    BY <1>7, <2>2, <2>3 DEF Idle
  <2>5. \A j \in JobId : jobs'[j].state # "none" => jobs'[j].data # request[p].registration
    BY <1>3, <2>2, <2>3 DEF Exists
  <2>6. QED
    BY <1>1, <2>1, <2>3, <2>4, <2>5
<1>10. OneJobEach'
  BY <1>8, <1>9 DEF OneJobEach, Registered, Exists
<1>11. QED
  BY <1>1, <1>3, <1>6, <1>7, <1>10 DEF IInv, TypeOK, QueueOK

(* A request that fails, and an account that is opened, touch no record. *)
LEMMA QuietStep ==
    ASSUME IInv, \/ \E q \in Requests : RequestFails(q)
                 \/ \E a \in Wallets : OpenAccount(a)
    PROVE  IInv'
<1>1. /\ UNCHANGED <<queueVars, wallet, records, worker, direct>>
      /\ holders' \in SUBSET Wallets /\ faults' \in 0..MaxFaults
      /\ request' \in [Requests -> RequestState \cup {Idle}]
      /\ \A q \in Requests : request'[q] = request[q] \/ request'[q] = Idle
  <2>1. ASSUME NEW q \in Requests, RequestFails(q) PROVE <1>1!:
    BY <2>1, OnboardingAssumption DEF RequestFails, IInv, TypeOK
  <2>2. ASSUME NEW a \in Wallets, OpenAccount(a) PROVE <1>1!:
    BY <2>2 DEF OpenAccount, IInv, TypeOK
  <2>3. QED
    BY <2>1, <2>2
<1>2. QueueOK' /\ Owned' /\ RecordsSound' /\ JobsKept /\ NoneAdded
  BY <1>1, QueueStays, HandlersStay
<1>3. OneJobEach'
  BY <1>1, <1>2, RegistryStays
<1>4. QED
  BY <1>1, <1>2, <1>3 DEF IInv, TypeOK, QueueOK

LEMMA NewRecordOK == NewRecord \in Record
<1>1. 0 \in 0..Checks
  BY OnboardingAssumption
<1>2. QED
  BY <1>1 DEF NewRecord, Record

(* A record that is posted comes after those that are there. *)
LEMMA PostStep ==
    ASSUME IInv, NEW g \in Registrations, PostRecord(g) PROVE IInv'
<1> USE DEF PostRecord
<1> DEFINE more == Append(records[g], NewRecord)
<1>1. UNCHANGED <<queueVars, wallet, holders, request, worker, faults>>
  OBVIOUS
<1>2. QueueOK' /\ JobsKept /\ NoneAdded /\ JobsHeld /\ jobs' = jobs
  BY <1>1, QueueStays DEF queueVars
<1>3. Owned' /\ OneJobEach'
  BY <1>1, <1>2, WorkersStay, RegistryStays
<1>4. NewRecord \in Record /\ records[g] \in Seq(Record)
  BY NewRecordOK DEF IInv, TypeOK
<1>5. /\ more \in Seq(Record) /\ Len(more) = Len(records[g]) + 1
      /\ \A i \in DOMAIN records[g] : i \in DOMAIN more /\ more[i] = records[g][i]
  BY <1>4, AppendProperties, LenProperties
<1> HIDE DEF more
<1>6. /\ records' \in [Registrations -> Seq(Record)]
      /\ direct' \in [Registrations -> 0..MaxDirect]
      /\ records'[g] = more /\ direct'[g] = direct[g] + 1
      /\ \A h \in Registrations : h # g => records'[h] = records[h] /\ direct'[h] = direct[h]
  BY <1>5, OnboardingAssumption DEF more, IInv, TypeOK
<1>7. \A h \in Registrations : /\ Len(records[h]) \in Nat /\ direct[h] \in Nat
                               /\ Len(records[h]) <= direct[h] + 1
  BY LenProperties, OnboardingAssumption DEF IInv, TypeOK, RecordsSound
<1>8. \A h \in Registrations : Len(records'[h]) <= direct'[h] + 1
  BY <1>5, <1>6, <1>7
<1>9. ASSUME NEW w \in Workers PROVE Progress(w)'
  <2>1. CASE worker[w].step = "idle"
    BY <2>1, RestingProgress
  <2>2. CASE worker[w].step # "idle"
    <3>1. RegistrationOf(w)' = RegistrationOf(w) /\ RegistrationOf(w) \in Registrations
      BY <1>2, <2>2, BusyWorker DEF RegistrationOf
    <3>2. Progress(w)
      BY DEF IInv, RecordsSound
    <3>3. CASE RegistrationOf(w) # g
      BY <1>6, <2>2, <3>1, <3>3, ProgressStays
    <3>4. CASE RegistrationOf(w) = g
      <4>1. worker' = worker
        OBVIOUS
      <4>2. RegistrationOf(w) = g /\ RegistrationOf(w)' = g
        BY <3>1, <3>4
      <4> HIDE DEF PostRecord
      <4>3. /\ worker[w].step = "create_record" => Len(records[g]) <= direct[g]
            /\ worker[w].step = "link_checklist" =>
                  /\ worker[w].record \in DOMAIN records[g]
                  /\ records[g][worker[w].record] = NewRecord
            /\ worker[w].step = "queue_checks" =>
                  /\ worker[w].record \in DOMAIN records[g]
                  /\ records[g][worker[w].record].linked
                  /\ records[g][worker[w].record].queued < Checks
            /\ worker[w].step = "log" =>
                  /\ worker[w].record \in DOMAIN records[g]
                  /\ records[g][worker[w].record] = [linked |-> TRUE, queued |-> Checks]
        BY <3>2, <4>2 DEF Progress
      <4>4. Len(records[g]) <= direct[g] => Len(records'[g]) <= direct'[g]
        BY <1>5, <1>6, <1>7
      <4>5. \A i \in DOMAIN records[g] : i \in DOMAIN records'[g] /\ records'[g][i] = records[g][i]
        BY <1>5, <1>6
      <4>6. QED
        BY <4>1, <4>2, <4>3, <4>4, <4>5 DEF Progress
    <3>5. QED
      BY <3>3, <3>4
  <2>3. QED
    BY <2>1, <2>2
<1>10. RecordsKept
  <2> SUFFICES ASSUME NEW h \in Registrations, Checked(h) PROVE Checked(h)'
    BY DEF RecordsKept
  <2>1. CASE h = g
    BY <1>5, <1>6, <2>1 DEF Checked
  <2>2. CASE h # g
    BY <1>6, <2>2 DEF Checked
  <2>3. QED
    BY <2>1, <2>2
<1>11. CompletedMeansChecked'
  BY <1>2, <1>10, CompletedStay
<1>12. QED
  BY <1>1, <1>2, <1>3, <1>6, <1>8, <1>9, <1>11 DEF IInv, TypeOK, QueueOK, RecordsSound

-----------------------------------------------------------------------------
(* The steps of the processor. *)
LEMMA TakeStep == ASSUME IInv, NEW w \in Workers, Take(w) PROVE IInv'
<1>1. PICK j \in JobId :
         /\ TakeJob(j)
         /\ worker' = [worker EXCEPT ![w] = [step |-> "look", job |-> j, record |-> 0]]
  BY DEF Take
<1> DEFINE busy == [step |-> "look", job |-> j, record |-> 0]
<1>2. /\ QueueOK' /\ jobs[j].state = "waiting" /\ jobs[j] \in Job
      /\ jobs'[j].state = "active" /\ jobs'[j].data = jobs[j].data
      /\ \A i \in JobId : i # j => jobs'[i] = jobs[i]
  <2>1. /\ QueueOK' /\ jobs[j].state = "waiting" /\ jobs[j] \in Job
        /\ jobs'[j].state = "active" /\ jobs'[j].data = jobs[j].data
        /\ jobs' = [jobs EXCEPT ![j].state = "active"]
    BY <1>1, QueueSound, TakeJobOK
  <2>2. QED
    BY <2>1 DEF IInv, TypeOK, QueueTypeOK
<1>3. busy \in WorkerState /\ busy.job = j /\ busy.step = "look" /\ j # 0
  <2>1. j # 0
    BY QueueAssumption DEF JobId
  <2>2. QED
    BY <2>1 DEF WorkerState
<1> HIDE DEF busy
<1>4. /\ worker' \in [Workers -> WorkerState \cup {Resting}]
      /\ worker'[w] = busy
      /\ \A v \in Workers : v # w => worker'[v] = worker[v]
  BY <1>1, <1>3 DEF IInv, TypeOK, busy
<1>5. \A v \in Workers : worker[v].job # j
  BY <1>2, <1>3, IdleWorker, BusyWorker DEF Resting
<1>6. ASSUME NEW v \in Workers, worker'[v] # Resting
      PROVE  /\ jobs'[worker'[v].job].state = "active"
             /\ \A u \in Workers : worker'[u].job = worker'[v].job => u = v
  <2>1. CASE v = w
    BY <1>2, <1>3, <1>4, <1>5, <2>1
  <2>2. CASE v # w
    <3>1. worker'[v] = worker[v] /\ worker[v].step # "idle"
      BY <1>4, <1>6, <2>2, IdleWorker
    <3>2. /\ worker[v].job \in JobId /\ jobs[worker[v].job].state = "active"
          /\ \A u \in Workers : worker[u].job = worker[v].job => u = v
      BY <3>1, BusyWorker
    <3>3. QED
      BY <1>2, <1>3, <1>4, <1>5, <3>1, <3>2
  <2>3. QED
    BY <2>1, <2>2
<1>7. Owned'
  BY <1>6 DEF Owned
<1>8. JobsKept /\ NoneAdded
  BY <1>2 DEF JobsKept, NoneAdded, Exists
<1>9. UNCHANGED <<wallet, holders, request, records, direct, faults>>
  BY DEF Take
<1>10. OneJobEach'
  BY <1>8, <1>9, RegistryStays
<1>11. Progress(w)'
  BY <1>3, <1>4 DEF Progress
<1>12. ASSUME NEW v \in Workers, v # w, worker[v].step # "idle"
       PROVE  RegistrationOf(v)' = RegistrationOf(v)
  <2>1. worker[v].job \in JobId /\ worker'[v] = worker[v]
    BY <1>4, <1>12, BusyWorker
  <2>2. QED
    BY <1>2, <1>5, <2>1 DEF RegistrationOf
<1>13. RecordsSound'
  BY <1>2, <1>4, <1>8, <1>9, <1>11, <1>12, OneWorkerMoves
<1>14. QED
  BY <1>2, <1>4, <1>7, <1>9, <1>10, <1>13 DEF IInv, TypeOK, QueueOK

(* A handler that ends: it completes its job only with the checks queued. *)
LEMMA EndStep ==
    ASSUME IInv, NEW w \in Workers, worker[w].step # "idle",
           \/ FailAttempt(worker[w].job)
           \/ CompleteJob(worker[w].job) /\ Checked(RegistrationOf(w)),
           worker' = [worker EXCEPT ![w] = Resting],
           UNCHANGED <<wallet, request, records, direct>>
    PROVE  /\ QueueOK' /\ Owned' /\ OneJobEach' /\ RecordsSound'
           /\ worker' \in [Workers -> WorkerState \cup {Resting}]
<1> DEFINE j == worker[w].job
<1>1. /\ j \in JobId /\ jobs[j].state = "active" /\ Exists(j)
      /\ RegistrationOf(w) \in Registrations
  BY BusyWorker
<1>2. /\ QueueOK'
      /\ jobs'[j].state \in {"completed", "delayed", "failed"}
      /\ jobs'[j].data = jobs[j].data
      /\ \A i \in JobId : i # j => jobs'[i] = jobs[i]
  BY <1>1, QueueSound, FinishJobOK
<1>3. jobs'[j].state = "completed" => Checked(RegistrationOf(w))
  <2>1. CASE FailAttempt(j)
    <3>1. jobs[j] \in Job
      BY <1>1, JobData
    <3>2. jobs'[j].state # "completed"
      BY <1>1, <2>1, <3>1 DEF FailAttempt, IInv, TypeOK, QueueTypeOK, Job
    <3>3. QED
      BY <3>2
  <2>2. QED
    BY <2>1
<1>4. JobsKept /\ NoneAdded
  BY <1>1, <1>2 DEF JobsKept, NoneAdded, Exists
<1>5. /\ Owned'
      /\ worker' \in [Workers -> WorkerState \cup {Resting}]
      /\ worker'[w] = Resting
      /\ \A v \in Workers : v # w => /\ worker'[v] = worker[v]
                                     /\ worker[v].step # "idle" =>
                                           RegistrationOf(v)' = RegistrationOf(v)
  BY <1>2, WorkerRests
<1>6. OneJobEach'
  BY <1>4, RegistryStays
<1>7. Progress(w)'
  BY <1>5 DEF Progress, Resting
<1>8. jobs'[j].state = "completed" =>
         \E g \in Registrations : jobs[j].data = g /\ Checked(g)'
  BY <1>1, <1>3 DEF RegistrationOf, Checked
<1>9. RecordsSound'
  BY <1>1, <1>2, <1>4, <1>5, <1>7, <1>8, OneWorkerMoves
<1>10. QED
  BY <1>2, <1>5, <1>6, <1>9

(* The look-up lets an attempt go on when there is no record at all. *)
LEMMA LookStep == ASSUME IInv, NEW w \in Workers, Look(w) PROVE IInv'
<1>1. UNCHANGED <<wallet, holders, request, records, direct, faults>>
      /\ worker[w].step # "idle"
  BY DEF Look
<1>2. CASE Throw(w)
  BY <1>1, <1>2, EndStep DEF Throw, IInv, TypeOK, QueueOK
<1>3. CASE /\ records[RegistrationOf(w)] = <<>>
           /\ worker' = [worker EXCEPT ![w].step = "create_record"]
           /\ UNCHANGED queueVars
  <2> DEFINE state == [worker[w] EXCEPT !.step = "create_record"]
  <2>1. worker[w] \in WorkerState /\ RegistrationOf(w) \in Registrations
    BY <1>1, BusyWorker
  <2>2. /\ state \in WorkerState /\ state.job = worker[w].job
        /\ state.step = "create_record"
    BY <2>1 DEF WorkerState
  <2>3. worker' = [worker EXCEPT ![w] = state]
    BY <1>3
  <2> HIDE DEF state
  <2>4. /\ QueueOK' /\ Owned' /\ JobsKept /\ NoneAdded
        /\ worker' \in [Workers -> WorkerState \cup {Resting}]
        /\ RegistrationOf(w)' = RegistrationOf(w)
        /\ worker'[w] = state
        /\ \A v \in Workers : v # w => worker'[v] = worker[v]
    BY <1>1, <1>3, <2>2, <2>3, WorkerProceeds
  <2>5. PICK g \in Registrations : g = RegistrationOf(w)
    BY <2>1
  <2>6. Progress(w)'
    <3>1. records'[g] = <<>> /\ direct'[g] \in Nat
      <4>1. direct[g] \in Nat
        BY OnboardingAssumption DEF IInv, TypeOK
      <4>2. records[g] = <<>>
        BY <1>3, <2>5
      <4>3. QED
        BY <1>1, <4>1, <4>2
    <3>2. Len(records'[g]) <= direct'[g]
      BY <3>1
    <3>3. QED
      BY <2>2, <2>4, <2>5, <3>2 DEF Progress
  <2>7. jobs' = jobs
    BY <1>3 DEF queueVars
  <2>8. \A v \in Workers : v # w => RegistrationOf(v)' = RegistrationOf(v)
    BY <2>4, <2>7 DEF RegistrationOf
  <2>9. RecordsSound'
    BY <1>1, <2>4, <2>6, <2>7, <2>8, OneWorkerMoves
  <2>10. OneJobEach'
    BY <1>1, <2>4, RegistryStays
  <2>11. QED
    BY <1>1, <2>4, <2>9, <2>10 DEF IInv, TypeOK, QueueOK
<1>4. QED
  BY <1>2, <1>3 DEF Look

(* The first record of the processor: only its own attempt makes one. *)
LEMMA CreateRecordStep == ASSUME IInv, NEW w \in Workers, CreateRecord(w) PROVE IInv'
<1>1. UNCHANGED <<queueVars, wallet, holders, request, direct, faults>>
      /\ worker[w].step = "create_record"
  BY DEF CreateRecord
<1>2. worker[w] \in WorkerState
  BY <1>1, BusyWorker
<1>3. PICK g \in Registrations : g = RegistrationOf(w)
  BY <1>1, BusyWorker
<1> DEFINE mine == Append(records[g], NewRecord)
           state == [worker[w] EXCEPT !.step = "link_checklist", !.record = Len(records[g]) + 1]
<1>4. /\ records[g] \in Seq(Record) /\ Len(records[g]) \in Nat
      /\ direct[g] \in Nat /\ Len(records[g]) <= direct[g]
  <2>1. Progress(w)
    BY DEF IInv, RecordsSound
  <2>2. Len(records[g]) <= direct[g]
    BY <1>1, <1>3, <2>1 DEF Progress
  <2>3. records[g] \in Seq(Record) /\ direct[g] \in 0..MaxDirect
    BY DEF IInv, TypeOK
  <2>4. QED
    BY <2>2, <2>3, LenProperties, OnboardingAssumption
<1>5. /\ mine \in Seq(Record) /\ Len(mine) = Len(records[g]) + 1
      /\ mine[Len(mine)] = NewRecord
      /\ \A i \in DOMAIN records[g] : i \in DOMAIN mine /\ mine[i] = records[g][i]
      /\ Len(mine) \in DOMAIN mine
  <2>1. /\ mine \in Seq(Record) /\ Len(mine) = Len(records[g]) + 1
        /\ mine[Len(records[g]) + 1] = NewRecord
        /\ \A i \in 1..Len(records[g]) : mine[i] = records[g][i]
    BY <1>4, NewRecordOK, AppendProperties
  <2> HIDE DEF mine
  <2>2. DOMAIN mine = 1..Len(mine) /\ DOMAIN records[g] = 1..Len(records[g])
    BY <1>4, <2>1, LenProperties
  <2>3. QED
    BY <1>4, <2>1, <2>2
<1>6. /\ state \in WorkerState /\ state.job = worker[w].job
      /\ state.step = "link_checklist" /\ state.record = Len(mine)
  <2>1. Len(records[g]) + 1 \in Nat
    BY <1>4
  <2>2. QED
    BY <1>2, <1>5, <2>1 DEF WorkerState
<1>7. worker' = [worker EXCEPT ![w] = state] /\ records' = [records EXCEPT ![g] = mine]
  BY <1>2, <1>3 DEF CreateRecord
<1> HIDE DEF mine, state
<1>8. Progress(w)'
  <2>1. RegistrationOf(w)' = g /\ worker'[w] = state
    BY <1>1, <1>3, <1>6, <1>7, WorkerProceeds
  <2>2. records'[g] = mine
    BY <1>7 DEF IInv, TypeOK
  <2>3. QED
    BY <1>5, <1>6, <2>1, <2>2 DEF Progress
<1>9. Len(mine) <= direct[g] + 1
  BY <1>4, <1>5
<1>10. /\ QueueOK' /\ Owned' /\ JobsKept /\ NoneAdded
       /\ worker' \in [Workers -> WorkerState \cup {Resting}]
       /\ records' \in [Registrations -> Seq(Record)]
       /\ RecordsSound'
  BY <1>1, <1>3, <1>5, <1>6, <1>7, <1>8, <1>9, OneWorkerWrites
<1>11. OneJobEach'
  BY <1>1, <1>10, RegistryStays
<1>12. QED
  BY <1>1, <1>10, <1>11 DEF IInv, TypeOK, QueueOK

(* A worker writes its own record, which still lacked something. *)
LEMMA RecordWritten ==
    ASSUME IInv, NEW w \in Workers, worker[w].step # "idle",
           NEW g \in Registrations, g = RegistrationOf(w),
           NEW i, i = worker[w].record, i \in DOMAIN records[g],
           records[g][i].queued < Checks,
           NEW rec \in Record, NEW to \in {"queue_checks", "log"},
           records' = [records EXCEPT ![g] = [records[g] EXCEPT ![i] = rec]],
           worker' = [worker EXCEPT ![w].step = to],
           rec.linked = TRUE,
           IF to = "log" THEN rec.queued = Checks ELSE rec.queued < Checks,
           UNCHANGED <<queueVars, wallet, holders, request, direct, faults>>
    PROVE  IInv'
<1> DEFINE mine == [records[g] EXCEPT ![i] = rec]
           state == [worker[w] EXCEPT !.step = to]
<1>1. /\ records[g] \in Seq(Record) /\ Len(records[g]) \in Nat
      /\ DOMAIN records[g] = 1..Len(records[g])
      /\ direct[g] \in Nat /\ Len(records[g]) <= direct[g] + 1
  <2>1. records[g] \in Seq(Record) /\ direct[g] \in 0..MaxDirect
        /\ Len(records[g]) <= direct[g] + 1
    BY DEF IInv, TypeOK, RecordsSound
  <2>2. QED
    BY <2>1, LenProperties, OnboardingAssumption
<1>2. /\ mine \in Seq(Record) /\ Len(mine) = Len(records[g]) /\ DOMAIN mine = DOMAIN records[g]
      /\ mine[i] = rec
      /\ \A k \in DOMAIN records[g] : k # i => mine[k] = records[g][k]
  BY <1>1, ExceptSeq, LenProperties
<1>3. state \in WorkerState /\ state.job = worker[w].job /\ state.step = to /\ state.record = i
  <2>1. worker[w] \in WorkerState
    BY BusyWorker
  <2>2. QED
    BY <2>1 DEF WorkerState
<1>4. worker' = [worker EXCEPT ![w] = state] /\ records' = [records EXCEPT ![g] = mine]
  OBVIOUS
<1> HIDE DEF mine, state
<1>5. \A k \in DOMAIN records[g] :
         records[g][k] = [linked |-> TRUE, queued |-> Checks] =>
             k \in DOMAIN mine /\ mine[k] = records[g][k]
  <2> SUFFICES ASSUME NEW k \in DOMAIN records[g],
                      records[g][k] = [linked |-> TRUE, queued |-> Checks]
               PROVE  k \in DOMAIN mine /\ mine[k] = records[g][k]
    OBVIOUS
  <2>1. records[g][k].queued = Checks
    OBVIOUS
  <2>2. k # i
    BY <2>1, OnboardingAssumption
  <2>3. QED
    BY <1>2, <2>2
<1>6. Progress(w)'
  <2>1. RegistrationOf(w)' = g /\ worker'[w] = state
    BY <1>3, <1>4, WorkerProceeds
  <2>2. records'[g] = mine
    BY <1>4 DEF IInv, TypeOK
  <2>3. to = "log" => rec = [linked |-> TRUE, queued |-> Checks]
    BY DEF Record
  <2>4. to = "queue_checks" => rec.queued < Checks
    OBVIOUS
  <2>5. QED
    BY <1>2, <1>3, <2>1, <2>2, <2>3, <2>4 DEF Progress
<1>7. Len(mine) <= direct[g] + 1
  BY <1>1, <1>2
<1>8. /\ QueueOK' /\ Owned' /\ JobsKept /\ NoneAdded
      /\ worker' \in [Workers -> WorkerState \cup {Resting}]
      /\ records' \in [Registrations -> Seq(Record)]
      /\ RecordsSound'
  BY <1>2, <1>3, <1>4, <1>5, <1>6, <1>7, OneWorkerWrites
<1>9. OneJobEach'
  BY <1>8, RegistryStays
<1>10. QED
  BY <1>8, <1>9 DEF IInv, TypeOK, QueueOK

LEMMA LinkStep == ASSUME IInv, NEW w \in Workers, LinkChecklist(w) PROVE IInv'
<1>1. UNCHANGED <<queueVars, wallet, holders, request, direct, faults>>
      /\ worker[w].step = "link_checklist"
      /\ worker' = [worker EXCEPT ![w].step = "queue_checks"]
  BY DEF LinkChecklist
<1>2. PICK g \in Registrations : g = RegistrationOf(w)
  BY <1>1, BusyWorker
<1> DEFINE i == worker[w].record
           rec == [records[g][i] EXCEPT !.linked = TRUE]
<1>3. i \in DOMAIN records[g] /\ records[g][i] = NewRecord
  <2>1. Progress(w)
    BY DEF IInv, RecordsSound
  <2>2. QED
    BY <1>1, <1>2, <2>1 DEF Progress
<1>4. 0 < Checks /\ records[g][i] \in Record /\ records[g][i].queued = 0
  BY <1>3, NewRecordOK, OnboardingAssumption DEF NewRecord
<1>5. rec \in Record /\ rec.linked = TRUE /\ rec.queued = 0
  BY <1>4 DEF Record
<1>6. records' = [records EXCEPT ![g] = [records[g] EXCEPT ![i] = rec]]
  BY <1>2 DEF LinkChecklist
<1> HIDE DEF rec
<1>7. QED
  BY <1>1, <1>2, <1>3, <1>4, <1>5, <1>6, RecordWritten

LEMMA QueueCheckStep == ASSUME IInv, NEW w \in Workers, QueueCheck(w) PROVE IInv'
<1>1. UNCHANGED <<queueVars, wallet, holders, request, direct, faults>>
      /\ worker[w].step = "queue_checks"
  BY DEF QueueCheck
<1>2. PICK g \in Registrations : g = RegistrationOf(w)
  BY <1>1, BusyWorker
<1> DEFINE i == worker[w].record
           rec == [records[g][i] EXCEPT !.queued = @ + 1]
           to == IF rec.queued = Checks THEN "log" ELSE "queue_checks"
<1>3. i \in DOMAIN records[g] /\ records[g][i].linked /\ records[g][i].queued < Checks
  <2>1. Progress(w)
    BY DEF IInv, RecordsSound
  <2>2. QED
    BY <1>1, <1>2, <2>1 DEF Progress
<1>4. records[g][i] \in Record
  BY <1>3, ElementOfSeq, LenProperties DEF IInv, TypeOK
<1>5. records[g][i].queued + 1 \in 0..Checks
  BY <1>3, <1>4, OnboardingAssumption DEF Record
<1>6. rec \in Record /\ rec.linked /\ rec.queued = records[g][i].queued + 1
  BY <1>3, <1>4, <1>5 DEF Record
<1>7. records' = [records EXCEPT ![g] = [records[g] EXCEPT ![i] = rec]]
  BY <1>2 DEF QueueCheck
<1>8. records'[g][i] = rec
  BY <1>3, <1>7 DEF IInv, TypeOK
<1>9. worker' = [worker EXCEPT ![w].step = to]
  BY <1>1, <1>2, <1>8 DEF QueueCheck
<1>10. IF to = "log" THEN rec.queued = Checks ELSE rec.queued < Checks
  BY <1>5, <1>6, OnboardingAssumption
<1>11. rec.linked = TRUE /\ to \in {"queue_checks", "log"}
  BY <1>6 DEF Record
<1> HIDE DEF rec, to
<1>12. QED
  BY <1>1, <1>2, <1>3, <1>6, <1>7, <1>9, <1>10, <1>11, RecordWritten

LEMMA ReturnStep == ASSUME IInv, NEW w \in Workers, LogAndReturn(w) PROVE IInv'
<1>1. UNCHANGED <<wallet, holders, request, records, direct, faults>>
      /\ worker[w].step = "log"
  BY DEF LogAndReturn
<1>2. PICK g \in Registrations : g = RegistrationOf(w)
  BY <1>1, BusyWorker
<1>3. Checked(g)
  <2>1. Progress(w)
    BY DEF IInv, RecordsSound
  <2>2. QED
    BY <1>1, <1>2, <2>1 DEF Progress, Checked
<1>4. QED
  BY <1>1, <1>2, <1>3, EndStep DEF LogAndReturn, IInv, TypeOK, QueueOK

LEMMA FaultStep ==
    ASSUME IInv, NEW w \in Workers, OperationFails(w) \/ WorkerDies(w) PROVE IInv'
<1>1. /\ UNCHANGED <<wallet, holders, request, records, direct>>
      /\ worker[w].step # "idle"
      /\ worker' = [worker EXCEPT ![w] = Resting]
      /\ faults' \in 0..MaxFaults
  BY IdleWorker, OnboardingAssumption
     DEF OperationFails, WorkerDies, Throw, IInv, TypeOK
<1>2. CASE OperationFails(w)
  BY <1>1, <1>2, EndStep DEF OperationFails, Throw, IInv, TypeOK, QueueOK
<1>3. CASE WorkerDies(w)
  <2>1. QueueOK' /\ JobsKept /\ NoneAdded /\ jobs' = jobs
    BY <1>3, QueueStays DEF WorkerDies, queueVars
  <2>2. /\ Owned'
        /\ worker' \in [Workers -> WorkerState \cup {Resting}]
        /\ worker'[w] = Resting
        /\ \A v \in Workers : v # w => /\ worker'[v] = worker[v]
                                       /\ worker[v].step # "idle" =>
                                             RegistrationOf(v)' = RegistrationOf(v)
    BY <1>1, <2>1, WorkerRests
  <2>3. OneJobEach'
    BY <1>1, <2>1, RegistryStays
  <2>4. Progress(w)'
    BY <2>2 DEF Progress, Resting
  <2>5. RecordsSound'
    BY <1>1, <2>1, <2>2, <2>4, OneWorkerMoves
  <2>6. QED
    BY <1>1, <2>1, <2>2, <2>3, <2>5 DEF IInv, TypeOK, QueueOK
<1>4. QED
  BY <1>2, <1>3

(* A job that comes back is no worker's, so no worker notices. *)
LEMMA ComeBackStep ==
    ASSUME IInv, NEW j \in JobId, Retry(j) \/ Recover(j) PROVE IInv'
<1>1. UNCHANGED <<wallet, holders, request, records, worker, direct, faults>>
  BY DEF Retry, Recover
<1>2. /\ QueueOK' /\ jobs'[j].data = jobs[j].data
      /\ jobs[j].state # "none" /\ jobs'[j].state # "none"
      /\ \A i \in JobId : i # j => jobs'[i] = jobs[i]
  BY QueueSound, PromoteOK, RecoverOK DEF Retry, Recover
<1>3. \A v \in Workers : worker[v] # Resting => worker[v].job # j
  BY QueueSound, PromoteOK, IdleWorker, BusyWorker DEF Retry, Recover
<1>4. JobsHeld
  BY <1>2, <1>3, IdleWorker, BusyWorker DEF JobsHeld
<1>5. JobsKept /\ NoneAdded
  BY <1>2 DEF JobsKept, NoneAdded, Exists
<1>6. jobs'[j].state # "completed"
  <2>1. jobs[j] \in Job
    BY <1>2, JobData DEF Exists
  <2>2. QED
    BY <2>1 DEF Retry, Recover, PromoteDelayed, RecoverStalled, IInv, TypeOK, QueueTypeOK, Job
<1>7. Owned' /\ RecordsSound'
  BY <1>1, <1>2, <1>4, <1>5, <1>6, HandlersStay
<1>8. OneJobEach'
  BY <1>1, <1>5, RegistryStays
<1>9. QED
  BY <1>1, <1>2, <1>7, <1>8 DEF IInv, TypeOK, QueueOK

-----------------------------------------------------------------------------
LEMMA InitOK == Init => IInv
<1> SUFFICES ASSUME Init PROVE IInv
  OBVIOUS
<1> USE OnboardingAssumption DEF Init
<1>1. QueueOK
  BY QueueInitOK
<1>2. TypeOK
  <2>1. records \in [Registrations -> Seq(Record)]
    BY EmptySeq
  <2>2. QED
    BY <1>1, <2>1 DEF TypeOK, QueueOK
<1>3. Owned /\ OneJobEach
  BY DEF Owned, OneJobEach, Exists, QueueInit, NoJob
<1>4. RecordsSound
  <2>1. \A g \in Registrations : Len(records[g]) <= direct[g] + 1
    BY EmptySeq
  <2>2. \A w \in Workers : Progress(w)
    BY DEF Progress, Resting
  <2>3. CompletedMeansChecked
    BY DEF CompletedMeansChecked, QueueInit, NoJob
  <2>4. QED
    BY <2>1, <2>2, <2>3 DEF RecordsSound
<1>5. QED
  BY <1>1, <1>2, <1>3, <1>4 DEF IInv, QueueOK

LEMMA StepOK == IInv /\ [Next]_vars => IInv'
<1> SUFFICES ASSUME IInv, [Next]_vars PROVE IInv'
  OBVIOUS
<1>1. CASE UNCHANGED vars
  <2>1. /\ UNCHANGED queueVars
        /\ UNCHANGED <<wallet, holders, request, records, worker, direct, faults>>
    BY <1>1 DEF vars, queueVars
  <2>2. QueueOK' /\ JobsKept /\ NoneAdded /\ Owned' /\ RecordsSound'
    BY <2>1, QueueStays, HandlersStay
  <2>3. OneJobEach'
    BY <2>1, <2>2, RegistryStays
  <2>4. QED
    BY <2>1, <2>2, <2>3 DEF IInv, TypeOK, QueueOK
<1>2. ASSUME NEW w \in Workers, HandlerStep(w) PROVE IInv'
  BY <1>2, TakeStep, LookStep, CreateRecordStep, LinkStep, QueueCheckStep, ReturnStep
     DEF HandlerStep
<1>3. QED
  BY <1>1, <1>2, BeginStep, CreateStep, AddStep, QuietStep, PostStep, FaultStep,
     ComeBackStep DEF Next, ApiStep

LEMMA InvariantHolds == Spec => []IInv
BY InitOK, StepOK, PTL DEF Spec

(* Registrations, requests, records and handlers keep their types, for any *)
(* number of each, and the queue keeps its jobs in order.                  *)
THEOREM TypeCorrect == Spec => []TypeOK
<1>1. IInv => TypeOK
  BY DEF IInv
<1>2. QED
  BY InvariantHolds, <1>1, PTL

(* Retries, stalled jobs and dying workers never make a second record: the *)
(* records of a registration, with the one a worker is about to create,    *)
(* exceed those posted by hand by one at most.                             *)
THEOREM OneRecord == Spec => []OneRecordPerRegistration
<1>1. ASSUME IInv, NEW g \in Registrations
      PROVE  Len(records[g]) + Cardinality(Creating(g)) <= direct[g] + 1
  <2>1. /\ Len(records[g]) \in Nat /\ direct[g] \in Nat
        /\ Len(records[g]) <= direct[g] + 1
    <3>1. records[g] \in Seq(Record) /\ direct[g] \in 0..MaxDirect
          /\ Len(records[g]) <= direct[g] + 1
      BY <1>1 DEF IInv, TypeOK, RecordsSound
    <3>2. QED
      BY <3>1, LenProperties, OnboardingAssumption
  <2>2. CASE Creating(g) = {}
    BY <2>1, <2>2, FS_EmptySet
  <2>3. CASE Creating(g) # {}
    <3>1. PICK w \in Workers : w \in Creating(g)
      BY <2>3 DEF Creating
    <3>2. worker[w].step = "create_record" /\ RegistrationOf(w) = g
      BY <3>1 DEF Creating
    <3>3. Creating(g) = {w}
      BY <1>1, <3>2, OthersRegistration DEF Creating
    <3>4. Cardinality(Creating(g)) = 1
      BY <3>3, FS_Singleton
    <3>5. Len(records[g]) <= direct[g]
      BY <1>1, <3>2 DEF IInv, RecordsSound, Progress
    <3>6. QED
      BY <2>1, <3>4, <3>5
  <2>4. QED
    BY <2>2, <2>3
<1>2. IInv => OneRecordPerRegistration
  BY <1>1 DEF OneRecordPerRegistration
<1>3. QED
  BY InvariantHolds, <1>2, PTL

(* A job is completed only when its registration has a record with the     *)
(* checklist linked and every check queued once, whatever was cut short    *)
(* before.                                                                 *)
THEOREM ChecksBeforeCompletion == Spec => []CompletedMeansChecked
<1>1. IInv => CompletedMeansChecked
  BY DEF IInv, RecordsSound
<1>2. QED
  BY InvariantHolds, <1>1, PTL
=============================================================================
