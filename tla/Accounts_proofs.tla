--------------------------- MODULE Accounts_proofs --------------------------
(* What holds of the opening of accounts for all numbers of registrations, *)
(* wallets, users, requests, workers, jobs and faults.                     *)
EXTENDS Accounts, JobQueue_proofs, FiniteSetTheorems

(* A busy worker holds an active job of its own. *)
Owned ==
    \A w \in Workers :
        worker[w] # Resting =>
            /\ jobs[worker[w].job].state = "active"
            /\ \A v \in Workers : worker[v].job = worker[w].job => v = w

(* The workers about to create the first user of a. *)
Creators(a) == {w \in Workers : worker[w].step = "create_user" /\ AccountOf(w) = a}

(* An account that does not exist has no users, and nobody who is about to *)
(* create one: who creates the account is the first to create a user.      *)
AccountSound(a) ==
    /\ Cardinality(UsersOf(a)) + Cardinality(Creators(a)) <= posted[a] + 1
    /\ posted[a] <= Cardinality(UsersOf(a))
    /\ ~Exists(a) => UsersOf(a) = {} /\ Creators(a) = {}

(* Requests are about accounts that exist and users these have. *)
RequestSound(q) ==
    /\ request[q].step = "create_user" => Exists(request[q].account)
    /\ request[q].step \in {"suspend_users", "set_status"} =>
          /\ request[q].todo \subseteq request[q].seen
          /\ request[q].seen \subseteq UsersOf(request[q].account)

IInv ==
    /\ TypeOK
    /\ QueueInv
    /\ Owned
    /\ \A a \in Wallets : AccountSound(a)
    /\ \A q \in Requests : RequestSound(q)

(* With one request at a time nobody makes a user active again before the  *)
(* account is locked: of the users that were read, those done are out.     *)
LockSound ==
    \A q \in Requests :
        request[q].step \in {"suspend_users", "set_status"} =>
            /\ \A u \in request[q].seen \ request[q].todo : user[u].status = "Suspended"
            /\ request[q].step = "set_status" => request[q].todo = {}

-----------------------------------------------------------------------------
(* What the invariant says of types, counts and workers. *)
LEMMA QueueSound == ASSUME IInv PROVE QueueOK
BY DEF IInv, TypeOK, QueueOK

LEMMA Counts ==
    ASSUME IInv, NEW a \in Wallets
    PROVE  /\ IsFiniteSet(UsersOf(a)) /\ Cardinality(UsersOf(a)) \in Nat
           /\ Cardinality(UsersOf(a)) <= Cardinality(Users)
           /\ IsFiniteSet(Creators(a)) /\ Cardinality(Creators(a)) \in Nat
           /\ posted[a] \in Nat /\ Cardinality(Users) \in Nat
<1>1. UsersOf(a) \in SUBSET Users /\ Creators(a) \in SUBSET Workers
  BY DEF UsersOf, Creators
<1>2. IsFiniteSet(Users) /\ IsFiniteSet(Workers)
  BY AccountsAssumption
<1>3. /\ IsFiniteSet(UsersOf(a)) /\ Cardinality(UsersOf(a)) \in Nat
      /\ Cardinality(UsersOf(a)) <= Cardinality(Users)
      /\ IsFiniteSet(Creators(a)) /\ Cardinality(Creators(a)) \in Nat
      /\ Cardinality(Users) \in Nat
  BY <1>1, <1>2, FS_Subset, FS_CardinalityType
<1>4. posted[a] \in Nat
  BY <1>3 DEF IInv, TypeOK
<1>5. QED
  BY <1>3, <1>4

(* A worker that is not idle has a job of its own, for a wallet. *)
LEMMA BusyWorker ==
    ASSUME IInv, NEW w \in Workers, worker[w] # Resting
    PROVE  /\ worker[w] \in WorkerState /\ worker[w].step # "idle"
           /\ worker[w].job \in JobId /\ worker[w].job # 0
           /\ jobs[worker[w].job] \in Job /\ jobs[worker[w].job].state = "active"
           /\ AccountOf(w) \in Wallets
           /\ \A v \in Workers : worker[v].job = worker[w].job => v = w
<1>1. worker[w] \in WorkerState
  BY DEF IInv, TypeOK
<1>2. worker[w].job \in JobId /\ worker[w].job # 0 /\ worker[w].step # "idle"
  BY <1>1, QueueAssumption DEF WorkerState, JobId
<1>3. /\ jobs[worker[w].job].state = "active"
      /\ \A v \in Workers : worker[v].job = worker[w].job => v = w
  BY DEF IInv, Owned
<1>4. jobs[worker[w].job] \in Job
  BY <1>2, <1>3 DEF IInv, TypeOK, QueueTypeOK, NoJob
<1>5. jobs[worker[w].job].data \in Registrations
  BY <1>4, AccountsAssumption DEF Job
<1>6. AccountOf(w) \in Wallets
  BY <1>5, AccountsAssumption DEF AccountOf
<1>7. QED
  BY <1>1, <1>2, <1>3, <1>4, <1>6

LEMMA RestingStep == Resting.step = "idle" /\ Resting.job = 0
BY DEF Resting

(* The accounts and ownership of workers whose jobs stay as they are. *)
JobsHeld ==
    \A v \in Workers : worker[v] # Resting => jobs'[worker[v].job] = jobs[worker[v].job]

LEMMA WorkersStay ==
    ASSUME IInv, worker' = worker, JobsHeld
    PROVE  Owned' /\ \A a \in Wallets : Creators(a)' = Creators(a)
<1>1. Owned'
  BY DEF IInv, Owned, JobsHeld
<1>2. ASSUME NEW w \in Workers, worker[w].step = "create_user"
      PROVE  AccountOf(w)' = AccountOf(w)
  BY <1>2, RestingStep DEF JobsHeld, AccountOf
<1>3. ASSUME NEW a \in Wallets PROVE Creators(a)' = Creators(a)
  BY <1>2 DEF Creators
<1>4. QED
  BY <1>1, <1>3

(* Worker w goes on to another step with its job. *)
LEMMA WorkerProceeds ==
    ASSUME IInv, NEW w \in Workers, worker[w] # Resting,
           NEW step \in {"create_account", "create_user", "log"}, Proceed(w, step)
    PROVE  /\ QueueOK' /\ Owned' /\ worker' \in [Workers -> WorkerState \cup {Resting}]
           /\ step # "create_user" =>
                 \A a \in Wallets : Creators(a)' = Creators(a) \ {w}
           /\ step = "create_user" =>
                 /\ \A a \in Wallets : a # AccountOf(w) => Creators(a)' = Creators(a) \ {w}
                 /\ \A a \in Wallets : a = AccountOf(w) => Creators(a)' = Creators(a) \cup {w}
<1>1. QueueOK' /\ jobs' = jobs
  BY QueueSound, QueueUnchanged DEF Proceed, queueVars
<1>2. worker[w] \in WorkerState
  BY BusyWorker
<1>3. /\ worker' \in [Workers -> WorkerState \cup {Resting}]
      /\ worker'[w].step = step /\ worker'[w].job = worker[w].job
      /\ \A v \in Workers : v # w => worker'[v] = worker[v]
  BY <1>2 DEF Proceed, IInv, TypeOK, WorkerState
<1>4. \A v \in Workers : worker'[v].job = worker[v].job
  BY <1>3
<1>5. Owned'
  <2> SUFFICES ASSUME NEW v \in Workers, worker'[v] # Resting
               PROVE  /\ jobs[worker[v].job].state = "active"
                      /\ \A u \in Workers : worker[u].job = worker[v].job => u = v
    BY <1>1, <1>4 DEF Owned
  <2>1. worker[v] # Resting
    BY <1>3
  <2>2. QED
    BY <2>1 DEF IInv, Owned
<1>6. \A v \in Workers : AccountOf(v)' = AccountOf(v)
  BY <1>1, <1>4 DEF AccountOf
<1>7. \A a \in Wallets :
         Creators(a)' = IF step = "create_user" /\ a = AccountOf(w)
                        THEN Creators(a) \cup {w} ELSE Creators(a) \ {w}
  BY <1>3, <1>6 DEF Creators
<1>8. QED
  BY <1>1, <1>3, <1>5, <1>7

(* Worker w gives its job up, whatever becomes of that. *)
LEMMA WorkerRests ==
    ASSUME IInv, NEW w \in Workers, worker[w] # Resting,
           worker' = [worker EXCEPT ![w] = Resting],
           \/ CompleteJob(worker[w].job) \/ FailAttempt(worker[w].job)
           \/ UNCHANGED queueVars
    PROVE  /\ QueueOK' /\ Owned' /\ worker' \in [Workers -> WorkerState \cup {Resting}]
           /\ \A a \in Wallets : Creators(a)' = Creators(a) \ {w}
<1> DEFINE j == worker[w].job
<1>1. /\ j \in JobId /\ jobs[j].state = "active"
      /\ \A v \in Workers : worker[v].job = j => v = w
  BY BusyWorker
<1>2. QueueOK' /\ \A i \in JobId : i # j => jobs'[i] = jobs[i]
  <2>1. CASE CompleteJob(j) \/ FailAttempt(j)
    BY <1>1, <2>1, QueueSound, FinishJobOK
  <2>2. CASE UNCHANGED queueVars
    BY <2>2, QueueSound, QueueUnchanged DEF queueVars
  <2>3. QED
    BY <2>1, <2>2
<1> HIDE DEF j
<1>3. /\ worker' \in [Workers -> WorkerState \cup {Resting}]
      /\ worker'[w] = Resting
      /\ \A v \in Workers : v # w => worker'[v] = worker[v]
  BY DEF IInv, TypeOK
<1>4. ASSUME NEW v \in Workers, v # w, worker[v] # Resting
      PROVE  /\ jobs'[worker[v].job] = jobs[worker[v].job]
             /\ jobs[worker[v].job].state = "active" /\ worker[v].job # 0
             /\ \A u \in Workers : worker[u].job = worker[v].job => u = v
             /\ AccountOf(v)' = AccountOf(v)
  <2>1. /\ worker[v].job \in JobId /\ worker[v].job # j /\ worker[v].job # 0
        /\ jobs[worker[v].job].state = "active"
        /\ \A u \in Workers : worker[u].job = worker[v].job => u = v
    BY <1>1, <1>4, BusyWorker
  <2>2. QED
    BY <1>2, <1>3, <1>4, <2>1 DEF AccountOf
<1>5. Owned'
  <2> SUFFICES ASSUME NEW v \in Workers, worker'[v] # Resting
               PROVE  /\ jobs'[worker'[v].job].state = "active"
                      /\ \A u \in Workers : worker'[u].job = worker'[v].job => u = v
    BY DEF Owned
  <2>1. v # w /\ worker'[v] = worker[v] /\ worker[v] # Resting
    BY <1>3
  <2>2. worker'[w].job # worker[v].job
    BY <1>3, <1>4, <2>1, RestingStep
  <2>3. QED
    BY <1>3, <1>4, <2>1, <2>2
<1>6. ASSUME NEW a \in Wallets PROVE Creators(a)' = Creators(a) \ {w}
  <2>1. \A v \in Workers : v \in Creators(a)' <=> v # w /\ v \in Creators(a)
    BY <1>3, <1>4, RestingStep DEF Creators
  <2>2. QED
    BY <2>1 DEF Creators
<1>7. QED
  BY <1>2, <1>3, <1>5, <1>6

-----------------------------------------------------------------------------
(* Accounts, users and requests that a step leaves as they are. *)
LEMMA AccountsStay ==
    ASSUME IInv, posted' = posted,
           \A a \in Wallets : Exists(a) => Exists(a)',
           \A a \in Wallets : UsersOf(a)' = UsersOf(a),
           \A a \in Wallets : Creators(a)' \subseteq Creators(a)
    PROVE  \A a \in Wallets : AccountSound(a)'
<1> TAKE a \in Wallets
<1>1. AccountSound(a)
  BY DEF IInv
<1>2. Cardinality(Creators(a)') <= Cardinality(Creators(a)) /\ Cardinality(Creators(a)') \in Nat
  BY Counts, FS_Subset, FS_CardinalityType
<1>3. Cardinality(UsersOf(a)) + Cardinality(Creators(a)') <= posted[a] + 1
  BY <1>1, <1>2, Counts DEF AccountSound
<1>4. ~Exists(a)' => UsersOf(a) = {} /\ Creators(a)' = {}
  BY <1>1 DEF AccountSound
<1>5. UsersOf(a)' = UsersOf(a)
  OBVIOUS
<1>6. QED
  BY <1>1, <1>3, <1>4, <1>5 DEF AccountSound

LEMMA RequestTyped ==
    ASSUME IInv, NEW q \in Requests
    PROVE  /\ request[q] \in RequestState \cup {Idle}
           /\ request[q].step = "add_account_job" => request[q].registration \in Payload
           /\ request[q].step = "create_user" => request[q].account \in Wallets
           /\ request[q].step \in {"suspend_users", "set_status"} =>
                 /\ request[q] \in [step : {"suspend_users", "set_status"}, account : Wallets,
                                    status : AccountStatus, seen : SUBSET Users,
                                    todo : SUBSET Users]
                 /\ request[q].account \in Wallets /\ request[q].status \in AccountStatus
<1>1. request[q] \in RequestState \cup {Idle}
  BY DEF IInv, TypeOK
<1>2. CASE request[q] = Idle
  BY <1>1, <1>2 DEF Idle
<1>3. CASE request[q] \in RequestState
  BY <1>1, <1>3, AccountsAssumption DEF RequestState
<1>4. QED
  BY <1>1, <1>2, <1>3

LEMMA RequestsStay ==
    ASSUME IInv, \A a \in Wallets : Exists(a) => Exists(a)',
           \A a \in Wallets : UsersOf(a) \subseteq UsersOf(a)',
           NEW q \in Requests, request'[q] = request[q] \/ request'[q] = Idle
    PROVE  RequestSound(q)'
<1>1. CASE request'[q] = Idle
  BY <1>1 DEF RequestSound, Idle
<1>2. CASE request'[q] = request[q]
  <2>1. RequestSound(q)
    BY DEF IInv
  <2>2. CASE request[q].step = "create_user"
    <3>1. Exists(request[q].account) /\ request[q].account \in Wallets
      BY <2>1, <2>2, RequestTyped DEF RequestSound
    <3>2. PICK a \in Wallets : a = request[q].account
      BY <3>1
    <3>3. Exists(a)'
      BY <3>1, <3>2
    <3>4. QED
      BY <1>2, <2>2, <3>2, <3>3 DEF RequestSound, Exists
  <2>3. CASE request[q].step \in {"suspend_users", "set_status"}
    <3>1. PICK a \in Wallets : a = request[q].account
      BY <2>3, RequestTyped
    <3>2. /\ request[q].todo \subseteq request[q].seen
          /\ request[q].seen \subseteq UsersOf(a)
      BY <2>1, <2>3, <3>1 DEF RequestSound
    <3>3. request[q].seen \subseteq UsersOf(a)'
      BY <3>2
    <3>4. QED
      BY <1>2, <2>3, <3>1, <3>2, <3>3 DEF RequestSound, UsersOf
  <2>4. CASE request[q].step \notin {"create_user", "suspend_users", "set_status"}
    BY <1>2, <2>4 DEF RequestSound
  <2>5. QED
    BY <2>2, <2>3, <2>4
<1>3. QED
  BY <1>1, <1>2

(* A user is created, or one that is there gets another status. *)
LEMMA NewUser ==
    ASSUME IInv, NEW a \in Wallets, NEW status \in UserStatus, AddUser(a, status)
    PROVE  /\ user' \in [Users -> [account : Wallets, status : UserStatus] \cup {NoUser}]
           /\ Cardinality(UsersOf(a)') = Cardinality(UsersOf(a)) + 1
           /\ \A b \in Wallets : b # a => UsersOf(b)' = UsersOf(b)
           /\ \A b \in Wallets : UsersOf(b) \subseteq UsersOf(b)'
           /\ \A b \in Wallets : \A v \in UsersOf(b) : user'[v] = user[v]
<1>1. PICK u \in Free : user' = [user EXCEPT ![u] = [account |-> a, status |-> status]]
  BY DEF AddUser
<1>2. u \in Users /\ user[u] = NoUser
  BY DEF Free
<1>3. /\ user' \in [Users -> [account : Wallets, status : UserStatus] \cup {NoUser}]
      /\ user'[u].account = a
      /\ \A v \in Users : v # u => user'[v] = user[v]
  BY <1>1, <1>2 DEF IInv, TypeOK
<1>4. \A b \in Wallets : u \notin UsersOf(b)
  BY <1>2, AccountsAssumption DEF UsersOf, NoUser
<1>5. UsersOf(a)' = UsersOf(a) \cup {u}
  BY <1>2, <1>3 DEF UsersOf
<1>6. \A b \in Wallets : b # a => UsersOf(b)' = UsersOf(b)
  BY <1>3, <1>4 DEF UsersOf
<1>7. Cardinality(UsersOf(a)') = Cardinality(UsersOf(a)) + 1
  BY <1>4, <1>5, Counts, FS_AddElement
<1>8. \A b \in Wallets : \A v \in UsersOf(b) : user'[v] = user[v]
  BY <1>3, <1>4 DEF UsersOf
<1>9. QED
  BY <1>3, <1>5, <1>6, <1>7, <1>8

LEMMA StatusSet ==
    ASSUME IInv, NEW u \in Users, user[u] # NoUser, NEW status \in UserStatus,
           user' = [user EXCEPT ![u].status = status]
    PROVE  /\ user' \in [Users -> [account : Wallets, status : UserStatus] \cup {NoUser}]
           /\ user'[u].status = status
           /\ \A v \in Users : v # u => user'[v] = user[v]
           /\ \A a \in Wallets : UsersOf(a)' = UsersOf(a)
<1>1. user[u] \in [account : Wallets, status : UserStatus]
  BY DEF IInv, TypeOK
<1>2. /\ user' \in [Users -> [account : Wallets, status : UserStatus] \cup {NoUser}]
      /\ user'[u].status = status /\ user'[u].account = user[u].account
      /\ \A v \in Users : v # u => user'[v] = user[v]
  BY <1>1 DEF IInv, TypeOK
<1>3. QED
  BY <1>2 DEF UsersOf

-----------------------------------------------------------------------------
(* Decisions and jobs.  None of them touches accounts or users. *)
LEMMA QueueStep ==
    ASSUME IInv, QueueOK', JobsHeld, UNCHANGED <<adminRoles, account, user, posted, worker>>,
           decisions' \in [Registrations -> Seq(Decision)], faults' \in 0..MaxFaults,
           request' \in [Requests -> RequestState \cup {Idle}],
           \A q \in Requests : \/ request'[q] = request[q] \/ request'[q] = Idle
                               \/ request'[q].step = "add_account_job"
    PROVE  IInv'
<1>1. Owned' /\ \A a \in Wallets : Creators(a)' = Creators(a)
  BY WorkersStay
<1>2. /\ \A a \in Wallets : Exists(a)' = Exists(a)
      /\ \A a \in Wallets : UsersOf(a)' = UsersOf(a)
  BY DEF Exists, UsersOf
<1>3. \A a \in Wallets : AccountSound(a)'
  BY <1>1, <1>2, AccountsStay
<1>4. ASSUME NEW q \in Requests PROVE RequestSound(q)'
  <2>1. CASE request'[q] = request[q] \/ request'[q] = Idle
    BY <1>2, <2>1, RequestsStay
  <2>2. CASE request'[q].step = "add_account_job"
    BY <2>2 DEF RequestSound
  <2>3. QED
    BY <2>1, <2>2
<1>5. TypeOK' /\ QueueInv'
  BY DEF IInv, TypeOK, QueueOK
<1>6. QED
  BY <1>1, <1>3, <1>4, <1>5 DEF IInv

LEMMA DecideStep ==
    ASSUME IInv, NEW q \in Requests, NEW g \in Registrations, NEW d \in Decision,
           Decide(q, g, d)
    PROVE  IInv'
<1>1. QueueOK' /\ JobsHeld /\ UNCHANGED <<adminRoles, account, user, posted, worker, faults>>
  BY QueueSound, QueueUnchanged DEF Decide, JobsHeld, queueVars
<1>2. decisions' \in [Registrations -> Seq(Decision)]
  <2>1. decisions[g] \in Seq(Decision)
    BY DEF IInv, TypeOK
  <2>2. Append(decisions[g], d) \in Seq(Decision)
    BY <2>1
  <2>3. QED
    BY <2>2 DEF Decide, IInv, TypeOK
<1>3. [step |-> "add_account_job", registration |-> g] \in RequestState
  BY DEF RequestState
<1>4. /\ request' \in [Requests -> RequestState \cup {Idle}]
      /\ \A p \in Requests : \/ request'[p] = request[p]
                             \/ request'[p].step = "add_account_job"
  <2> DEFINE new == [step |-> "add_account_job", registration |-> g]
  <2>1. new \in RequestState /\ new.step = "add_account_job"
    BY <1>3
  <2>2. request' = request \/ request' = [request EXCEPT ![q] = new]
    BY DEF Decide
  <2> HIDE DEF new
  <2>3. QED
    BY <2>1, <2>2 DEF IInv, TypeOK
<1>5. faults' \in 0..MaxFaults
  BY <1>1 DEF IInv, TypeOK
<1>6. QED
  BY <1>1, <1>2, <1>4, <1>5, QueueStep

LEMMA AddJobStep == ASSUME IInv, NEW q \in Requests, AddAccountJob(q) PROVE IInv'
<1> DEFINE g == request[q].registration
<1>1. g \in Payload /\ Enqueue(g)
  BY RequestTyped DEF AddAccountJob
<1> HIDE DEF g
<1>2. /\ QueueOK' /\ jobs[added + 1].state = "none"
      /\ \A j \in JobId : j # added + 1 => jobs'[j] = jobs[j]
  BY <1>1, QueueSound, EnqueueOK
<1>3. JobsHeld
  BY <1>2, BusyWorker DEF JobsHeld
<1>4. /\ UNCHANGED <<adminRoles, decisions, account, user, worker, posted, faults>>
      /\ request' \in [Requests -> RequestState \cup {Idle}]
      /\ \A p \in Requests : request'[p] = request[p] \/ request'[p] = Idle
  BY DEF AddAccountJob, IInv, TypeOK
<1>5. decisions' \in [Registrations -> Seq(Decision)] /\ faults' \in 0..MaxFaults
  BY <1>4 DEF IInv, TypeOK
<1>6. QED
  BY <1>2, <1>3, <1>4, <1>5, QueueStep

LEMMA RequestFailsStep == ASSUME IInv, NEW q \in Requests, RequestFails(q) PROVE IInv'
<1>1. QueueOK' /\ JobsHeld
      /\ UNCHANGED <<adminRoles, decisions, account, user, posted, worker>>
  BY QueueSound, QueueUnchanged DEF RequestFails, JobsHeld, queueVars
<1>2. /\ request' \in [Requests -> RequestState \cup {Idle}]
      /\ \A p \in Requests : request'[p] = request[p] \/ request'[p] = Idle
  BY DEF RequestFails, IInv, TypeOK
<1>3. faults' \in 0..MaxFaults
  BY AccountsAssumption DEF RequestFails, IInv, TypeOK
<1>4. decisions' \in [Registrations -> Seq(Decision)]
  BY <1>1 DEF IInv, TypeOK
<1>5. QED
  BY <1>1, <1>2, <1>3, <1>4, QueueStep

LEMMA ComeBackStep == ASSUME IInv, NEW j \in JobId, Retry(j) \/ Recover(j) PROVE IInv'
<1>1. /\ QueueOK' /\ \A i \in JobId : i # j => jobs'[i] = jobs[i]
      /\ \A w \in Workers : worker[w] # Resting => worker[w].job # j
  <2>1. CASE Retry(j)
    BY <2>1, QueueSound, PromoteOK, BusyWorker DEF Retry
  <2>2. CASE Recover(j)
    BY <2>2, QueueSound, RecoverOK DEF Recover
  <2>3. QED
    BY <2>1, <2>2
<1>2. JobsHeld
  BY <1>1, BusyWorker DEF JobsHeld
<1>3. UNCHANGED <<adminRoles, decisions, account, user, request, worker, posted, faults>>
  BY DEF Retry, Recover
<1>4. /\ decisions' \in [Registrations -> Seq(Decision)] /\ faults' \in 0..MaxFaults
      /\ request' \in [Requests -> RequestState \cup {Idle}]
  BY <1>3 DEF IInv, TypeOK
<1>5. QED
  BY <1>1, <1>2, <1>3, <1>4, QueueStep

-----------------------------------------------------------------------------
(* The users and the status of an account, from the portal: the queue and  *)
(* the workers stay as they are.                                           *)
LEMMA PortalRest ==
    ASSUME IInv, UNCHANGED <<queueVars, adminRoles, decisions, worker, faults>>
    PROVE  /\ QueueOK' /\ Owned' /\ QueueInv' /\ QueueTypeOK'
           /\ \A a \in Wallets : Creators(a)' = Creators(a)
           /\ adminRoles' \in RoleSets
           /\ decisions' \in [Registrations -> Seq(Decision)]
           /\ worker' \in [Workers -> WorkerState \cup {Resting}]
           /\ faults' \in 0..MaxFaults
<1>1. QueueOK' /\ JobsHeld
  BY QueueSound, QueueUnchanged DEF JobsHeld, queueVars
<1>2. Owned' /\ \A a \in Wallets : Creators(a)' = Creators(a)
  BY <1>1, WorkersStay
<1>3. QueueInv' /\ QueueTypeOK'
  BY <1>1 DEF QueueOK
<1>4. QED
  BY <1>1, <1>2, <1>3 DEF IInv, TypeOK

LEMMA BeginUserStep ==
    ASSUME IInv, NEW q \in Requests, NEW a \in Wallets, BeginUser(q, a) PROVE IInv'
<1> DEFINE s == [step |-> "create_user", account |-> a]
<1>1. s \in RequestState /\ s.step = "create_user" /\ s.account = a
  BY DEF RequestState
<1>2. request' = [request EXCEPT ![q] = s] /\ Exists(a)
      /\ UNCHANGED <<queueVars, adminRoles, decisions, account, user, worker, posted, faults>>
  BY DEF BeginUser
<1> HIDE DEF s
<1>3. /\ request' \in [Requests -> RequestState \cup {Idle}] /\ request'[q] = s
      /\ \A p \in Requests : p # q => request'[p] = request[p]
  BY <1>1, <1>2 DEF IInv, TypeOK
<1>4. /\ \A b \in Wallets : Exists(b)' = Exists(b)
      /\ \A b \in Wallets : UsersOf(b)' = UsersOf(b)
  BY <1>2 DEF Exists, UsersOf
<1>5. /\ Owned' /\ QueueInv' /\ QueueTypeOK'
      /\ \A b \in Wallets : Creators(b)' = Creators(b)
  BY <1>2, PortalRest
<1>6. \A b \in Wallets : AccountSound(b)'
  BY <1>2, <1>4, <1>5, AccountsStay
<1>7. ASSUME NEW p \in Requests PROVE RequestSound(p)'
  <2>1. CASE p = q
    BY <1>1, <1>2, <1>3, <2>1 DEF RequestSound, Exists
  <2>2. CASE p # q
    BY <1>3, <1>4, <2>2, RequestsStay
  <2>3. QED
    BY <2>1, <2>2
<1>8. TypeOK'
  BY <1>2, <1>3, <1>5 DEF IInv, TypeOK
<1>9. QED
  BY <1>5, <1>6, <1>7, <1>8 DEF IInv

LEMMA CreateUserStep ==
    ASSUME IInv, NEW q \in Requests, NEW status \in AskedUser, CreateUser(q, status)
    PROVE  IInv'
<1>1. PICK a \in Wallets : a = request[q].account
  BY RequestTyped DEF CreateUser
<1>2. /\ AddUser(a, status) /\ status \in UserStatus
      /\ posted' = [posted EXCEPT ![a] = posted[a] + 1]
      /\ request' = [request EXCEPT ![q] = Idle]
      /\ UNCHANGED <<queueVars, adminRoles, decisions, account, worker, faults>>
  BY <1>1, AccountsAssumption DEF CreateUser, UserStatus
<1>3. /\ user' \in [Users -> [account : Wallets, status : UserStatus] \cup {NoUser}]
      /\ Cardinality(UsersOf(a)') = Cardinality(UsersOf(a)) + 1
      /\ \A b \in Wallets : b # a => UsersOf(b)' = UsersOf(b)
      /\ \A b \in Wallets : UsersOf(b) \subseteq UsersOf(b)'
  BY <1>2, NewUser
<1>4. /\ request' \in [Requests -> RequestState \cup {Idle}]
      /\ \A p \in Requests : request'[p] = request[p] \/ request'[p] = Idle
  BY <1>2 DEF IInv, TypeOK
<1>5. \A b \in Wallets : Exists(b)' = Exists(b)
  BY <1>2 DEF Exists
<1>6. /\ Owned' /\ QueueInv' /\ QueueTypeOK'
      /\ \A b \in Wallets : Creators(b)' = Creators(b)
  BY <1>2, PortalRest
<1>7. Exists(a)
  BY <1>1 DEF IInv, RequestSound, CreateUser
<1>8. /\ posted'[a] = posted[a] + 1
      /\ \A b \in Wallets : b # a => posted'[b] = posted[b]
  BY <1>2 DEF IInv, TypeOK
<1>9. ASSUME NEW b \in Wallets PROVE AccountSound(b)'
  <2>1. AccountSound(b) /\ AccountSound(a)
    BY DEF IInv
  <2>2. CASE b = a
    <3>1. /\ Cardinality(UsersOf(a)') + Cardinality(Creators(a)') <= posted'[a] + 1
          /\ posted'[a] <= Cardinality(UsersOf(a)')
      BY <1>3, <1>6, <1>8, <2>1, Counts DEF AccountSound
    <3>2. Exists(a)'
      BY <1>5, <1>7
    <3>3. QED
      BY <2>2, <3>1, <3>2 DEF AccountSound
  <2>3. CASE b # a
    BY <1>3, <1>5, <1>6, <1>8, <2>1, <2>3 DEF AccountSound
  <2>4. QED
    BY <2>2, <2>3
<1>10. posted' \in [Wallets -> 0..Cardinality(Users)]
  <2>1. Cardinality(UsersOf(a)') <= Cardinality(Users) /\ Cardinality(Users) \in Nat
    <3>1. UsersOf(a)' \in SUBSET Users /\ IsFiniteSet(Users)
      BY AccountsAssumption DEF UsersOf
    <3>2. QED
      BY <3>1, FS_Subset, FS_CardinalityType
  <2>2. posted[a] + 1 \in 0..Cardinality(Users)
    BY <1>3, <2>1, Counts DEF IInv, AccountSound
  <2>3. QED
    BY <1>2, <2>2 DEF IInv, TypeOK
<1>11. \A p \in Requests : RequestSound(p)'
  BY <1>3, <1>4, <1>5, RequestsStay
<1>12. TypeOK'
  BY <1>2, <1>3, <1>4, <1>6, <1>10 DEF IInv, TypeOK
<1>13. QED
  BY <1>6, <1>9, <1>11, <1>12 DEF IInv

(* Updates of users that are there, by the API of users or a suspension.   *)
LEMMA UpdateStep ==
    ASSUME IInv, NEW u \in Users, user[u] # NoUser, NEW status \in UserStatus,
           user' = [user EXCEPT ![u].status = status],
           UNCHANGED <<queueVars, adminRoles, decisions, account, worker, posted, faults>>,
           request' \in [Requests -> RequestState \cup {Idle}],
           \A q \in Requests :
              \/ request'[q] = request[q]
              \/ /\ request[q].step = "suspend_users"
                 /\ request'[q].step \in {"suspend_users", "set_status"}
                 /\ request'[q].account = request[q].account
                 /\ request'[q].seen = request[q].seen
                 /\ request'[q].todo \subseteq request[q].todo
    PROVE  IInv'
<1>1. /\ user' \in [Users -> [account : Wallets, status : UserStatus] \cup {NoUser}]
      /\ \A a \in Wallets : UsersOf(a)' = UsersOf(a)
  BY StatusSet
<1>2. \A a \in Wallets : Exists(a)' = Exists(a)
  BY DEF Exists
<1>3. /\ Owned' /\ QueueInv' /\ QueueTypeOK'
      /\ \A a \in Wallets : Creators(a)' = Creators(a)
  BY PortalRest
<1>4. \A a \in Wallets : AccountSound(a)'
  BY <1>1, <1>2, <1>3, AccountsStay
<1>5. ASSUME NEW q \in Requests PROVE RequestSound(q)'
  <2>1. CASE request'[q] = request[q]
    BY <1>1, <1>2, <2>1, RequestsStay
  <2>2. CASE request'[q] # request[q]
    <3>1. PICK a \in Wallets : a = request[q].account
      BY <2>2, RequestTyped
    <3>2. request[q].todo \subseteq request[q].seen /\ request[q].seen \subseteq UsersOf(a)
      BY <2>2, <3>1 DEF IInv, RequestSound
    <3>3. UsersOf(a)' = UsersOf(a)
      BY <1>1
    <3>4. /\ request'[q].account = a /\ request'[q].step # "create_user"
          /\ request'[q].todo \subseteq request'[q].seen
          /\ request'[q].seen \subseteq UsersOf(a)'
      BY <2>2, <3>1, <3>2, <3>3
    <3>5. QED
      BY <3>4 DEF RequestSound, UsersOf
  <2>3. QED
    BY <2>1, <2>2
<1>6. TypeOK'
  BY <1>1, <1>3 DEF IInv, TypeOK
<1>7. QED
  BY <1>3, <1>4, <1>5, <1>6 DEF IInv

LEMMA UpdateUserStep ==
    ASSUME IInv, NEW q \in Requests, NEW u \in Users, NEW status \in AskedUser,
           UpdateUser(q, u, status)
    PROVE  IInv'
<1>1. status \in UserStatus
  BY AccountsAssumption DEF UserStatus
<1>2. request' \in [Requests -> RequestState \cup {Idle}]
  BY DEF UpdateUser, IInv, TypeOK
<1>3. QED
  BY <1>1, <1>2, UpdateStep DEF UpdateUser

LEMMA SuspendUserStep ==
    ASSUME IInv, NEW q \in Requests, NEW u \in Users, SuspendUser(q, u) PROVE IInv'
<1> DEFINE s == [request[q] EXCEPT !.todo = request[q].todo \ {u},
                                   !.step = IF request[q].todo = {u} THEN "set_status"
                                            ELSE request[q].step]
<1>1. /\ request[q].step = "suspend_users"
      /\ request[q] \in [step : {"suspend_users", "set_status"}, account : Wallets,
                         status : AccountStatus, seen : SUBSET Users, todo : SUBSET Users]
      /\ RequestSound(q)
  BY RequestTyped DEF SuspendUser, IInv
<1>2. /\ s \in RequestState /\ s.step \in {"suspend_users", "set_status"}
      /\ s.account = request[q].account /\ s.seen = request[q].seen
      /\ s.todo = request[q].todo \ {u}
  BY <1>1 DEF RequestState
<1>3. request' = [request EXCEPT ![q] = s]
  BY <1>1 DEF SuspendUser, IInv, TypeOK
<1> HIDE DEF s
<1>4. request' \in [Requests -> RequestState \cup {Idle}] /\ request'[q] = s
      /\ \A p \in Requests : p # q => request'[p] = request[p]
  BY <1>2, <1>3 DEF IInv, TypeOK
<1>5. u \in UsersOf(request[q].account) /\ request[q].account \in Wallets
  BY <1>1 DEF SuspendUser, RequestSound
<1>6. user[u] # NoUser /\ "Suspended" \in UserStatus
  BY <1>5, AccountsAssumption DEF UsersOf, NoUser, UserStatus
<1>7. /\ user' = [user EXCEPT ![u].status = "Suspended"]
      /\ UNCHANGED <<queueVars, adminRoles, decisions, account, worker, posted, faults>>
  BY DEF SuspendUser
<1>8. \A p \in Requests :
         \/ request'[p] = request[p]
         \/ /\ request[p].step = "suspend_users"
            /\ request'[p].step \in {"suspend_users", "set_status"}
            /\ request'[p].account = request[p].account
            /\ request'[p].seen = request[p].seen
            /\ request'[p].todo \subseteq request[p].todo
  BY <1>1, <1>2, <1>4
<1>9. QED
  BY <1>4, <1>6, <1>7, <1>8, UpdateStep

LEMMA BeginStatusStep ==
    ASSUME IInv, NEW q \in Requests, NEW a \in Wallets, NEW status \in AskedStatuses,
           BeginStatus(q, a, status)
    PROVE  IInv'
<1>1. PICK todo \in SUBSET UsersOf(a), step \in {"set_status", "suspend_users"} :
         request' = [request EXCEPT ![q] =
            [step |-> step, account |-> a, status |-> status, seen |-> todo, todo |-> todo]]
  BY DEF BeginStatus
<1> DEFINE s == [step |-> step, account |-> a, status |-> status, seen |-> todo,
                 todo |-> todo]
<1>2. status \in AccountStatus /\ UsersOf(a) \subseteq Users
  BY AccountsAssumption DEF AccountStatus, UsersOf
<1>3. s \in RequestState /\ s.step \in {"set_status", "suspend_users"}
      /\ s.account = a /\ s.seen = todo /\ s.todo = todo
  BY <1>2 DEF RequestState
<1>4. /\ request' = [request EXCEPT ![q] = s]
      /\ UNCHANGED <<queueVars, adminRoles, decisions, account, user, worker, posted, faults>>
  BY <1>1 DEF BeginStatus
<1> HIDE DEF s
<1>5. /\ request' \in [Requests -> RequestState \cup {Idle}] /\ request'[q] = s
      /\ \A p \in Requests : p # q => request'[p] = request[p]
  BY <1>3, <1>4 DEF IInv, TypeOK
<1>6. /\ \A b \in Wallets : Exists(b)' = Exists(b)
      /\ \A b \in Wallets : UsersOf(b)' = UsersOf(b)
  BY <1>4 DEF Exists, UsersOf
<1>7. /\ Owned' /\ QueueInv' /\ QueueTypeOK'
      /\ \A b \in Wallets : Creators(b)' = Creators(b)
  BY <1>4, PortalRest
<1>8. \A b \in Wallets : AccountSound(b)'
  BY <1>4, <1>6, <1>7, AccountsStay
<1>9. ASSUME NEW p \in Requests PROVE RequestSound(p)'
  <2>1. CASE p = q
    <3>1. todo \subseteq UsersOf(a)'
      BY <1>6
    <3>2. QED
      BY <1>3, <1>5, <2>1, <3>1 DEF RequestSound, UsersOf
  <2>2. CASE p # q
    BY <1>5, <1>6, <2>2, RequestsStay
  <2>3. QED
    BY <2>1, <2>2
<1>10. TypeOK'
  BY <1>4, <1>5, <1>7 DEF IInv, TypeOK
<1>11. QED
  BY <1>7, <1>8, <1>9, <1>10 DEF IInv

LEMMA SetStatusStep == ASSUME IInv, NEW q \in Requests, SetStatus(q) PROVE IInv'
<1>1. request[q].account \in Wallets /\ request[q].status \in AccountStatus
  BY RequestTyped DEF SetStatus
<1>2. /\ account' = [account EXCEPT ![request[q].account] = request[q].status]
      /\ request' = [request EXCEPT ![q] = Idle]
      /\ UNCHANGED <<queueVars, adminRoles, decisions, user, worker, posted, faults>>
  BY DEF SetStatus
<1>3. /\ account' \in [Wallets -> AccountStatus \cup {"ABSENT"}]
      /\ \A a \in Wallets : Exists(a) => Exists(a)'
  BY <1>1, <1>2 DEF IInv, TypeOK, Exists, AccountStatus
<1>4. /\ request' \in [Requests -> RequestState \cup {Idle}]
      /\ \A p \in Requests : request'[p] = request[p] \/ request'[p] = Idle
  BY <1>2 DEF IInv, TypeOK
<1>5. \A a \in Wallets : UsersOf(a)' = UsersOf(a)
  BY <1>2 DEF UsersOf
<1>6. /\ Owned' /\ QueueInv' /\ QueueTypeOK'
      /\ \A a \in Wallets : Creators(a)' = Creators(a)
  BY <1>2, PortalRest
<1>7. \A a \in Wallets : AccountSound(a)'
  BY <1>2, <1>3, <1>5, <1>6, AccountsStay
<1>8. \A p \in Requests : RequestSound(p)'
  BY <1>3, <1>4, <1>5, RequestsStay
<1>9. TypeOK'
  BY <1>2, <1>3, <1>4, <1>6 DEF IInv, TypeOK
<1>10. QED
  BY <1>6, <1>7, <1>8, <1>9 DEF IInv

-----------------------------------------------------------------------------
(* The processor. *)
LEMMA TakeStep == ASSUME IInv, NEW w \in Workers, Take(w) PROVE IInv'
<1>1. PICK j \in JobId : /\ TakeJob(j)
                         /\ worker' = [worker EXCEPT ![w] = [step |-> "create_account", job |-> j]]
  BY DEF Take
<1> DEFINE s == [step |-> "create_account", job |-> j]
<1>2. s \in WorkerState /\ s.step = "create_account" /\ s.job = j /\ s # Resting
  BY DEF WorkerState, Resting
<1> HIDE DEF s
<1>3. /\ QueueOK' /\ jobs[j].state = "waiting" /\ jobs'[j].state = "active"
      /\ \A i \in JobId : i # j => jobs'[i] = jobs[i]
  <2>1. /\ QueueOK' /\ jobs[j].state = "waiting" /\ jobs'[j].state = "active"
        /\ jobs' = [jobs EXCEPT ![j].state = "active"]
    BY <1>1, QueueSound, TakeJobOK
  <2>2. \A i \in JobId : i # j => jobs'[i] = jobs[i]
    BY <2>1 DEF IInv, TypeOK, QueueTypeOK
  <2>3. QED
    BY <2>1, <2>2
<1>4. /\ worker' \in [Workers -> WorkerState \cup {Resting}] /\ worker'[w] = s
      /\ \A v \in Workers : v # w => worker'[v] = worker[v]
      /\ worker[w] = Resting
  BY <1>1, <1>2 DEF Take, IInv, TypeOK, s
<1>5. ASSUME NEW v \in Workers, worker[v] # Resting
      PROVE  worker[v].job # j /\ jobs'[worker[v].job] = jobs[worker[v].job]
  BY <1>3, <1>5, BusyWorker
<1>6. Owned'
  <2> SUFFICES ASSUME NEW v \in Workers, worker'[v] # Resting
               PROVE  /\ jobs'[worker'[v].job].state = "active"
                      /\ \A u \in Workers : worker'[u].job = worker'[v].job => u = v
    BY DEF Owned
  <2>1. \A u \in Workers : u # w => worker'[u].job # j
    <3> TAKE u \in Workers
    <3>1. CASE worker[u] = Resting
      BY <1>3, <1>4, <3>1, RestingStep, QueueAssumption DEF JobId
    <3>2. CASE worker[u] # Resting
      BY <1>4, <1>5, <3>2
    <3>3. QED
      BY <3>1, <3>2
  <2>2. CASE v = w
    BY <1>2, <1>3, <1>4, <2>1, <2>2
  <2>3. CASE v # w
    <3>1. worker'[v] = worker[v] /\ worker[v] # Resting
      BY <1>4, <2>3
    <3>2. /\ jobs'[worker[v].job].state = "active" /\ worker[v].job # j
          /\ \A u \in Workers : worker[u].job = worker[v].job => u = v
      BY <1>5, <3>1, BusyWorker
    <3>3. QED
      BY <1>2, <1>4, <3>1, <3>2
  <2>4. QED
    BY <2>2, <2>3
<1>7. ASSUME NEW v \in Workers, worker'[v].step = "create_user"
      PROVE  worker[v] = worker'[v] /\ AccountOf(v)' = AccountOf(v)
  BY <1>2, <1>4, <1>5, <1>7, RestingStep DEF AccountOf
<1>8. \A a \in Wallets : Creators(a)' \subseteq Creators(a)
  BY <1>7 DEF Creators
<1>9. UNCHANGED <<adminRoles, decisions, account, user, request, posted, faults>>
  BY DEF Take
<1>10. /\ \A a \in Wallets : Exists(a)' = Exists(a)
       /\ \A a \in Wallets : UsersOf(a)' = UsersOf(a)
  BY <1>9 DEF Exists, UsersOf
<1>11. \A a \in Wallets : AccountSound(a)'
  BY <1>8, <1>9, <1>10, AccountsStay
<1>12. \A q \in Requests : RequestSound(q)'
  BY <1>9, <1>10, RequestsStay
<1>13. TypeOK' /\ QueueInv'
  BY <1>3, <1>4, <1>9 DEF IInv, TypeOK, QueueOK
<1>14. QED
  BY <1>6, <1>11, <1>12, <1>13 DEF IInv

(* A worker ends with its job, or goes on to what is not creating a user.  *)
LEMMA WorkerStep ==
    ASSUME IInv, NEW w \in Workers, QueueOK', Owned',
           worker' \in [Workers -> WorkerState \cup {Resting}],
           \A a \in Wallets : Creators(a)' = Creators(a) \ {w},
           UNCHANGED <<adminRoles, decisions, account, user, request, posted>>,
           faults' \in 0..MaxFaults
    PROVE  IInv'
<1>1. /\ \A a \in Wallets : Exists(a)' = Exists(a)
      /\ \A a \in Wallets : UsersOf(a)' = UsersOf(a)
      /\ \A a \in Wallets : Creators(a)' \subseteq Creators(a)
  BY DEF Exists, UsersOf
<1>2. \A a \in Wallets : AccountSound(a)'
  BY <1>1, AccountsStay
<1>3. \A q \in Requests : RequestSound(q)'
  BY <1>1, RequestsStay
<1>4. TypeOK' /\ QueueInv'
  BY DEF IInv, TypeOK, QueueOK
<1>5. QED
  BY <1>2, <1>3, <1>4 DEF IInv

LEMMA ThrowStep ==
    ASSUME IInv, NEW w \in Workers, worker[w] # Resting, Throw(w),
           UNCHANGED <<adminRoles, decisions, account, user, request, posted>>,
           faults' \in 0..MaxFaults
    PROVE  IInv'
<1>1. /\ worker' = [worker EXCEPT ![w] = Resting]
      /\ FailAttempt(worker[w].job)
  BY DEF Throw
<1>2. QED
  BY <1>1, WorkerRests, WorkerStep

LEMMA CreateAccountStep == ASSUME IInv, NEW w \in Workers, CreateAccount(w) PROVE IInv'
<1> DEFINE a == AccountOf(w)
<1>1. worker[w] # Resting /\ a \in Wallets
  BY RestingStep, BusyWorker DEF CreateAccount
<1>2. UNCHANGED <<adminRoles, decisions, user, request, posted, faults>>
      /\ faults' \in 0..MaxFaults
  BY DEF CreateAccount, IInv, TypeOK
<1>3. CASE account' = account /\ Throw(w)
  BY <1>1, <1>2, <1>3, ThrowStep
<1>4. CASE /\ ~Exists(a)
           /\ account' = [account EXCEPT ![a] = "ACTIVE"]
           /\ Proceed(w, "create_user")
  <2>1. /\ QueueOK' /\ Owned' /\ worker' \in [Workers -> WorkerState \cup {Resting}]
        /\ \A b \in Wallets : b # a => Creators(b)' = Creators(b) \ {w}
        /\ \A b \in Wallets : b = a => Creators(b)' = Creators(b) \cup {w}
    BY <1>1, <1>4, WorkerProceeds
  <2> HIDE DEF a
  <2>2. /\ account' \in [Wallets -> AccountStatus \cup {"ABSENT"}]
        /\ account'[a] # "ABSENT"
        /\ \A b \in Wallets : b # a => account'[b] = account[b]
    BY <1>1, <1>4 DEF IInv, TypeOK, AccountStatus
  <2>3. \A b \in Wallets : UsersOf(b)' = UsersOf(b)
    BY <1>2 DEF UsersOf
  <2>4. ASSUME NEW b \in Wallets PROVE AccountSound(b)'
    <3>1. AccountSound(b)
      BY DEF IInv
    <3>2. CASE b = a
      <4>1. UsersOf(b) = {} /\ Creators(b) = {}
        BY <1>4, <3>1, <3>2 DEF AccountSound
      <4>2. Creators(b)' = {w}
        BY <2>1, <3>2, <4>1
      <4>3. Cardinality(UsersOf(b)') = 0 /\ Cardinality(Creators(b)') = 1
        BY <2>3, <4>1, <4>2, FS_EmptySet, FS_Singleton
      <4>4. posted'[b] = posted[b] /\ posted[b] \in Nat
        BY <1>2, Counts
      <4>5. posted[b] <= Cardinality(UsersOf(b)')
        BY <2>3, <3>1 DEF AccountSound
      <4>6. QED
        BY <2>2, <3>2, <4>3, <4>4, <4>5 DEF AccountSound, Exists
    <3>3. CASE b # a
      <4>1. Creators(b)' \subseteq Creators(b)
        BY <2>1, <3>3
      <4>2. /\ Cardinality(Creators(b)') <= Cardinality(Creators(b))
            /\ Cardinality(Creators(b)') \in Nat
        BY <4>1, Counts, FS_Subset, FS_CardinalityType
      <4>3. posted'[b] = posted[b] /\ UsersOf(b)' = UsersOf(b)
        BY <1>2, <2>3
      <4>4. Cardinality(UsersOf(b)) + Cardinality(Creators(b)') <= posted[b] + 1
        BY <3>1, <4>2, Counts DEF AccountSound
      <4>5. account'[b] = account[b]
        BY <2>2, <3>3
      <4>6. QED
        BY <3>1, <4>1, <4>3, <4>4, <4>5 DEF AccountSound, Exists
    <3>4. QED
      BY <3>2, <3>3
  <2>5. \A q \in Requests : RequestSound(q)'
    <3>1. \A b \in Wallets : Exists(b) => Exists(b)'
      BY <2>2 DEF Exists
    <3>2. QED
      BY <1>2, <2>3, <3>1, RequestsStay
  <2>6. TypeOK' /\ QueueInv'
    BY <1>2, <2>1, <2>2 DEF IInv, TypeOK, QueueOK
  <2>7. QED
    BY <2>1, <2>4, <2>5, <2>6 DEF IInv
<1>5. QED
  BY <1>3, <1>4 DEF CreateAccount

LEMMA CreateFirstUserStep == ASSUME IInv, NEW w \in Workers, CreateFirstUser(w) PROVE IInv'
<1>1. worker[w] # Resting /\ worker[w].step = "create_user"
  BY RestingStep DEF CreateFirstUser
<1> PICK a \in Wallets : a = AccountOf(w)
  BY <1>1, BusyWorker
<1>2. UNCHANGED <<adminRoles, decisions, account, request, posted, faults>>
      /\ faults' \in 0..MaxFaults
  BY DEF CreateFirstUser, IInv, TypeOK
<1>3. CASE user' = user /\ Throw(w)
  BY <1>1, <1>2, <1>3, ThrowStep
<1>4. CASE AddUser(a, "Active") /\ Proceed(w, "log")
  <2>1. /\ QueueOK' /\ Owned' /\ worker' \in [Workers -> WorkerState \cup {Resting}]
        /\ \A b \in Wallets : Creators(b)' = Creators(b) \ {w}
    BY <1>1, <1>4, WorkerProceeds
  <2>2. w \in Creators(a)
    BY <1>1 DEF Creators
  <2>3. "Active" \in UserStatus
    BY DEF UserStatus
  <2>4. /\ user' \in [Users -> [account : Wallets, status : UserStatus] \cup {NoUser}]
        /\ Cardinality(UsersOf(a)') = Cardinality(UsersOf(a)) + 1
        /\ \A b \in Wallets : b # a => UsersOf(b)' = UsersOf(b)
        /\ \A b \in Wallets : UsersOf(b) \subseteq UsersOf(b)'
    BY <1>1, <1>4, <2>3, NewUser
  <2>5. Cardinality(Creators(a)') = Cardinality(Creators(a)) - 1
    BY <1>1, <2>1, <2>2, Counts, FS_RemoveElement
  <2>6. \A b \in Wallets : Exists(b)' = Exists(b)
    BY <1>2 DEF Exists
  <2>7. ASSUME NEW b \in Wallets PROVE AccountSound(b)'
    <3>1. AccountSound(b) /\ posted'[b] = posted[b]
      BY <1>2 DEF IInv
    <3>2. CASE b = a
      <4>1. Exists(b)
        BY <2>2, <3>1, <3>2 DEF AccountSound
      <4>2. /\ Cardinality(UsersOf(b)') + Cardinality(Creators(b)') <= posted[b] + 1
            /\ posted[b] <= Cardinality(UsersOf(b)')
        BY <2>4, <2>5, <3>1, <3>2, Counts DEF AccountSound
      <4>3. QED
        BY <2>6, <3>1, <4>1, <4>2 DEF AccountSound
    <3>3. CASE b # a
      <4>1. Creators(b)' \subseteq Creators(b) /\ UsersOf(b)' = UsersOf(b)
        BY <2>1, <2>4, <3>3
      <4>2. /\ Cardinality(Creators(b)') <= Cardinality(Creators(b))
            /\ Cardinality(Creators(b)') \in Nat
        BY <4>1, Counts, FS_Subset, FS_CardinalityType
      <4>3. Cardinality(UsersOf(b)) + Cardinality(Creators(b)') <= posted[b] + 1
        BY <3>1, <4>2, Counts DEF AccountSound
      <4>4. QED
        BY <2>6, <3>1, <4>1, <4>3 DEF AccountSound
    <3>4. QED
      BY <3>2, <3>3
  <2>8. \A q \in Requests : RequestSound(q)'
    BY <1>2, <2>4, <2>6, RequestsStay
  <2>9. TypeOK' /\ QueueInv'
    BY <1>2, <2>1, <2>4 DEF IInv, TypeOK, QueueOK
  <2>10. QED
    BY <2>1, <2>7, <2>8, <2>9 DEF IInv
<1>5. QED
  BY <1>3, <1>4 DEF CreateFirstUser

(* The handler returns, an operation fails, or the worker process dies. *)
LEMMA EndStep ==
    ASSUME IInv, NEW w \in Workers, LogAndReturn(w) \/ OperationFails(w) \/ WorkerDies(w)
    PROVE  IInv'
<1>1. worker[w] # Resting
  BY RestingStep DEF LogAndReturn, OperationFails, WorkerDies
<1>2. /\ worker' = [worker EXCEPT ![w] = Resting]
      /\ \/ CompleteJob(worker[w].job) \/ FailAttempt(worker[w].job)
         \/ UNCHANGED queueVars
      /\ UNCHANGED <<adminRoles, decisions, account, user, request, posted>>
  BY DEF LogAndReturn, OperationFails, WorkerDies, Throw
<1>3. faults' \in 0..MaxFaults
  BY AccountsAssumption DEF LogAndReturn, OperationFails, WorkerDies, IInv, TypeOK
<1>4. /\ QueueOK' /\ Owned' /\ worker' \in [Workers -> WorkerState \cup {Resting}]
      /\ \A a \in Wallets : Creators(a)' = Creators(a) \ {w}
  BY <1>1, <1>2, WorkerRests
<1>5. QED
  BY <1>2, <1>3, <1>4, WorkerStep

-----------------------------------------------------------------------------
(* The invariant holds. *)
LEMMA InitOK == Init => IInv
<1> SUFFICES ASSUME Init PROVE IInv
  OBVIOUS
<1>1. QueueOK /\ QueueTypeOK /\ QueueInv
  BY QueueInitOK DEF Init, QueueOK
<1>2. IsFiniteSet(Users) /\ Cardinality(Users) \in Nat
  BY AccountsAssumption, FS_CardinalityType
<1>3. 0 \in 0..Cardinality(Users) /\ 0 \in 0..MaxFaults
  BY <1>2, AccountsAssumption
<1>4. TypeOK
  BY <1>1, <1>3, EmptySeq DEF Init, TypeOK, AccountStatus
<1>5. \A a \in Wallets : UsersOf(a) = {} /\ Creators(a) = {}
  BY AccountsAssumption DEF Init, UsersOf, NoUser, Creators, Resting
<1>6. Cardinality({}) = 0
  BY FS_EmptySet
<1>7. ASSUME NEW a \in Wallets PROVE AccountSound(a)
  <2>1. /\ Cardinality(UsersOf(a)) = 0 /\ Cardinality(Creators(a)) = 0 /\ posted[a] = 0
    BY <1>5, <1>6 DEF Init
  <2>2. QED
    BY <1>5, <2>1 DEF AccountSound
<1>8. \A q \in Requests : RequestSound(q)
  BY DEF Init, RequestSound, Idle
<1>9. Owned
  BY DEF Init, Owned
<1>10. QED
  BY <1>1, <1>4, <1>7, <1>8, <1>9 DEF IInv

LEMMA StepOK == IInv /\ [Next]_vars => IInv'
<1> SUFFICES ASSUME IInv, [Next]_vars PROVE IInv'
  OBVIOUS
<1>1. CASE UNCHANGED vars
  <2>1. QueueOK' /\ JobsHeld
    BY <1>1, QueueSound, QueueUnchanged DEF vars, queueVars, JobsHeld
  <2>2. UNCHANGED <<adminRoles, decisions, account, user, posted, worker, request, faults>>
    BY <1>1 DEF vars
  <2>3. /\ decisions' \in [Registrations -> Seq(Decision)] /\ faults' \in 0..MaxFaults
        /\ request' \in [Requests -> RequestState \cup {Idle}]
    BY <2>2 DEF IInv, TypeOK
  <2>4. QED
    BY <2>1, <2>2, <2>3, QueueStep
<1>2. CASE Portal
  BY <1>2, DecideStep, BeginUserStep, BeginStatusStep, UpdateUserStep DEF Portal
<1>3. ASSUME NEW q \in Requests, ApiStep(q) \/ RequestFails(q) PROVE IInv'
  BY <1>3, AddJobStep, SetStatusStep, CreateUserStep, SuspendUserStep, RequestFailsStep
     DEF ApiStep
<1>4. ASSUME NEW w \in Workers, HandlerStep(w) \/ OperationFails(w) \/ WorkerDies(w)
      PROVE  IInv'
  BY <1>4, TakeStep, CreateAccountStep, CreateFirstUserStep, EndStep DEF HandlerStep
<1>5. ASSUME NEW j \in JobId, Retry(j) \/ Recover(j) PROVE IInv'
  BY <1>5, ComeBackStep
<1>6. QED
  BY <1>1, <1>2, <1>3, <1>4, <1>5 DEF Next

LEMMA InvariantHolds == Spec => []IInv
BY InitOK, StepOK, PTL DEF Spec

(* Type correctness, with every user in a wallet's account and no more     *)
(* users posted to an account than there are.                              *)
THEOREM TypeCorrect == Spec => []TypeOK
<1>1. IInv => TypeOK
  BY DEF IInv
<1>2. QED
  BY InvariantHolds, <1>1, PTL

(* However approvals, retries, stalls and registrations of one wallet come *)
(* together, an account gets no second first user.                         *)
THEOREM FirstUserOnce == Spec => []OneFirstUser
<1>1. IInv => OneFirstUser
  BY DEF IInv, AccountSound, OneFirstUser, Creators
<1>2. QED
  BY InvariantHolds, <1>1, PTL

-----------------------------------------------------------------------------
(* One request at a time: users that a suspension has done stay suspended. *)
LEMMA LockStays ==
    ASSUME IInv, LockSound, NEW q \in Requests,
           \A a \in Wallets : \A u \in UsersOf(a) : user'[u] = user[u],
           \/ request'[q] = request[q] \/ request'[q] = Idle
           \/ request'[q].step \in {"add_account_job", "create_user"}
    PROVE  request'[q].step \in {"suspend_users", "set_status"} =>
             /\ \A u \in request'[q].seen \ request'[q].todo : user'[u].status = "Suspended"
             /\ request'[q].step = "set_status" => request'[q].todo = {}
<1>1. CASE request'[q] = Idle \/ request'[q].step \in {"add_account_job", "create_user"}
  BY <1>1 DEF Idle
<1>2. CASE request'[q] = request[q] /\ request[q].step \in {"suspend_users", "set_status"}
  <2>1. PICK a \in Wallets : a = request[q].account
    BY <1>2, RequestTyped
  <2>2. request[q].seen \subseteq UsersOf(a)
    BY <1>2, <2>1 DEF IInv, RequestSound
  <2>3. \A u \in request[q].seen : user'[u] = user[u]
    BY <2>2
  <2>4. QED
    BY <1>2, <2>3 DEF LockSound
<1>3. QED
  BY <1>1, <1>2

LEMMA LockStep ==
    ASSUME IInv, LockSound, NEW only, Requests = {only}, [Next]_vars
    PROVE  LockSound'
<1> DEFINE Kept == \A a \in Wallets : \A u \in UsersOf(a) : user'[u] = user[u]
           Leaves == \/ request'[only] = request[only] \/ request'[only] = Idle
                     \/ request'[only].step \in {"add_account_job", "create_user"}
<1>1. Kept /\ Leaves => LockSound'
  BY LockStays DEF LockSound
<1>2. only \in Requests /\ request[only] \in RequestState \cup {Idle}
  BY RequestTyped
<1>3. ASSUME NEW q \in Requests, NEW g \in Registrations, NEW d \in Decision,
             Decide(q, g, d)
      PROVE  LockSound'
  <2>1. Kept
    BY <1>3 DEF Decide
  <2>2. Leaves
    <3> DEFINE s == [step |-> "add_account_job", registration |-> g]
    <3>1. request' = request \/ request' = [request EXCEPT ![only] = s]
      BY <1>3 DEF Decide
    <3>2. s.step = "add_account_job"
      OBVIOUS
    <3> HIDE DEF s
    <3>3. QED
      BY <1>2, <3>1, <3>2 DEF IInv, TypeOK
  <2>3. QED
    BY <1>1, <2>1, <2>2
<1>4. ASSUME NEW q \in Requests, NEW a \in Wallets, BeginUser(q, a) PROVE LockSound'
  <2>1. Kept
    BY <1>4 DEF BeginUser
  <2>2. Leaves
    BY <1>2, <1>4 DEF BeginUser, IInv, TypeOK
  <2>3. QED
    BY <1>1, <2>1, <2>2
<1>5. ASSUME NEW q \in Requests, AddAccountJob(q) \/ SetStatus(q) \/ RequestFails(q)
      PROVE  LockSound'
  <2>1. Kept
    BY <1>5 DEF AddAccountJob, SetStatus, RequestFails
  <2>2. Leaves
    BY <1>2, <1>5 DEF AddAccountJob, SetStatus, RequestFails, IInv, TypeOK
  <2>3. QED
    BY <1>1, <2>1, <2>2
<1>6. ASSUME NEW q \in Requests, NEW status \in AskedUser, CreateUser(q, status)
      PROVE  LockSound'
  <2>1. PICK a \in Wallets : a = request[q].account
    BY <1>6, RequestTyped DEF CreateUser
  <2>2. AddUser(a, status) /\ status \in UserStatus
    BY <1>6, <2>1, AccountsAssumption DEF CreateUser, UserStatus
  <2>3. Kept
    BY <2>2, NewUser
  <2>4. Leaves
    BY <1>2, <1>6 DEF CreateUser, IInv, TypeOK
  <2>5. QED
    BY <1>1, <2>3, <2>4
<1>7. ASSUME NEW q \in Requests, NEW u \in Users, NEW status \in AskedUser,
             UpdateUser(q, u, status)
      PROVE  LockSound'
  BY <1>7 DEF UpdateUser, LockSound, Idle
<1>8. ASSUME NEW q \in Requests, NEW a \in Wallets, NEW status \in AskedStatuses,
             BeginStatus(q, a, status)
      PROVE  LockSound'
  <2> DEFINE todo == IF status \in LockedOut THEN UsersOf(a) ELSE {}
             step == IF todo = {} THEN "set_status" ELSE "suspend_users"
             state == [step |-> step, account |-> a, status |-> status,
                       seen |-> todo, todo |-> todo]
  <2>1. request' = [request EXCEPT ![only] = state] /\ (step = "set_status" => todo = {})
    BY <1>8 DEF BeginStatus
  <2>2. /\ request'[only].seen = todo /\ request'[only].todo = todo
        /\ request'[only].step = step
    BY <1>2, <2>1 DEF IInv, TypeOK
  <2> HIDE DEF todo, step
  <2>3. QED
    BY <2>1, <2>2 DEF LockSound
<1>9. ASSUME NEW q \in Requests, NEW u \in Users, SuspendUser(q, u) PROVE LockSound'
  <2>1. /\ request[only].step = "suspend_users" /\ u \in request[only].todo
        /\ request[only] \in [step : {"suspend_users", "set_status"}, account : Wallets,
                              status : AccountStatus, seen : SUBSET Users,
                              todo : SUBSET Users]
        /\ RequestSound(only)
    BY <1>2, <1>9, RequestTyped DEF SuspendUser, IInv
  <2>2. /\ request'[only].seen = request[only].seen
        /\ request'[only].todo = request[only].todo \ {u}
        /\ request'[only].step = "set_status" => request[only].todo = {u}
    BY <1>2, <1>9, <2>1 DEF SuspendUser, IInv, TypeOK
  <2>3. user[u] # NoUser
    BY <2>1, AccountsAssumption DEF RequestSound, UsersOf, NoUser
  <2>4. "Suspended" \in UserStatus /\ user' = [user EXCEPT ![u].status = "Suspended"]
    BY <1>9 DEF SuspendUser, UserStatus
  <2>5. user'[u].status = "Suspended" /\ \A v \in Users : v # u => user'[v] = user[v]
    BY <2>3, <2>4, StatusSet
  <2>6. \A v \in request[only].seen \ request[only].todo : user[v].status = "Suspended"
    BY <2>1 DEF LockSound
  <2>7. QED
    BY <2>1, <2>2, <2>5, <2>6 DEF LockSound
<1>10. ASSUME NEW w \in Workers, HandlerStep(w) \/ OperationFails(w) \/ WorkerDies(w)
       PROVE  LockSound'
  <2>1. request' = request
    BY <1>10 DEF HandlerStep, Take, CreateAccount, CreateFirstUser, LogAndReturn,
                 OperationFails, WorkerDies
  <2>2. CASE user' = user
    BY <1>1, <2>1, <2>2
  <2>3. CASE CreateFirstUser(w)
    <3>1. worker[w] # Resting
      BY <2>3, RestingStep DEF CreateFirstUser
    <3>2. PICK a \in Wallets : a = AccountOf(w)
      BY <3>1, BusyWorker
    <3>3. user' = user \/ AddUser(a, "Active")
      BY <2>3, <3>2 DEF CreateFirstUser
    <3>4. "Active" \in UserStatus
      BY DEF UserStatus
    <3>5. Kept
      BY <3>3, <3>4, NewUser
    <3>6. QED
      BY <1>1, <2>1, <3>5
  <2>4. QED
    BY <1>10, <2>2, <2>3 DEF HandlerStep, Take, CreateAccount, LogAndReturn,
                             OperationFails, WorkerDies
<1>11. ASSUME NEW j \in JobId, Retry(j) \/ Recover(j) PROVE LockSound'
  BY <1>1, <1>11 DEF Retry, Recover
<1>12. CASE UNCHANGED vars
  BY <1>1, <1>12 DEF vars
<1> HIDE DEF Kept, Leaves
<1>13. QED
  BY <1>3, <1>4, <1>5, <1>6, <1>7, <1>8, <1>9, <1>10, <1>11, <1>12
     DEF Next, Portal, ApiStep

(* When requests are handled one at a time, a user that is active in an    *)
(* account at the moment it is suspended or closed was created after the   *)
(* handler read the users of the account.                                  *)
THEOREM LocksOut ==
    ASSUME NEW only, Requests = {only}
    PROVE  Spec => SuspensionLocksOut
<1> DEFINE Locks ==
      \A a \in Wallets :
         account'[a] \in LockedOut /\ account[a] \notin LockedOut =>
            \A u \in UsersOf(a) :
                user[u].status = "Active" =>
                    \E q \in Requests :
                        /\ request[q] # Idle /\ request'[q] = Idle
                        /\ u \notin request[q].seen
<1>1. Init => LockSound
  BY DEF Init, LockSound, Idle
<1>2. IInv /\ LockSound /\ [Next]_vars => LockSound'
  BY LockStep
<1>3. ASSUME IInv, LockSound, [Next]_vars PROVE Locks
  <2> SUFFICES ASSUME NEW a \in Wallets,
                      account'[a] \in LockedOut, account[a] \notin LockedOut,
                      NEW u \in UsersOf(a), user[u].status = "Active"
               PROVE  /\ request[only] # Idle /\ request'[only] = Idle
                      /\ u \notin request[only].seen
    OBVIOUS
  <2>1. SetStatus(only)
    <3>1. account' # account
      OBVIOUS
    <3>2. ASSUME NEW w \in Workers, CreateAccount(w) PROVE FALSE
      <4>1. PICK b : account' = [account EXCEPT ![b] = "ACTIVE"]
        BY <3>1, <3>2 DEF CreateAccount
      <4>2. account'[a] \in {"ACTIVE", account[a]}
        BY <1>3, <4>1 DEF IInv, TypeOK
      <4>3. QED
        BY <4>2 DEF LockedOut
    <3>3. QED
      BY <1>3, <3>1, <3>2 DEF Next, Portal, Decide, BeginUser, BeginStatus, UpdateUser,
         ApiStep, AddAccountJob, CreateUser, SuspendUser, RequestFails, HandlerStep, Take,
         CreateFirstUser, LogAndReturn, OperationFails, WorkerDies, Retry, Recover, vars
  <2>2. request[only] # Idle /\ request'[only] = Idle
    BY <1>3, <2>1 DEF SetStatus, Idle, IInv, TypeOK
  <2>3. \A v \in request[only].seen : user[v].status = "Suspended"
    BY <1>3, <2>1 DEF SetStatus, LockSound
  <2>4. QED
    BY <2>2, <2>3
<1>4. QED
  BY InvariantHolds, <1>1, <1>2, <1>3, PTL DEF Spec, SuspensionLocksOut
=============================================================================
