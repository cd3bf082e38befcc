----------------------------- MODULE Onboarding -----------------------------
(***************************************************************************)
(* From a registration to an onboarding record with its automated checks.  *)
(* RegistrationService (in the API processes) stores the registration and  *)
(* then adds a job; NewOnboardingQueueProcessor (in the workers) creates   *)
(* the onboarding record, links a checklist to it and queues one check per *)
(* automated item of the checklist, each in an operation of its own.       *)
(*                                                                         *)
(* As in FundingRequests, an action is one database or queue operation     *)
(* with the code up to the next.  Registrations are never removed and      *)
(* their wallet never changes, so the reads that fetch them again, and the *)
(* checklist instances nobody reads before they are linked, have no action *)
(* of their own.                                                           *)
(***************************************************************************)
EXTENDS JobQueue

CONSTANTS
    Registrations,    \* registration ids, a fresh uuid for each request
    NoRegistration,
    Wallets,
    NoWallet,
    Requests,         \* the HTTP requests the API serves at the same time
    Workers,          \* the worker processes
    Checks,           \* the automated items of the checklist template
    MaxFaults,        \* bound: operations that fail or processes that die
    MaxDirect         \* bound: records per registration posted to the API

ASSUME OnboardingAssumption ==
    /\ Payload = Registrations
    /\ NoRegistration \notin Registrations
    /\ NoWallet \notin Wallets
    /\ IsFiniteSet(Workers)
    /\ Checks \in Nat \ {0}
    /\ MaxFaults \in Nat
    /\ MaxDirect \in Nat

VARIABLES
    wallet,    \* wallet[g]: the wallet of registration g, once it is stored
    holders,   \* the wallets that have an account
    request,   \* request[q]: where the API handler q is
    records,   \* records[g]: the onboarding records of g
    worker,    \* worker[w]: where the processor w is, with which job and record
    direct,    \* direct[g]: records of g that came from POST onboarding
    faults     \* how many faults have happened

vars == <<jobs, wait, added, wallet, holders, request, records, worker, direct, faults>>

RequestState ==
    [step : {"create_registration", "add_job"},
     registration : Registrations, wallet : Wallets]
Record == [linked : BOOLEAN, queued : 0..Checks]
WorkerState ==
    [step : {"look", "create_record", "link_checklist", "queue_checks", "log"},
     job : JobId, record : Nat]

Idle == [step |-> "idle", registration |-> NoRegistration, wallet |-> NoWallet]
Resting == [step |-> "idle", job |-> 0, record |-> 0]
NewRecord == [linked |-> FALSE, queued |-> 0]

TypeOK ==
    /\ QueueTypeOK
    /\ wallet \in [Registrations -> Wallets \cup {NoWallet}]
    /\ holders \in SUBSET Wallets
    /\ request \in [Requests -> RequestState \cup {Idle}]
    /\ records \in [Registrations -> Seq(Record)]
    /\ worker \in [Workers -> WorkerState \cup {Resting}]
    /\ direct \in [Registrations -> 0..MaxDirect]
    /\ faults \in 0..MaxFaults

Init ==
    /\ QueueInit
    /\ wallet = [g \in Registrations |-> NoWallet]
    /\ holders = {}
    /\ request = [q \in Requests |-> Idle]
    /\ records = [g \in Registrations |-> <<>>]
    /\ worker = [w \in Workers |-> Resting]
    /\ direct = [g \in Registrations |-> 0]
    /\ faults = 0

Registered(g) == wallet[g] # NoWallet
-----------------------------------------------------------------------------
(* The registration. *)

(* Both exists queries of createRegistration.  The one on registrations    *)
(* asks for a top-level accountWalletAddress, which no registration has    *)
(* (it is company.accountWalletAddress): it never finds one.               *)
WalletFree(a) == a \in Wallets \ holders

(* POST registration: the id is new. *)
BeginRegistration(q, g, a) ==
    /\ request[q] = Idle
    /\ ~Registered(g) /\ \A p \in Requests : request[p].registration # g
    /\ WalletFree(a)
    /\ request' = [request EXCEPT ![q] =
          [step |-> "create_registration", registration |-> g, wallet |-> a]]
    /\ UNCHANGED <<queueVars, wallet, holders, records, worker, direct, faults>>

CreateRegistration(q) ==
    /\ request[q].step = "create_registration"
    /\ wallet' = [wallet EXCEPT ![request[q].registration] = request[q].wallet]
    /\ request' = [request EXCEPT ![q].step = "add_job"]
    /\ UNCHANGED <<queueVars, holders, records, worker, direct, faults>>

AddJob(q) ==
    /\ request[q].step = "add_job"
    /\ Enqueue(request[q].registration)
    /\ request' = [request EXCEPT ![q] = Idle]
    /\ UNCHANGED <<wallet, holders, records, worker, direct, faults>>

(* The API process dies, or the next operation of the handler throws. *)
RequestFails(q) ==
    /\ faults < MaxFaults
    /\ request[q] # Idle
    /\ faults' = faults + 1
    /\ request' = [request EXCEPT ![q] = Idle]
    /\ UNCHANGED <<queueVars, wallet, holders, records, worker, direct>>

(* An account is created: module Accounts says when. *)
OpenAccount(a) ==
    /\ a \notin holders
    /\ holders' = holders \cup {a}
    /\ UNCHANGED <<queueVars, wallet, request, records, worker, direct, faults>>

(* POST onboarding: createOnboardingProcessing finds the registration and  *)
(* does not look for a record; nothing queues checks for this one.         *)
PostRecord(g) ==
    /\ Registered(g)
    /\ direct[g] < MaxDirect
    /\ direct' = [direct EXCEPT ![g] = @ + 1]
    /\ records' = [records EXCEPT ![g] = Append(@, NewRecord)]
    /\ UNCHANGED <<queueVars, wallet, holders, request, worker, faults>>
-----------------------------------------------------------------------------
(* The processor. *)

RegistrationOf(w) == jobs[worker[w].job].data

Take(w) ==
    /\ worker[w] = Resting
    /\ \E j \in JobId :
        /\ TakeJob(j)
        /\ worker' = [worker EXCEPT ![w] = [step |-> "look", job |-> j, record |-> 0]]
    /\ UNCHANGED <<wallet, holders, request, records, direct, faults>>

(* A step of the handler throws: BullMQ counts the attempt as failed. *)
Throw(w) ==
    /\ FailAttempt(worker[w].job)
    /\ worker' = [worker EXCEPT ![w] = Resting]

(* Mutant of Look: a retry creates another record. *)
LookPast(w) ==
    /\ worker[w].step = "look"
    /\ worker' = [worker EXCEPT ![w].step = "create_record"]
    /\ UNCHANGED <<queueVars, wallet, holders, request, records, direct, faults>>

(* Mutant of Look: a retry that finds the record has nothing to do. *)
LookAndReturn(w) ==
    /\ worker[w].step = "look"
    /\ \/ /\ records[RegistrationOf(w)] = <<>>
          /\ worker' = [worker EXCEPT ![w].step = "create_record"]
          /\ UNCHANGED queueVars
       \/ /\ records[RegistrationOf(w)] # <<>>
          /\ CompleteJob(worker[w].job)
          /\ worker' = [worker EXCEPT ![w] = Resting]
    /\ UNCHANGED <<wallet, holders, request, records, direct, faults>>

(* The processor throws when the registration has a record already: also   *)
(* when an earlier attempt of the same job made it.                        *)
Look(w) ==
    /\ worker[w].step = "look"
    /\ \/ /\ records[RegistrationOf(w)] = <<>>
          /\ worker' = [worker EXCEPT ![w].step = "create_record"]
          /\ UNCHANGED queueVars
       \/ /\ records[RegistrationOf(w)] # <<>>
          /\ Throw(w)
    /\ UNCHANGED <<wallet, holders, request, records, direct, faults>>

CreateRecord(w) ==
    LET g == RegistrationOf(w)
    IN  /\ worker[w].step = "create_record"
        /\ records' = [records EXCEPT ![g] = Append(@, NewRecord)]
        /\ worker' = [worker EXCEPT ![w].step = "link_checklist",
                                    ![w].record = Len(records[g]) + 1]
        /\ UNCHANGED <<queueVars, wallet, holders, request, direct, faults>>

LinkChecklist(w) ==
    /\ worker[w].step = "link_checklist"
    /\ records' = [records EXCEPT ![RegistrationOf(w)][worker[w].record].linked = TRUE]
    /\ worker' = [worker EXCEPT ![w].step = "queue_checks"]
    /\ UNCHANGED <<queueVars, wallet, holders, request, direct, faults>>

(* Mutant of QueueCheck: one item too few. *)
QueueAllButOne(w) ==
    LET g == RegistrationOf(w)
        i == worker[w].record
    IN  /\ worker[w].step = "queue_checks"
        /\ records' = [records EXCEPT ![g][i].queued = @ + 1]
        /\ worker' = [worker EXCEPT ![w].step =
              IF records'[g][i].queued >= Checks - 1 THEN "log" ELSE @]
        /\ UNCHANGED <<queueVars, wallet, holders, request, direct, faults>>

(* queueAutomatedChecks: one add per automated item, in order. *)
QueueCheck(w) ==
    LET g == RegistrationOf(w)
        i == worker[w].record
    IN  /\ worker[w].step = "queue_checks"
        /\ records' = [records EXCEPT ![g][i].queued = @ + 1]
        /\ worker' = [worker EXCEPT ![w].step =
              IF records'[g][i].queued = Checks THEN "log" ELSE @]
        /\ UNCHANGED <<queueVars, wallet, holders, request, direct, faults>>

(* The audit event is written and the handler returns. *)
LogAndReturn(w) ==
    /\ worker[w].step = "log"
    /\ CompleteJob(worker[w].job)
    /\ worker' = [worker EXCEPT ![w] = Resting]
    /\ UNCHANGED <<wallet, holders, request, records, direct, faults>>

OperationFails(w) ==
    /\ faults < MaxFaults
    /\ worker[w] # Resting
    /\ faults' = faults + 1
    /\ Throw(w)
    /\ UNCHANGED <<wallet, holders, request, records, direct>>

(* The worker process dies and is restarted; its job stays active. *)
WorkerDies(w) ==
    /\ faults < MaxFaults
    /\ worker[w] # Resting
    /\ faults' = faults + 1
    /\ worker' = [worker EXCEPT ![w] = Resting]
    /\ UNCHANGED <<queueVars, wallet, holders, request, records, direct>>

Retry(j) ==
    /\ PromoteDelayed(j)
    /\ UNCHANGED <<wallet, holders, request, records, worker, direct, faults>>

Recover(j) ==
    /\ \A w \in Workers : worker[w].job # j
    /\ RecoverStalled(j)
    /\ UNCHANGED <<wallet, holders, request, records, worker, direct, faults>>
-----------------------------------------------------------------------------
ApiStep(q) == CreateRegistration(q) \/ AddJob(q)

HandlerStep(w) ==
    \/ Take(w) \/ Look(w)
    \/ CreateRecord(w) \/ LinkChecklist(w) \/ QueueCheck(w) \/ LogAndReturn(w)

Next ==
    \/ \E q \in Requests, g \in Registrations, a \in Wallets : BeginRegistration(q, g, a)
    \/ \E q \in Requests : ApiStep(q) \/ RequestFails(q)
    \/ \E a \in Wallets : OpenAccount(a)
    \/ \E g \in Registrations : PostRecord(g)
    \/ \E w \in Workers : HandlerStep(w) \/ OperationFails(w) \/ WorkerDies(w)
    \/ \E j \in JobId : Retry(j) \/ Recover(j)

Spec == Init /\ [][Next]_vars

(* Workers that keep running take jobs and finish them, API processes      *)
(* finish what they have begun, backoffs elapse and stalled jobs are found *)
Fairness ==
    /\ \A q \in Requests : WF_vars(ApiStep(q))
    /\ \A w \in Workers : WF_vars(HandlerStep(w))
    /\ \A j \in JobId : WF_vars(Retry(j)) /\ WF_vars(Recover(j))

FairSpec == Spec /\ Fairness
-----------------------------------------------------------------------------
Creating(g) == {w \in Workers : worker[w].step = "create_record" /\ RegistrationOf(w) = g}

(* However often the job of a registration is retried or handed to another *)
(* worker, it makes one record: the look-up at the start of every attempt  *)
(* and the single job per registration together see to it.                 *)
OneRecordPerRegistration ==
    \A g \in Registrations : Len(records[g]) + Cardinality(Creating(g)) <= direct[g] + 1

(* A record with all that the processor owes it. *)
Checked(g) ==
    \E i \in DOMAIN records[g] : records[g][i] = [linked |-> TRUE, queued |-> Checks]

(* A job completes only when each check was queued, exactly once: an       *)
(* attempt that was cut short is never taken for a finished one.           *)
CompletedMeansChecked ==
    \A j \in JobId : jobs[j].state = "completed" => Checked(jobs[j].data)

(* A stored registration is onboarded with its checks, unless something    *)
(* fails or a record is posted by hand: each of the two can keep the job   *)
(* of a registration from ever getting past its look-up.                   *)
RegistrationsOnboarded ==
    [](faults = 0 /\ \A g \in Registrations : direct[g] = 0) =>
        \A g \in Registrations : Registered(g) ~> Checked(g)
=============================================================================
