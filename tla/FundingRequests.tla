--------------------------- MODULE FundingRequests --------------------------
(***************************************************************************)
(* Funding requests: the customer side (TradeFinanceService, in the API    *)
(* processes) and the deal desk side (FundingRequestProcessor, in the      *)
(* worker processes) share no transaction.  The customer side changes the  *)
(* status of the deal and adds a job to the customer-funding-requests      *)
(* queue, in that order for a request and in the other for a withdrawal;   *)
(* a worker turns the jobs into DealProcessing records.                    *)
(*                                                                         *)
(* A handler is split at its awaits: each action is one database or queue  *)
(* operation together with the code up to the next one.  A request that    *)
(* the handler refuses changes nothing and has no action.                  *)
(***************************************************************************)
EXTENDS JobQueue

CONSTANTS
    Deals,       \* the trade finance deals
    NoDeal,
    Requests,    \* the HTTP requests the API serves at the same time
    Workers,     \* the worker processes (three replicas in k8s)
    Terms,       \* what a customer can edit in a deal
    MaxFaults,   \* bound: operations that fail or processes that die
    MaxDirect    \* bound: records per deal posted to the deal desk's API

ASSUME FundingAssumption ==
    /\ NoDeal \notin Deals
    /\ IsFiniteSet(Workers) /\ IsFiniteSet(Requests)
    /\ MaxFaults \in Nat
    /\ MaxDirect \in Nat
    /\ Payload = [name : {"NEW_FUNDING_REQUEST", "WITHDRAW_FUNDING_REQUEST"},
                  deal : Deals]

VARIABLES
    deal,      \* deal[d]: dealStatus and terms of the trade finance deal
    records,   \* records[d]: the decisions of d's DealProcessing records,
               \* oldest first: findOne and findOneAndDelete meet them in order
    request,   \* request[r]: where the API handler r is, and for which deal
    worker,    \* worker[w]: where the processor w is, and with which job
    direct,    \* direct[d]: records of d that came from POST deal-desk
    faults     \* how many faults have happened

vars == <<jobs, wait, added, deal, records, request, worker, direct, faults>>

DealStatus == {"ABSENT", "IN_PROGRESS", "FUNDING_REQUESTED", "DELETED"}
DealState == [status : DealStatus, terms : Terms]
Decision == {"PENDING", "APPROVED", "DECLINED"}

(* A request waiting for its next operation, and a worker waiting for its. *)
RequestState ==
    [step : {"set_requested", "add_new_job", "add_withdraw_job", "set_in_progress"},
     deal : Deals]
WorkerState ==
    [step : {"check", "create_checklist", "create_record", "delete_record", "log"},
     job : JobId]

(* The steps of handleNewFundingRequest, and those after its check. *)
NewRequestSteps == {"check", "create_checklist", "create_record"}
CreateSteps == {"create_checklist", "create_record"}

Idle == [step |-> "idle", deal |-> NoDeal]
Resting == [step |-> "idle", job |-> 0]

TypeOK ==
    /\ QueueTypeOK
    /\ deal \in [Deals -> DealState]
    /\ records \in [Deals -> Seq(Decision)]
    /\ request \in [Requests -> RequestState \cup {Idle}]
    /\ worker \in [Workers -> WorkerState \cup {Resting}]
    /\ direct \in [Deals -> 0..MaxDirect]
    /\ faults \in 0..MaxFaults

Init ==
    /\ QueueInit
    /\ deal \in [Deals -> [status : {"ABSENT"}, terms : Terms]]
    /\ records = [d \in Deals |-> <<>>]
    /\ request = [r \in Requests |-> Idle]
    /\ worker = [w \in Workers |-> Resting]
    /\ direct = [d \in Deals |-> 0]
    /\ faults = 0

Present(d) == deal[d].status \notin {"ABSENT", "DELETED"}

SetStatus(d, status) == deal' = [deal EXCEPT ![d].status = status]
-----------------------------------------------------------------------------
(* The customer's side. *)

(* POST deals: the schema's default status is IN_PROGRESS. *)
CreateDeal(d) ==
    /\ deal[d].status = "ABSENT"
    /\ SetStatus(d, "IN_PROGRESS")
    /\ UNCHANGED <<queueVars, records, request, worker, direct, faults>>

(* PUT deals/:id sets what the body holds, whatever the status. *)
UpdateDeal(d) ==
    /\ Present(d)
    /\ \E t \in Terms \ {deal[d].terms} : deal' = [deal EXCEPT ![d].terms = t]
    /\ UNCHANGED <<queueVars, records, request, worker, direct, faults>>

(* DELETE deals/:id, whatever the status; the deal desk is not told. *)
DeleteDeal(d) ==
    /\ Present(d)
    /\ SetStatus(d, "DELETED")
    /\ UNCHANGED <<queueVars, records, request, worker, direct, faults>>

(* The bound on jobs: every handler in flight may add one. *)
Admitted ==
    added + Cardinality({r \in Requests : request[r].step # "idle"}) < MaxJobs

(* A handler reads the deal, finds it in the state it wants and goes on. *)
Begin(r, d, status, step) ==
    /\ Admitted
    /\ request[r].step = "idle"
    /\ deal[d].status = status
    /\ request' = [request EXCEPT ![r] = [step |-> step, deal |-> d]]
    /\ UNCHANGED <<queueVars, deal, records, worker, direct, faults>>

(* updateDeal of the repository, which throws when the deal is gone. *)
WriteStatus(r, status, next) ==
    LET d == request[r].deal
    IN  /\ \/ /\ Present(d)
              /\ SetStatus(d, status)
              /\ request' = [request EXCEPT ![r] = next]
           \/ /\ ~Present(d)
              /\ deal' = deal
              /\ request' = [request EXCEPT ![r] = Idle]
        /\ UNCHANGED <<queueVars, records, worker, direct, faults>>

AddJob(r, name, next) ==
    /\ Enqueue([name |-> name, deal |-> request[r].deal])
    /\ request' = [request EXCEPT ![r] = next]
    /\ UNCHANGED <<deal, records, worker, direct, faults>>

(* Mutant of SetRequested: the deal desk is not notified. *)
SetRequestedOnly(r) ==
    /\ request[r].step = "set_requested"
    /\ WriteStatus(r, "FUNDING_REQUESTED", Idle)

(* requestFunding: read, then set the status, then notify the deal desk. *)
BeginRequest(r, d) == Begin(r, d, "IN_PROGRESS", "set_requested")

SetRequested(r) ==
    /\ request[r].step = "set_requested"
    /\ WriteStatus(r, "FUNDING_REQUESTED", [request[r] EXCEPT !.step = "add_new_job"])

AddNewJob(r) ==
    /\ request[r].step = "add_new_job"
    /\ AddJob(r, "NEW_FUNDING_REQUEST", Idle)

(* withdrawFunding: read, then notify the deal desk, then set the status. *)
BeginWithdraw(r, d) == Begin(r, d, "FUNDING_REQUESTED", "add_withdraw_job")

AddWithdrawJob(r) ==
    /\ request[r].step = "add_withdraw_job"
    /\ AddJob(r, "WITHDRAW_FUNDING_REQUEST",
              [request[r] EXCEPT !.step = "set_in_progress"])

SetInProgress(r) ==
    /\ request[r].step = "set_in_progress"
    /\ WriteStatus(r, "IN_PROGRESS", Idle)

(* The API process dies, or the next operation of the handler throws. *)
RequestFails(r) ==
    /\ faults < MaxFaults
    /\ request[r].step # "idle"
    /\ faults' = faults + 1
    /\ request' = [request EXCEPT ![r] = Idle]
    /\ UNCHANGED <<queueVars, deal, records, worker, direct>>
-----------------------------------------------------------------------------
(* The deal desk's side. *)

JobOf(w) == jobs[worker[w].job].data
DealOf(w) == JobOf(w).deal

(* process: the job's name selects the handler. *)
Take(w) ==
    /\ worker[w].step = "idle"
    /\ \E j \in JobId :
        /\ TakeJob(j)
        /\ worker' = [worker EXCEPT ![w] =
              [job |-> j,
               step |-> IF jobs[j].data.name = "NEW_FUNDING_REQUEST"
                        THEN "check" ELSE "delete_record"]]
    /\ UNCHANGED <<deal, records, request, direct, faults>>

(* A step of the handler throws: BullMQ counts the attempt as failed. *)
Throw(w) ==
    /\ FailAttempt(worker[w].job)
    /\ worker' = [worker EXCEPT ![w] = Resting]

Proceed(w, step) ==
    /\ worker' = [worker EXCEPT ![w].step = step]
    /\ UNCHANGED queueVars

(* Mutant of CheckNoRecord: the look-up is not awaited here either. *)
CheckNothing(w) ==
    /\ worker[w].step = "check"
    /\ Proceed(w, "create_checklist")
    /\ UNCHANGED <<deal, records, request, direct, faults>>

(* handleNewFundingRequest: throws when the deal has a record already. *)
CheckNoRecord(w) ==
    /\ worker[w].step = "check"
    /\ \/ records[DealOf(w)] = <<>> /\ Proceed(w, "create_checklist")
       \/ records[DealOf(w)] # <<>> /\ Throw(w)
    /\ UNCHANGED <<deal, records, request, direct, faults>>

(* createDealProcessing inserts the checklist instance, then the record    *)
(* that refers to it.  An instance without a record is never read, so only *)
(* the step is kept.                                                       *)
CreateChecklist(w) ==
    /\ worker[w].step = "create_checklist"
    /\ Proceed(w, "create_record")
    /\ UNCHANGED <<deal, records, request, direct, faults>>

CreateRecord(w) ==
    /\ worker[w].step = "create_record"
    /\ records' = [records EXCEPT ![DealOf(w)] = Append(@, "PENDING")]
    /\ Proceed(w, "log")
    /\ UNCHANGED <<deal, request, direct, faults>>

(* Mutant of DeleteRecord: deleteMany. *)
DeleteAllRecords(w) ==
    /\ worker[w].step = "delete_record"
    /\ records' = [records EXCEPT ![DealOf(w)] = <<>>]
    /\ Proceed(w, "log")
    /\ UNCHANGED <<deal, request, direct, faults>>

(* handleWithdrawFundingRequest: the result of its look-up is a promise    *)
(* nobody awaits, so the check before the delete never stops it.           *)
DeleteRecord(w) ==
    /\ worker[w].step = "delete_record"
    /\ records' = [records EXCEPT ![DealOf(w)] = IF @ = <<>> THEN @ ELSE Tail(@)]
    /\ Proceed(w, "log")
    /\ UNCHANGED <<deal, request, direct, faults>>

(* The audit event is written and the handler returns. *)
LogAndReturn(w) ==
    /\ worker[w].step = "log"
    /\ CompleteJob(worker[w].job)
    /\ worker' = [worker EXCEPT ![w] = Resting]
    /\ UNCHANGED <<deal, records, request, direct, faults>>

(* The operation a handler waits for fails; the handler rethrows. *)
OperationFails(w) ==
    /\ faults < MaxFaults
    /\ worker[w].step # "idle"
    /\ faults' = faults + 1
    /\ Throw(w)
    /\ UNCHANGED <<deal, records, request, direct>>

(* The worker process dies and is restarted; its job stays active. *)
WorkerDies(w) ==
    /\ faults < MaxFaults
    /\ worker[w].step # "idle"
    /\ faults' = faults + 1
    /\ worker' = [worker EXCEPT ![w] = Resting]
    /\ UNCHANGED <<queueVars, deal, records, request, direct>>

Retry(j) ==
    /\ PromoteDelayed(j)
    /\ UNCHANGED <<deal, records, request, worker, direct, faults>>

(* Mutant of Recover: a job that is merely slow is taken for stalled. *)
RecoverRunning(j) ==
    /\ RecoverStalled(j)
    /\ UNCHANGED <<deal, records, request, worker, direct, faults>>

Recover(j) ==
    /\ \A w \in Workers : worker[w].job # j
    /\ RecoverStalled(j)
    /\ UNCHANGED <<deal, records, request, worker, direct, faults>>

(* updateFundingDecision of the repository: decision and status are set in *)
(* one update, from any state.                                             *)
Decide(d, i, decision) ==
    /\ records' = [records EXCEPT ![d][i] = decision]
    /\ UNCHANGED <<queueVars, deal, request, worker, direct, faults>>

(* POST deal-desk calls createDealProcessing without looking for a record. *)
PostRecord(d) ==
    /\ direct[d] < MaxDirect
    /\ direct' = [direct EXCEPT ![d] = @ + 1]
    /\ records' = [records EXCEPT ![d] = Append(@, "PENDING")]
    /\ UNCHANGED <<queueVars, deal, request, worker, faults>>

-----------------------------------------------------------------------------
ApiStep(r) ==
    \/ SetRequested(r) \/ AddNewJob(r)
    \/ AddWithdrawJob(r) \/ SetInProgress(r)

HandlerStep(w) ==
    \/ Take(w)
    \/ CheckNoRecord(w) \/ CreateChecklist(w) \/ CreateRecord(w)
    \/ DeleteRecord(w) \/ LogAndReturn(w)

Customer ==
    \E d \in Deals :
        \/ CreateDeal(d) \/ UpdateDeal(d) \/ DeleteDeal(d)
        \/ \E r \in Requests : BeginRequest(r, d) \/ BeginWithdraw(r, d)

DealDesk ==
    \E d \in Deals :
        \/ PostRecord(d)
        \/ \E i \in DOMAIN records[d], decision \in Decision : Decide(d, i, decision)

Next ==
    \/ Customer
    \/ \E r \in Requests : ApiStep(r) \/ RequestFails(r)
    \/ \E w \in Workers : HandlerStep(w) \/ OperationFails(w) \/ WorkerDies(w)
    \/ \E j \in JobId : Retry(j) \/ Recover(j)
    \/ DealDesk

Spec == Init /\ [][Next]_vars

(* A worker that keeps running takes jobs and finishes them, backoffs      *)
(* elapse and stalled jobs are found.  Nothing obliges a customer, an API  *)
(* process or the deal desk to take a step.                                *)
Fairness ==
    /\ \A w \in Workers : WF_vars(HandlerStep(w))
    /\ \A j \in JobId : WF_vars(Retry(j)) /\ WF_vars(Recover(j))

FairSpec == Spec /\ Fairness

(* In addition, the API processes finish what they have begun. *)
ResponsiveSpec == FairSpec /\ \A r \in Requests : WF_vars(ApiStep(r))

-----------------------------------------------------------------------------
(* Workers that have seen no record of d and may still create one. *)
Creating(d) ==
    {w \in Workers : worker[w].step \in CreateSteps /\ DealOf(w) = d}

NewJobs(d) ==
    {j \in JobId : /\ jobs[j].state # "none"
                   /\ jobs[j].data = [name |-> "NEW_FUNDING_REQUEST", deal |-> d]}

(* The processor refuses a second record of a deal, but it looks before it *)
(* inserts: a deal gets at most one record per worker process, counting    *)
(* the workers that are about to insert one, besides what the deal desk    *)
(* posts itself.                                                           *)
RecordsBoundedByWorkers ==
    \A d \in Deals :
        Len(records[d]) + Cardinality(Creating(d)) <= Cardinality(Workers) + direct[d]

(* Retries, crashes and stalls notwithstanding, the records of a deal are  *)
(* never more than the funding requests made for it and the posted ones.   *)
RecordsBoundedByRequests ==
    \A d \in Deals :
        Len(records[d]) + Cardinality(Creating(d)) <= Cardinality(NewJobs(d)) + direct[d]

(* The records of a deal are the registry of CheckThenCreate.              *)
LookingFor ==
    [w \in Workers |->
        IF worker[w].step \in CreateSteps
        THEN DealOf(w) ELSE NoDeal]

Registry == INSTANCE CheckThenCreate WITH
    Actors <- Workers, Keys <- Deals, NoKey <- NoDeal,
    looking <- LookingFor, made <- [d \in Deals |-> Len(records[d])]

RegistrySpec == Registry!Spec

(* A busy worker holds an active job that no other worker holds, and the   *)
(* job is of the kind the step belongs to.                                 *)
WorkerSound(w) ==
    LET j == worker[w].job
    IN  \/ worker[w] = Resting
        \/ /\ worker[w].step # "idle"
           /\ j \in 1..added
           /\ jobs[j].state = "active"
           /\ \A v \in Workers : worker[v].job = j => v = w
           /\ worker[w].step \in NewRequestSteps
                => JobOf(w).name = "NEW_FUNDING_REQUEST"

(* Queue and workers agree: no job waits twice, or waits while it runs, or *)
(* is run by two workers, whatever failed and was retried.                 *)
JobsOwned == QueueInv /\ \A w \in Workers : WorkerSound(w)

-----------------------------------------------------------------------------
(* What withdrawing and requesting add up to once nothing is in flight.    *)
Quiet ==
    /\ \A r \in Requests : request[r] = Idle
    /\ \A j \in JobId : jobs[j].state = "none" \/ Settled(j)

(* No two requests and no two jobs are handled at once, and nothing fails. *)
OneAtATime ==
    /\ Cardinality({r \in Requests : request[r] # Idle}) <= 1
    /\ Cardinality({w \in Workers : worker[w] # Resting}) <= 1
    /\ faults = 0
    /\ \A d \in Deals : direct[d] = 0

(* When requests and jobs are handled one at a time and nothing fails, the *)
(* deal desk has, whenever no work is left, exactly one record of each     *)
(* deal that awaits funding and none of the others.                        *)
DeskFollowsDeals ==
    []OneAtATime =>
        [](Quiet => \A d \in Deals :
              Present(d) =>
                  Len(records[d]) = IF deal[d].status = "FUNDING_REQUESTED" THEN 1 ELSE 0)

(* A funding request that is not withdrawn ends up on the deal desk: in    *)
(* README.md a deal in Funding Requested "is being processed".  A failure  *)
(* between the status and the job is enough to break it.                   *)
RequestsReachDesk ==
    []OneAtATime =>
        \A d \in Deals :
            <>[](deal[d].status = "FUNDING_REQUESTED") => <>[](records[d] # <<>>)
=============================================================================
