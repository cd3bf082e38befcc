------------------------------ MODULE Accounts ------------------------------
(***************************************************************************)
(* From the decision on an onboarding record to an account and its users,  *)
(* and the suspension of an account.  OnboardingService writes a decision  *)
(* and, when it approves, adds a job; NewAccountsProcessor (in the         *)
(* workers) creates the account, which the unique index on walletAddress   *)
(* may refuse, and then its first user, whose permissions must all be      *)
(* allowed by the module permissions.  AccountsService locks out the users *)
(* of an account one by one before it changes the account's status.        *)
(*                                                                         *)
(* An action is one database or queue operation with the code up to the    *)
(* next.  An account is identified by its wallet and is never removed.  The *)
(* request validation of POST accounts admits no body that the account     *)
(* schema accepts, so that the processor is what opens accounts.           *)
(***************************************************************************)
EXTENDS JobQueue

CONSTANTS
    Registrations,   \* the registrations that have an onboarding record
    Wallets,
    WalletOf,        \* the wallet a registration asks an account for
    Users,           \* user ids
    Requests,        \* the HTTP requests the API serves at the same time
    Workers,         \* the worker processes
    RoleSets,        \* the roles module permissions may allow in Paperless-Admin
    Opened,          \* the wallets whose account was opened before
    AskedStatuses,   \* what PATCH accounts/:id/status is asked to set
    AskedUser,       \* and account-users, of a user
    MaxFaults,       \* bound: operations that fail or processes that die
    MaxDecisions     \* bound: decisions made on one onboarding record

ASSUME AccountsAssumption ==
    /\ Payload = Registrations
    /\ WalletOf \in [Registrations -> Wallets]
    /\ IsFiniteSet(Users) /\ IsFiniteSet(Workers)
    /\ "none" \notin Wallets
    /\ Opened \subseteq Wallets
    /\ AskedStatuses \subseteq {"ACTIVE", "SUSPENDED", "UNDER_REVIEW", "CLOSED"}
    /\ AskedUser \subseteq {"Active", "Suspended", "Deleted"}
    /\ MaxFaults \in Nat
    /\ MaxDecisions \in Nat

VARIABLES
    adminRoles, \* the roles they do allow
    decisions,  \* decisions[g]: the decisions made on g's record, latest last
    account,    \* account[a]: the status of the account of wallet a
    user,       \* user[u]: the account and status of user u
    request,    \* request[q]: where the API handler q is
    worker,     \* worker[w]: where the processor w is, and with which job
    posted,     \* posted[a]: the users that POST account-users gave a
    faults      \* how many faults have happened

vars == <<jobs, wait, added, adminRoles, decisions, account, user, request,
          worker, posted, faults>>

Decision == {"PENDING", "APPROVED", "DECLINED"}
AccountStatus == {"ACTIVE", "SUSPENDED", "UNDER_REVIEW", "CLOSED"}
UserStatus == {"Active", "Suspended", "Deleted"}

(* The roles NewAccountsProcessor gives the first user in Paperless-Admin. *)
FirstUserRoles == {"Manager", "Agent", "Supervisor"}

(* The statuses for which updateAccountStatus suspends the users first. *)
LockedOut == {"SUSPENDED", "CLOSED"}

Idle == [step |-> "idle"]
RequestState ==
    [step : {"add_account_job"}, registration : Registrations]
        \cup [step : {"create_user"}, account : Wallets]
        \cup [step : {"suspend_users", "set_status"}, account : Wallets,
              status : AccountStatus, seen : SUBSET Users, todo : SUBSET Users]
Resting == [step |-> "idle", job |-> 0]
WorkerState == [step : {"create_account", "create_user", "log"}, job : JobId]
NoUser == [account |-> "none"]

TypeOK ==
    /\ QueueTypeOK
    /\ adminRoles \in RoleSets
    /\ decisions \in [Registrations -> Seq(Decision)]
    /\ account \in [Wallets -> AccountStatus \cup {"ABSENT"}]
    /\ user \in [Users -> [account : Wallets, status : UserStatus] \cup {NoUser}]
    /\ request \in [Requests -> RequestState \cup {Idle}]
    /\ worker \in [Workers -> WorkerState \cup {Resting}]
    /\ posted \in [Wallets -> 0..Cardinality(Users)]
    /\ faults \in 0..MaxFaults

Init ==
    /\ QueueInit
    /\ adminRoles \in RoleSets
    /\ decisions = [g \in Registrations |-> <<>>]
    /\ account = [a \in Wallets |-> IF a \in Opened THEN "ACTIVE" ELSE "ABSENT"]
    /\ user = [u \in Users |-> NoUser]
    /\ request = [q \in Requests |-> Idle]
    /\ worker = [w \in Workers |-> Resting]
    /\ posted = [a \in Wallets |-> 0]
    /\ faults = 0

Exists(a) == account[a] # "ABSENT"
UsersOf(a) == {u \in Users : user[u].account = a}
Free == {u \in Users : user[u] = NoUser}
-----------------------------------------------------------------------------
(* Decisions. *)

(* The bound on jobs: every decision in flight may add one. *)
Admitted ==
    added + Cardinality({q \in Requests : request[q].step = "add_account_job"}) < MaxJobs

(* Mutant of Decide: only a first decision can open an account. *)
DecideOnce(q, g, d) ==
    /\ request[q] = Idle
    /\ Len(decisions[g]) < MaxDecisions
    /\ decisions' = [decisions EXCEPT ![g] = Append(@, d)]
    /\ \/ (d # "APPROVED" \/ decisions[g] # <<>>) /\ request' = request
       \/ /\ d = "APPROVED" /\ decisions[g] = <<>> /\ Admitted
          /\ request' = [request EXCEPT ![q] =
                [step |-> "add_account_job", registration |-> g]]
    /\ UNCHANGED <<queueVars, adminRoles, account, user, worker, posted, faults>>

(* POST onboarding/:id/decision writes decision and status in one update,  *)
(* whatever was decided before, and goes on when it approves.              *)
Decide(q, g, d) ==
    /\ request[q] = Idle
    /\ Len(decisions[g]) < MaxDecisions
    /\ decisions' = [decisions EXCEPT ![g] = Append(@, d)]
    /\ \/ d # "APPROVED" /\ request' = request
       \/ /\ d = "APPROVED" /\ Admitted
          /\ request' = [request EXCEPT ![q] =
                [step |-> "add_account_job", registration |-> g]]
    /\ UNCHANGED <<queueVars, adminRoles, account, user, worker, posted, faults>>

AddAccountJob(q) ==
    /\ request[q].step = "add_account_job"
    /\ Enqueue(request[q].registration)
    /\ request' = [request EXCEPT ![q] = Idle]
    /\ UNCHANGED <<adminRoles, decisions, account, user, worker, posted, faults>>
-----------------------------------------------------------------------------
(* The users of an account and its status, from the portal.                 *)

(* Bound: a wallet keeps a free id for the first user of its account. *)
UserAdmitted ==
    Cardinality({q \in Requests : request[q].step = "create_user"})
        + Cardinality(Wallets) < Cardinality(Free)

(* POST account-users: the account must exist, whatever its status. *)
BeginUser(q, a) ==
    /\ request[q] = Idle
    /\ UserAdmitted
    /\ Exists(a)
    /\ request' = [request EXCEPT ![q] = [step |-> "create_user", account |-> a]]
    /\ UNCHANGED <<queueVars, adminRoles, decisions, account, user, worker, posted, faults>>

AddUser(a, status) ==
    \E u \in Free : user' = [user EXCEPT ![u] = [account |-> a, status |-> status]]

CreateUser(q, status) ==
    /\ request[q].step = "create_user"
    /\ AddUser(request[q].account, status)
    /\ posted' = [posted EXCEPT ![request[q].account] = @ + 1]
    /\ request' = [request EXCEPT ![q] = Idle]
    /\ UNCHANGED <<queueVars, adminRoles, decisions, account, worker, faults>>

(* PATCH account-users/:id sets the status in one update. *)
UpdateUser(q, u, status) ==
    /\ request[q] = Idle
    /\ user[u] # NoUser
    /\ user' = [user EXCEPT ![u].status = status]
    /\ UNCHANGED <<queueVars, adminRoles, decisions, account, request, worker, posted, faults>>

(* PATCH accounts/:id/status: a status that locks users out reads the      *)
(* users of the account, and each of them is then suspended in an update   *)
(* of its own, in any order; the account's status is written last.         *)
BeginStatus(q, a, status) ==
    LET todo == IF status \in LockedOut THEN UsersOf(a) ELSE {}
    IN  /\ request[q] = Idle
        /\ Exists(a)
        /\ request' = [request EXCEPT ![q] =
              [step |-> IF todo = {} THEN "set_status" ELSE "suspend_users",
               account |-> a, status |-> status, seen |-> todo, todo |-> todo]]
        /\ UNCHANGED <<queueVars, adminRoles, decisions, account, user, worker, posted, faults>>

(* Mutant of SuspendUser: the status is written after the first update. *)
SuspendOneUser(q, u) ==
    /\ request[q].step = "suspend_users"
    /\ u \in request[q].todo
    /\ user' = [user EXCEPT ![u].status = "Suspended"]
    /\ request' = [request EXCEPT ![q].todo = {}, ![q].step = "set_status"]
    /\ UNCHANGED <<queueVars, adminRoles, decisions, account, worker, posted, faults>>

SuspendUser(q, u) ==
    /\ request[q].step = "suspend_users"
    /\ u \in request[q].todo
    /\ user' = [user EXCEPT ![u].status = "Suspended"]
    /\ request' = [request EXCEPT
          ![q].todo = @ \ {u},
          ![q].step = IF request[q].todo = {u} THEN "set_status" ELSE @]
    /\ UNCHANGED <<queueVars, adminRoles, decisions, account, worker, posted, faults>>

SetStatus(q) ==
    /\ request[q].step = "set_status"
    /\ account' = [account EXCEPT ![request[q].account] = request[q].status]
    /\ request' = [request EXCEPT ![q] = Idle]
    /\ UNCHANGED <<queueVars, adminRoles, decisions, user, worker, posted, faults>>

(* The API process dies, or the next operation of the handler throws. *)
RequestFails(q) ==
    /\ faults < MaxFaults
    /\ request[q] # Idle
    /\ faults' = faults + 1
    /\ request' = [request EXCEPT ![q] = Idle]
    /\ UNCHANGED <<queueVars, adminRoles, decisions, account, user, worker, posted>>
-----------------------------------------------------------------------------
(* The processor. *)

AccountOf(w) == WalletOf[jobs[worker[w].job].data]

Take(w) ==
    /\ worker[w] = Resting
    /\ \E j \in JobId :
        /\ TakeJob(j)
        /\ worker' = [worker EXCEPT ![w] = [step |-> "create_account", job |-> j]]
    /\ UNCHANGED <<adminRoles, decisions, account, user, request, posted, faults>>

(* A step of the handler throws: BullMQ counts the attempt as failed. *)
Throw(w) ==
    /\ FailAttempt(worker[w].job)
    /\ worker' = [worker EXCEPT ![w] = Resting]

Proceed(w, step) ==
    /\ worker' = [worker EXCEPT ![w].step = step]
    /\ UNCHANGED queueVars

(* Mutant of CreateAccount: an account that is there is used. *)
FindOrCreateAccount(w) ==
    /\ worker[w].step = "create_account"
    /\ account' = [account EXCEPT ![AccountOf(w)] = IF @ = "ABSENT" THEN "ACTIVE" ELSE @]
    /\ Proceed(w, "create_user")
    /\ UNCHANGED <<adminRoles, decisions, user, request, posted, faults>>

(* createAccount: a duplicate key throws, also when an earlier attempt of  *)
(* the same job created the account.                                       *)
CreateAccount(w) ==
    /\ worker[w].step = "create_account"
    /\ \/ /\ ~Exists(AccountOf(w))
          /\ account' = [account EXCEPT ![AccountOf(w)] = "ACTIVE"]
          /\ Proceed(w, "create_user")
       \/ /\ Exists(AccountOf(w))
          /\ account' = account
          /\ Throw(w)
    /\ UNCHANGED <<adminRoles, decisions, user, request, posted, faults>>

(* createAccountUser validates every permission before it inserts. *)
CreateFirstUser(w) ==
    /\ worker[w].step = "create_user"
    /\ \/ /\ FirstUserRoles \subseteq adminRoles
          /\ AddUser(AccountOf(w), "Active")
          /\ Proceed(w, "log")
       \/ /\ ~(FirstUserRoles \subseteq adminRoles)
          /\ user' = user
          /\ Throw(w)
    /\ UNCHANGED <<adminRoles, decisions, account, request, posted, faults>>

(* The audit event is written and the handler returns. *)
LogAndReturn(w) ==
    /\ worker[w].step = "log"
    /\ CompleteJob(worker[w].job)
    /\ worker' = [worker EXCEPT ![w] = Resting]
    /\ UNCHANGED <<adminRoles, decisions, account, user, request, posted, faults>>

OperationFails(w) ==
    /\ faults < MaxFaults
    /\ worker[w] # Resting
    /\ faults' = faults + 1
    /\ Throw(w)
    /\ UNCHANGED <<adminRoles, decisions, account, user, request, posted>>

(* The worker process dies and is restarted; its job stays active. *)
WorkerDies(w) ==
    /\ faults < MaxFaults
    /\ worker[w] # Resting
    /\ faults' = faults + 1
    /\ worker' = [worker EXCEPT ![w] = Resting]
    /\ UNCHANGED <<queueVars, adminRoles, decisions, account, user, request, posted>>

Retry(j) ==
    /\ PromoteDelayed(j)
    /\ UNCHANGED <<adminRoles, decisions, account, user, request, worker, posted, faults>>

Recover(j) ==
    /\ \A w \in Workers : worker[w].job # j
    /\ RecoverStalled(j)
    /\ UNCHANGED <<adminRoles, decisions, account, user, request, worker, posted, faults>>
-----------------------------------------------------------------------------
ApiStep(q) ==
    \/ AddAccountJob(q) \/ SetStatus(q)
    \/ \E s \in AskedUser : CreateUser(q, s)
    \/ \E u \in Users : SuspendUser(q, u)

HandlerStep(w) ==
    \/ Take(w) \/ CreateAccount(w) \/ CreateFirstUser(w) \/ LogAndReturn(w)

Portal ==
    \/ \E q \in Requests :
        \/ \E g \in Registrations, d \in Decision : Decide(q, g, d)
        \/ \E a \in Wallets : BeginUser(q, a)
        \/ \E a \in Wallets, s \in AskedStatuses : BeginStatus(q, a, s)
        \/ \E u \in Users, s \in AskedUser : UpdateUser(q, u, s)

Next ==
    \/ Portal
    \/ \E q \in Requests : ApiStep(q) \/ RequestFails(q)
    \/ \E w \in Workers : HandlerStep(w) \/ OperationFails(w) \/ WorkerDies(w)
    \/ \E j \in JobId : Retry(j) \/ Recover(j)

Spec == Init /\ [][Next]_vars

(* Workers that keep running take jobs and finish them, API processes      *)
(* finish what they have begun, backoffs elapse, stalled jobs are found.   *)
Fairness ==
    /\ \A q \in Requests : WF_vars(ApiStep(q))
    /\ \A w \in Workers : WF_vars(HandlerStep(w))
    /\ \A j \in JobId : WF_vars(Retry(j)) /\ WF_vars(Recover(j))

FairSpec == Spec /\ Fairness
-----------------------------------------------------------------------------
(* Two approvals, a retry, a stall or two registrations of one wallet give *)
(* an account no second first user: whoever creates the account goes on to *)
(* create its user, and nobody else does.                                  *)
OneFirstUser ==
    \A a \in Wallets :
        Cardinality(UsersOf(a))
            + Cardinality({w \in Workers : worker[w].step = "create_user" /\ AccountOf(w) = a})
        <= posted[a] + 1

(* An approved registration leads to an account with a user.  It takes     *)
(* module permissions that allow all roles of the first user, a wallet     *)
(* that had no account, and no failure.                                    *)
Approved(g) == decisions[g] # <<>> /\ decisions[g][Len(decisions[g])] = "APPROVED"

ApprovalsOpenAccounts ==
    [](faults = 0 /\ FirstUserRoles \subseteq adminRoles) =>
        \A g \in Registrations :
            WalletOf[g] \notin Opened =>
                (Approved(g) ~> UsersOf(WalletOf[g]) # {})

(* When requests are handled one at a time, a user that is active in an    *)
(* account at the moment it is suspended or closed was created after the   *)
(* handler had read the users: all others have been locked out.            *)
SuspensionLocksOut ==
    [][\A a \in Wallets :
         account'[a] \in LockedOut /\ account[a] \notin LockedOut =>
            \A u \in UsersOf(a) :
                user[u].status = "Active" =>
                    \E q \in Requests :
                        /\ request[q] # Idle /\ request'[q] = Idle
                        /\ u \notin request[q].seen]_vars
=============================================================================
