----------------------------- MODULE Checklists -----------------------------
(***************************************************************************)
(* Due diligence checklists: templates and their versions, the instances   *)
(* made of them for deals and onboardings, and the automated checks of an  *)
(* onboarding, which update the items of its instance                      *)
(* (DueDiligenceChecklistsService, OnboardingChecksService and the three   *)
(* check services behind OnboardingChecksRouter).                          *)
(*                                                                         *)
(* A slot serves a request or runs a job.  Each step is one operation on   *)
(* the database or the queue; those of other slots come between.  An item  *)
(* is named by the titles of its section and its own.  Why the rest of an  *)
(* onboarding job fails, and that it may run again, is in Onboarding.      *)
(***************************************************************************)
EXTENDS Naturals, Sequences, FiniteSets, SequencesExt

CONSTANTS
    Items,             \* the titles of items
    Seeds,             \* what the collection of templates may hold at first
    Instances,         \* the checklist instances made
    NoInstance,        \* not one of them
    Slots,             \* the requests served and the jobs run at the same time
    MaxAttempts,       \* attempts of a check: retryAttempts of its item, or 3
    MaxStalledCount,   \* times a stalled check is given to another process
    Bounds             \* bounds that are explored, each with a limit on creates, the
                       \* requests to create a template, updates, those to update an
                       \* instance, made, the instances, and faults, the operations
                       \* that fail and the processes that die

Types == {"ONBOARDING", "DEAL_PROCESSING"}
CheckType == {"MANUAL", "AUTOMATED"}
Status == {"NOT_STARTED", "SATISFACTORY", "CRITICAL"}

(* checks: the check type of each item a template has; an automated one names the
   event of its check. *)
Checks == [Items -> CheckType \cup {"none"}]
Template == [type : Types, version : Nat \ {0}, checks : Checks]

ASSUME ChecklistsAssumption ==
    /\ IsFiniteSet(Items) /\ IsFiniteSet(Slots) /\ IsFiniteSet(Instances)
    /\ Seeds \subseteq Seq(Template) /\ NoInstance \notin Instances
    /\ MaxAttempts \in Nat \ {0} /\ MaxStalledCount \in Nat
    /\ Bounds \subseteq [creates : Nat, updates : Nat, made : SUBSET Instances, faults : Nat]

VARIABLES
    ignored,     \* whether the database driver leaves a condition out of a query
                 \* when its value is undefined; it takes it for null otherwise
    bound,       \* the bounds of this behaviour
    templates,   \* the templates, in the order they were created
    instance,    \* instance[k]: the checklist instance k
    job,         \* job[k][i]: the check of item i of instance k
    call,        \* call[s]: what slot s is doing
    creates,     \* how many requests to create a template were made
    updates,     \* how many to update an instance
    faults,      \* how many faults have happened
    queued       \* the instances of onboardings whose template had not changed when
                 \* it was read again: what a property remembers of the past

vars == <<ignored, bound, templates, instance, job, call, creates, updates, faults, queued>>

(* What a note says: the judgement of a check, its error, or what a person wrote. *)
Says == {"SATISFACTORY", "CRITICAL", "error", "text"}

Instance == [type : Types, version : Nat, checks : Checks,
             status : [Items -> Status], notes : [Items -> Seq(Says)]]
NoItems == [i \in Items |-> "none"]
Absent == [type |-> "ONBOARDING", version |-> 0, checks |-> NoItems,
           status |-> [i \in Items |-> "NOT_STARTED"], notes |-> [i \in Items |-> <<>>]]

Job == [state : {"none", "waiting", "active", "done", "failed"},
        attempts : 0..MaxAttempts, stalled : 0..(MaxStalledCount + 1)]
NoJob == [state |-> "none", attempts |-> 0, stalled |-> 0]

(* item and note: what a step is about, where it is about an item. *)
Steps == [do : {"insert", "instantiate", "template", "queue", "look", "read",
                "status", "note", "reread"},
          item : Items \cup {"none"}, says : Says \cup {"none"}]
Do(do) == [do |-> do, item |-> "none", says |-> "none"]
About(do, i, says) == [do |-> do, item |-> i, says |-> says]

(* template is its index; rescue says that a check has thrown and tells of it. *)
Idle == [op |-> "none", type |-> "ONBOARDING", inst |-> NoInstance, item |-> "none",
         version |-> 0, template |-> 0, rescue |-> FALSE, todo |-> <<>>]

TypeOK ==
    /\ ignored \in BOOLEAN /\ bound \in Bounds
    /\ templates \in Seq(Template)
    /\ instance \in [Instances -> Instance]
    /\ job \in [Instances -> [Items -> Job]]
    /\ \A s \in Slots :
          /\ call[s].inst \in Instances \cup {NoInstance}
          /\ call[s].template \in 0..Len(templates)
          /\ call[s].todo \in Seq(Steps)
    /\ creates <= bound.creates /\ updates <= bound.updates /\ faults <= bound.faults

Init ==
    /\ ignored \in BOOLEAN /\ bound \in Bounds
    /\ templates \in Seeds
    /\ instance = [k \in Instances |-> Absent]
    /\ job = [k \in Instances |-> [i \in Items |-> NoJob]]
    /\ call = [s \in Slots |-> Idle]
    /\ creates = 0 /\ updates = 0 /\ faults = 0
    /\ queued = {}
-----------------------------------------------------------------------------
(* getLatest, by the time of creation: 0 if there is none of the type. *)
OfType(type) == {t \in DOMAIN templates : templates[t].type = type}
Latest(type) == IF OfType(type) = {} THEN 0
                ELSE CHOOSE t \in OfType(type) : \A u \in OfType(type) : u <= t

(* Mutant of NextVersion: the templates are counted. *)
CountedVersion(type) == Cardinality(OfType(type)) + 1

NextVersion(type) == IF Latest(type) = 0 THEN 1 ELSE templates[Latest(type)].version + 1

(* getByVersion as updateChecklistInstance calls it, with the field type of the
   instance: the field is called checklistType, and type is always undefined. *)
ByVersion(k) ==
    {t \in DOMAIN templates : ignored /\ templates[t].version = instance[k].version}

Begin(s, c) ==
    /\ call[s] = Idle
    /\ call' = [call EXCEPT ![s] = c]
    /\ UNCHANGED <<ignored, bound, templates, instance, faults, queued>>

(* create reads the latest template, and has yet to save the next. *)
CreateChecklist(s, type) ==
    /\ creates < bound.creates /\ creates' = creates + 1
    /\ Begin(s, [Idle EXCEPT !.op = "create", !.type = type, !.todo = <<Do("insert")>>,
                             !.version = NextVersion(type)])
    /\ UNCHANGED <<job, updates>>

(* An instance is made with a deal record or an onboarding record, and another for
   the checks of an onboarding. *)
MakeInstance(s, k, op, type) ==
    /\ k \in bound.made /\ instance[k].version = 0 /\ \A r \in Slots : call[r].inst # k
    /\ op = "onboard" => type = "ONBOARDING"
    /\ Begin(s, [Idle EXCEPT !.op = op, !.type = type, !.inst = k,
                             !.todo = <<Do("instantiate")>>
                                \o (IF op = "onboard" THEN <<Do("template")>> ELSE <<>>)])
    /\ UNCHANGED <<job, creates, updates>>

(* updateChecklistInstance with these items and what becomes of them. *)
UpdateSteps(items) ==
    <<Do("read")>> \o FlattenSeq([n \in DOMAIN items |->
        <<About("status", items[n].item, items[n].says),
          About("note", items[n].item, items[n].note)>>]) \o <<Do("reread")>>

UpdateChecklist(s, k, i, says) ==
    /\ instance[k].version # 0
    /\ updates < bound.updates /\ updates' = updates + 1
    /\ \E items \in {<<i>>} \cup {<<i, j>> : j \in Items \ {i}} :
          Begin(s, [Idle EXCEPT !.op = "update", !.inst = k, !.todo = UpdateSteps(
              [n \in DOMAIN items |-> [item |-> items[n], says |-> says, note |-> "text"]])])
    /\ UNCHANGED <<job, creates>>

TakeCheck(s, k, i) ==
    /\ job[k][i].state = "waiting"
    /\ job' = [job EXCEPT ![k][i].state = "active"]
    /\ Begin(s, [Idle EXCEPT !.op = "check", !.inst = k, !.item = i,
                             !.todo = <<Do("look")>>])
    /\ UNCHANGED <<creates, updates>>
-----------------------------------------------------------------------------
Doing(s, do) == call[s].todo # <<>> /\ Head(call[s].todo).do = do
Subject(s) == Head(call[s].todo)

(* The job of a check that returns is done. *)
EndJob(c, state) ==
    IF c.op = "check"
    THEN [job EXCEPT ![c.inst][c.item] =
             [@ EXCEPT !.state = state, !.attempts = IF state = "done" THEN @ ELSE @ + 1]]
    ELSE job

(* Mutant of Failed: one attempt too many. *)
FailedLate(c) == IF job[c.inst][c.item].attempts < MaxAttempts THEN "waiting" ELSE "failed"

Failed(c) == IF job[c.inst][c.item].attempts + 1 < MaxAttempts THEN "waiting" ELSE "failed"

(* The step of slot s is done and it goes on as c: a check that told of its error
   throws it again, and is tried again while attempts are left. *)
Step(s, c) ==
    /\ IF Len(c.todo) > 1
       THEN call' = [call EXCEPT ![s] = [c EXCEPT !.todo = Tail(@)]] /\ UNCHANGED job
       ELSE /\ call' = [call EXCEPT ![s] = Idle]
            /\ job' = EndJob(c, IF c.rescue THEN Failed(c) ELSE "done")
    /\ UNCHANGED <<ignored, bound, creates, updates>>

(* Mutant of Rescued: an error is told and not thrown again. *)
RescuedQuietly(c) ==
    [c EXCEPT !.todo = UpdateSteps(<<[item |-> c.item, says |-> "CRITICAL",
                                      note |-> "error"]>>)]

(* executeCheck of the three services catches what its first part throws. *)
Rescued(c) ==
    [c EXCEPT !.rescue = TRUE,
              !.todo = UpdateSteps(<<[item |-> c.item, says |-> "CRITICAL",
                                      note |-> "error"]>>)]

Throw(s) ==
    /\ IF call[s].op = "check" /\ ~call[s].rescue
       THEN call' = [call EXCEPT ![s] = Rescued(@)] /\ UNCHANGED job
       ELSE /\ call' = [call EXCEPT ![s] = Idle]
            /\ job' = IF call[s].op = "check" THEN EndJob(call[s], Failed(call[s])) ELSE job
    /\ UNCHANGED <<ignored, bound, creates, updates>>

(* What clients send has no check types: every item is MANUAL. *)
Insert(s) ==
    /\ Doing(s, "insert") /\ Step(s, call[s])
    /\ \E checks \in [Items -> {"none", "MANUAL"}] :
          templates' = Append(templates, [type |-> call[s].type, checks |-> checks,
                                          version |-> call[s].version])
    /\ UNCHANGED <<instance, faults, queued>>

(* createChecklistInstance; nothing reads the instance before its id is returned. *)
Instantiate(s) ==
    LET latest == Latest(call[s].type) IN
    /\ Doing(s, "instantiate")
    /\ IF latest = 0 THEN Throw(s) /\ UNCHANGED instance
       ELSE /\ Step(s, [call[s] EXCEPT !.template = latest])
            /\ instance' = [instance EXCEPT ![call[s].inst] =
                  [Absent EXCEPT !.type = call[s].type, !.version = templates[latest].version,
                                 !.checks = templates[latest].checks]]
    /\ UNCHANGED <<templates, faults, queued>>

(* Mutant of ToQueue: every item is checked. *)
ToQueueAll(t) == {i \in Items : templates[t].checks[i] # "none"}

ToQueue(t) == {i \in Items : templates[t].checks[i] = "AUTOMATED"}

(* getChecklistTemplate reads the latest again. *)
GetChecklistTemplate(s) ==
    LET latest == Latest(call[s].type)
        items == SetToSeq(ToQueue(latest)) IN
    /\ Doing(s, "template")
    /\ Step(s, [call[s] EXCEPT !.todo = @ \o [n \in DOMAIN items |->
                                                About("queue", items[n], "none")]])
    /\ queued' = IF latest = call[s].template THEN queued \cup {call[s].inst} ELSE queued
    /\ UNCHANGED <<templates, instance, faults>>

QueueCheck(s) ==
    /\ Doing(s, "queue") /\ job[call[s].inst][Subject(s).item].state = "none"
    /\ call' = [call EXCEPT ![s] = IF Len(@.todo) > 1 THEN [@ EXCEPT !.todo = Tail(@)]
                                   ELSE Idle]
    /\ job' = [job EXCEPT ![call[s].inst][Subject(s).item].state = "waiting"]
    /\ UNCHANGED <<ignored, bound, templates, instance, creates, updates, faults, queued>>

(* The registration, and what else has its name, address or wallet; the update that
   follows is that of updateAutomatedChecklistItem. *)
Look(s) ==
    /\ Doing(s, "look")
    /\ \E says \in {"SATISFACTORY", "CRITICAL"} :
          Step(s, [call[s] EXCEPT !.todo = @ \o UpdateSteps(
                      <<[item |-> call[s].item, says |-> says, note |-> says]>>)])
    /\ UNCHANGED <<templates, instance, faults, queued>>

(* Without a template the first item throws. *)
Read(s) ==
    /\ Doing(s, "read")
    /\ IF ByVersion(call[s].inst) = {} THEN Throw(s)
       ELSE \E t \in ByVersion(call[s].inst) : Step(s, [call[s] EXCEPT !.template = t])
    /\ UNCHANGED <<templates, instance, faults, queued>>

Originator(s) == IF call[s].op = "check" THEN "AUTOMATED" ELSE "MANUAL"

(* The item is in the instance and in the template that was found, and
   validateUpdateOriginator lets the caller update it. *)
MayUpdate(s, i) == templates[call[s].template].checks[i] = Originator(s)

UpdateItemStatus(s) ==
    LET k == call[s].inst
        i == Subject(s).item IN
    /\ Doing(s, "status")
    /\ IF instance[k].checks[i] # "none" /\ MayUpdate(s, i)
       THEN /\ Step(s, call[s])
            /\ instance' = [instance EXCEPT ![k].status[i] = Subject(s).says]
       ELSE Throw(s) /\ UNCHANGED instance
    /\ UNCHANGED <<templates, faults, queued>>

AddNote(s) ==
    /\ Doing(s, "note") /\ Step(s, call[s])
    /\ instance' = [instance EXCEPT
                       ![call[s].inst].notes[Subject(s).item] = Append(@, Subject(s).says)]
    /\ UNCHANGED <<templates, faults, queued>>

(* The instance is read once more for the answer. *)
Reread(s) ==
    /\ Doing(s, "reread") /\ Step(s, call[s])
    /\ UNCHANGED <<templates, instance, faults, queued>>

NotQueued(c) == IF c.op = "onboard" THEN queued \ {c.inst} ELSE queued

OperationFails(s) ==
    /\ call[s].todo # <<>> /\ faults < bound.faults
    /\ faults' = faults + 1
    /\ Throw(s)
    /\ queued' = NotQueued(call[s])
    /\ UNCHANGED <<templates, instance>>

(* A check of a process that died is stalled: it waits for another process, or fails. *)
ProcessDies(s) ==
    LET c == call[s] IN
    /\ c.todo # <<>> /\ faults < bound.faults
    /\ faults' = faults + 1
    /\ call' = [call EXCEPT ![s] = Idle]
    /\ job' = IF c.op # "check" THEN job
              ELSE [job EXCEPT ![c.inst][c.item] =
                       [@ EXCEPT !.stalled = @ + 1,
                                 !.state = IF job[c.inst][c.item].stalled < MaxStalledCount
                                           THEN "waiting" ELSE "failed"]]
    /\ queued' = NotQueued(c)
    /\ UNCHANGED <<ignored, bound, templates, instance, creates, updates>>

Next ==
    \E s \in Slots :
        \/ \E type \in Types : CreateChecklist(s, type)
        \/ \E k \in Instances :
              \/ \E op \in {"onboard", "make"}, type \in Types : MakeInstance(s, k, op, type)
              \/ \E i \in Items :
                    \/ \E says \in {"SATISFACTORY", "CRITICAL"} : UpdateChecklist(s, k, i, says)
                    \/ TakeCheck(s, k, i)
        \/ Insert(s) \/ Instantiate(s) \/ GetChecklistTemplate(s) \/ QueueCheck(s)
        \/ Look(s) \/ Read(s) \/ UpdateItemStatus(s) \/ AddNote(s) \/ Reread(s)
        \/ OperationFails(s) \/ ProcessDies(s)

Spec == Init /\ [][Next]_vars
-----------------------------------------------------------------------------
(* The versions of a type are 1, 2, ... with none left out, whatever requests to
   create templates overlap (create adds one to the latest: two that overlap give the
   same version, and one that is slow gives an old one again). *)
VersionsContiguous ==
    \A type \in Types :
        LET versions == {templates[t].version : t \in OfType(type)} IN
        versions = 1..Cardinality(versions)

(* A template that an update of k may find has another check type for the item. *)
Ambiguous(k, i) ==
    \E t \in DOMAIN templates :
        /\ templates[t].version = instance[k].version
        /\ templates[t].checks[i] # instance[k].checks[i]

(* A check whose job is done has left its judgement on the item, and the last note of
   the item says which: whatever attempts failed before, and at which step, no error
   is left as the last word (executeCheck throws what it has told of). *)
CompletedIsJudged ==
    \A k \in Instances, i \in Items :
        job[k][i].state = "done" /\ ~Ambiguous(k, i) =>
            /\ instance[k].notes[i] # <<>>
            /\ instance[k].status[i] = Last(instance[k].notes[i])

(* When an onboarding has queued the checks of its instance, and no template was
   created while it did, each automated item has a check and no other item has
   (queueAutomatedChecks goes by the latest template, not by the instance's). *)
AutomatedItemsQueued ==
    \A k \in queued :
        (\A s \in Slots : ~(call[s].inst = k /\ call[s].op = "onboard")) =>
            \A i \in Items :
                (job[k][i].state # "none") = (instance[k].checks[i] = "AUTOMATED")
-----------------------------------------------------------------------------
(* What the sources say and the code does not ensure. *)

(* "Failed checks update checklist items with CRITICAL status", and others with their
   judgement: an item whose check has ended is no longer NOT_STARTED, where no
   operation failed and no process died. *)
ChecksUpdateItems ==
    \A k \in Instances, i \in Items :
        faults = 0 /\ job[k][i].state \in {"done", "failed"} =>
            instance[k].status[i] # "NOT_STARTED"
=============================================================================
