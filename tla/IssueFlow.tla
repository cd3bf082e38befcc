------------------------------ MODULE IssueFlow -----------------------------
(***************************************************************************)
(* Issuing a trade document: IssueTradeDocumentService, in an API process, *)
(* reads the document, sets it to PROCESSING and adds a BullMQ flow whose  *)
(* four jobs run one after the other, each in a queue of its own and in    *)
(* whichever process is free (API and worker processes both register the   *)
(* processors):                                                            *)
(*                                                                         *)
(*   produce-issued-file, produce-tt-file, mint-document, finalise-issue   *)
(*                                                                         *)
(* Meanwhile the customer can update, delete, or upload a file of the same *)
(* document.  A handler is split at its awaits: each action is one access  *)
(* to the document or the chain with the code up to the next one.  The     *)
(* document has all that isReadyToIssue asks for but the status.  Flows of *)
(* different documents share nothing but the queues, so there is one       *)
(* document; which of two waiting jobs of a queue is taken first is left   *)
(* open.  The flow's root job, in a queue that nothing consumes, is left   *)
(* out.                                                                    *)
(***************************************************************************)
EXTENDS Naturals, FiniteSets

CONSTANTS
    Requests,         \* the HTTP requests the API may serve at the same time
    Classes,          \* the classes the document may be of
    Versions,         \* what a customer can put in the document or its file
    Settings,         \* what behaviours are explored with: each the requests served
                      \* at the same time, the kinds of requests there may be, the
                      \* number of processes that run the processors, and a bound on
                      \* the operations that fail and the processes that die
    MaxFlows,         \* bound: flows ever added
    MaxAttempts,      \* attempts of the flow's jobs
    MaxStalledCount   \* times a stalled job is given to another process

ASSUME IssueAssumption ==
    /\ IsFiniteSet(Requests)
    /\ Settings \subseteq
          [requests : SUBSET Requests, processes : Nat \ {0}, faults : Nat,
           kinds : SUBSET {"issue", "update", "delete", "upload"}]
    /\ Classes \subseteq {"TRANSFERABLE", "VERIFIABLE"}
    /\ Versions # {}
    /\ MaxFlows \in Nat
    /\ MaxAttempts \in Nat \ {0}
    /\ MaxStalledCount \in Nat

VARIABLES
    setting,   \* the setting of this behaviour
    doc,       \* the trade document
    tokens,    \* the roots the token registry has minted a token for
    wrapped,   \* the number of roots produced: each wrap salts the content
    request,   \* request[r]: where the API handler r is
    accepted,  \* how many issue requests have set the document's status
               \* since it was In Progress
    flows,     \* the number of flows added so far
    job,       \* job[f]: the current job of flow f
    handler,   \* handler[f]: where the processor of that job is
    faults     \* how many faults have happened

vars == <<setting, doc, tokens, wrapped, request, accepted, flows, job, handler, faults>>

Flow == 1..MaxFlows
Root == Nat
Status == {"IN_PROGRESS", "PROCESSING", "ISSUED", "DELETED"}
Details == [root : Root, minted : BOOLEAN]
Stages == {"issued-file", "tt-file", "mint", "finalise"}

(* issuedFile is the flow whose tracking id the file shows; 0 for none. *)
Document ==
    [status : Status, class : Classes, content : Versions, original : Versions,
     tracking : 0..MaxFlows, issuedFile : 0..MaxFlows, details : Details,
     ttFile : [root : Root, content : Versions, attached : 0..MaxFlows]]

RequestSteps == {"idle", "set_processing", "add_flow", "write_content",
                 "delete", "store_file", "restore_status"}
HandlerSteps == {"idle", "read_original", "store_issued_file", "restore_status",
                 "set_tracking", "read_content", "read_issued_file", "save_root",
                 "store_tt_file", "read_details", "mint", "save_details",
                 "set_issued", "return"}

(* What a handler remembers between its awaits. *)
Memory == [status : Status, content : Versions, file : 0..MaxFlows, details : Details]

TypeOK ==
    /\ setting \in Settings
    /\ doc \in Document
    /\ tokens \in SUBSET Root
    /\ wrapped \in Root
    /\ request \in [Requests -> [step : RequestSteps, status : Status]]
    /\ accepted \in 0..Cardinality(Requests)
    /\ flows \in 0..MaxFlows
    /\ job \in [Flow -> [stage : Stages, attempts : 0..MaxAttempts,
                         stalls : 0..MaxStalledCount,
                         state : {"none", "waiting", "active", "delayed",
                                  "completed", "failed"}]]
    /\ handler \in [Flow -> [step : HandlerSteps, mem : Memory]]
    /\ faults \in 0..setting.faults

NoDetails == [root |-> 0, minted |-> FALSE]
FirstVersion == CHOOSE v \in Versions : TRUE
Idle == [step |-> "idle", status |-> "IN_PROGRESS"]
Blank == [status |-> "PROCESSING", content |-> FirstVersion, file |-> 0,
          details |-> NoDetails]
Resting == [step |-> "idle", mem |-> Blank]
NewJob(stage, state) ==
    [stage |-> stage, attempts |-> 0, stalls |-> 0, state |-> state]

Init ==
    /\ setting \in Settings
    /\ \E c \in Classes :
          doc = [status |-> "IN_PROGRESS", class |-> c, content |-> FirstVersion,
                 original |-> FirstVersion, tracking |-> 0, issuedFile |-> 0,
                 details |-> NoDetails,
                 ttFile |-> [root |-> 0, content |-> FirstVersion, attached |-> 0]]
    /\ tokens = {}
    /\ wrapped = 0
    /\ request = [r \in Requests |-> Idle]
    /\ accepted = 0
    /\ flows = 0
    /\ job = [f \in Flow |-> NewJob("issued-file", "none")]
    /\ handler = [f \in Flow |-> Resting]
    /\ faults = 0

Present == doc.status # "DELETED"

(* What is left of accepted when the document becomes newDoc. *)
Counted(newDoc) == IF newDoc.status = "IN_PROGRESS" THEN 0 ELSE accepted
-----------------------------------------------------------------------------
(* The API.  An operation on a document that is gone makes the handler     *)
(* throw, which ends it.                                                   *)
Begin(r, kind, step) ==
    /\ r \in setting.requests /\ kind \in setting.kinds
    /\ request[r].step = "idle"
    /\ request' = [request EXCEPT ![r] = [step |-> step, status |-> doc.status]]
    /\ UNCHANGED <<setting, doc, tokens, wrapped, accepted, flows, job, handler, faults>>

(* The next operation of r: make the change and go on, or throw. *)
Operate(r, step, change, next) ==
    /\ request[r].step = step
    /\ \/ Present /\ doc' = change /\ request' = [request EXCEPT ![r] = next]
       \/ ~Present /\ doc' = doc /\ request' = [request EXCEPT ![r] = Idle]
    /\ UNCHANGED <<setting, tokens, wrapped, flows, job, handler, faults>>

(* issueTradeDocument: read, set the status, add the flow. *)
Issuing(r) == request[r].step \in {"set_processing", "add_flow"}
Admitted == flows + Cardinality({r \in Requests : Issuing(r)}) < MaxFlows

(* Mutant of BeginIssue: isReadyToIssue does not ask for the status. *)
BeginIssueAnyTime(r) ==
    /\ Admitted
    /\ Begin(r, "issue", "set_processing")

BeginIssue(r) ==
    /\ Admitted
    /\ doc.status = "IN_PROGRESS"
    /\ Begin(r, "issue", "set_processing")

SetProcessing(r) ==
    /\ Operate(r, "set_processing", [doc EXCEPT !.status = "PROCESSING"],
               [step |-> "add_flow", status |-> "PROCESSING"])
    /\ accepted' = IF Present THEN accepted + 1 ELSE accepted

AddFlow(r) ==
    /\ request[r].step = "add_flow"
    /\ flows' = flows + 1
    /\ job' = [job EXCEPT ![flows + 1] = NewJob("issued-file", "waiting")]
    /\ request' = [request EXCEPT ![r] = Idle]
    /\ UNCHANGED <<setting, doc, tokens, wrapped, accepted, handler, faults>>

(* Mutants of BeginUpdate and BeginDelete: neither asks for the status. *)
BeginUpdateAnyTime(r) == Begin(r, "update", "write_content")
BeginDeleteAnyTime(r) == Begin(r, "delete", "delete")

(* updateTradeDocumentById and deleteDocumentById read the status, then    *)
(* write, in two operations.                                               *)
BeginUpdate(r) == doc.status = "IN_PROGRESS" /\ Begin(r, "update", "write_content")

WriteContent(r) ==
    /\ \E v \in Versions \ {doc.content} :
          Operate(r, "write_content", [doc EXCEPT !.content = v], Idle)
    /\ accepted' = accepted

BeginDelete(r) == doc.status = "IN_PROGRESS" /\ Begin(r, "delete", "delete")

Delete(r) ==
    /\ Operate(r, "delete", [doc EXCEPT !.status = "DELETED"], Idle)
    /\ accepted' = accepted

(* updateTradeDocumentFileById, for an upload: it asks only whether the    *)
(* document exists, and writes back the status it got with the file.       *)
BeginUpload(r) == Present /\ Begin(r, "upload", "store_file")

StoreFile(r) ==
    /\ \E v \in Versions :
          Operate(r, "store_file", [doc EXCEPT !.original = v],
                  [step |-> "restore_status", status |-> doc.status])
    /\ accepted' = accepted

RestoreStatus(r) ==
    /\ Operate(r, "restore_status", [doc EXCEPT !.status = request[r].status], Idle)
    /\ accepted' = Counted(doc')

(* The API process dies, or the next operation throws. *)
RequestFails(r) ==
    /\ faults < setting.faults
    /\ request[r].step # "idle"
    /\ faults' = faults + 1
    /\ request' = [request EXCEPT ![r] = Idle]
    /\ UNCHANGED <<setting, doc, tokens, wrapped, accepted, flows, job, handler>>
-----------------------------------------------------------------------------
(* The jobs of a flow. *)
(* Mutant of FirstStep: the test of isTransferrable is the wrong way round. *)
FirstStepSwapped(stage) ==
    CASE stage = "issued-file" -> "read_original"
      [] stage = "tt-file" -> "read_content"
      [] stage = "mint" -> IF doc.class = "TRANSFERABLE" THEN "return" ELSE "read_details"
      [] stage = "finalise" -> "read_details"

FirstStep(stage) ==
    CASE stage = "issued-file" -> "read_original"
      [] stage = "tt-file" -> "read_content"
      [] stage = "mint" -> IF doc.class = "TRANSFERABLE" THEN "read_details" ELSE "return"
      [] stage = "finalise" -> "read_details"

(* A process runs one job of a queue at a time. *)
Running(stage) == {g \in Flow : job[g].stage = stage /\ handler[g].step # "idle"}

Take(f) ==
    /\ job[f].state = "waiting"
    /\ Cardinality(Running(job[f].stage)) < setting.processes
    /\ job' = [job EXCEPT ![f].state = "active"]
    /\ handler' = [handler EXCEPT ![f].step = FirstStep(job[f].stage)]
    /\ UNCHANGED <<setting, doc, tokens, wrapped, request, accepted, flows, faults>>

(* Mutants of Throw: one attempt too many; the flow starts again. *)
ThrowLate(f) ==
    /\ handler' = [handler EXCEPT ![f] = Resting]
    /\ job' = [job EXCEPT ![f].attempts = @ + 1,
                          ![f].state = IF job[f].attempts + 1 <= MaxAttempts
                                       THEN "delayed" ELSE "failed"]
    /\ UNCHANGED <<setting, tokens, wrapped, request, accepted, flows>>

ThrowAndRestart(f) ==
    /\ handler' = [handler EXCEPT ![f] = Resting]
    /\ job' = [job EXCEPT ![f].stage = "issued-file",
                          ![f].attempts = @ + 1,
                          ![f].state = IF job[f].attempts + 1 < MaxAttempts
                                       THEN "delayed" ELSE "failed"]
    /\ UNCHANGED <<setting, tokens, wrapped, request, accepted, flows>>

(* A handler that throws backs off, or gives up after its last attempt:    *)
(* then the jobs that wait for this one wait forever.                      *)
Throw(f) ==
    /\ handler' = [handler EXCEPT ![f] = Resting]
    /\ job' = [job EXCEPT ![f].attempts = @ + 1,
                          ![f].state = IF job[f].attempts + 1 < MaxAttempts
                                       THEN "delayed" ELSE "failed"]
    /\ UNCHANGED <<setting, tokens, wrapped, request, accepted, flows>>

NextStage(stage) ==
    CASE stage = "issued-file" -> "tt-file"
      [] stage = "tt-file" -> "mint"
      [] stage = "mint" -> "finalise"

(* A job that is done releases the one that waits for it. *)
Return(f) ==
    /\ handler[f].step = "return"
    /\ handler' = [handler EXCEPT ![f] = Resting]
    /\ job' = [job EXCEPT ![f] = IF @.stage = "finalise"
                                 THEN [@ EXCEPT !.state = "completed"]
                                 ELSE NewJob(NextStage(@.stage), "waiting")]
    /\ UNCHANGED <<setting, doc, tokens, wrapped, request, accepted, flows, faults>>

(* Processor steps: at step, remember mem and write newDoc, then go on. *)
Does(f, stage, step, next, mem, newDoc) ==
    /\ job[f].stage = stage
    /\ handler[f].step = step
    /\ Present
    /\ handler' = [handler EXCEPT ![f] = [step |-> next, mem |-> mem]]
    /\ doc' = newDoc
    /\ accepted' = Counted(newDoc)
    /\ UNCHANGED <<setting, tokens, request, flows, job, faults>>

(* produce-issued-file puts the tracking id of its job data in a new file. *)
IssuedFile(f) ==
    LET m == handler[f].mem IN
    /\ \/ Does(f, "issued-file", "read_original", "store_issued_file", m, doc)
       \/ Does(f, "issued-file", "store_issued_file", "restore_status",
               [m EXCEPT !.status = doc.status], [doc EXCEPT !.issuedFile = f])
       \/ Does(f, "issued-file", "restore_status", "set_tracking",
               m, [doc EXCEPT !.status = m.status])
       \/ Does(f, "issued-file", "set_tracking", "return",
               m, [doc EXCEPT !.tracking = f])
    /\ wrapped' = wrapped

(* produce-tt-file wraps content and issued file under a new root, which   *)
(* it saves before it stores the file.                                     *)
TtFile(f) ==
    LET m == handler[f].mem IN
    \/ /\ \/ Does(f, "tt-file", "read_content", "read_issued_file",
                  [m EXCEPT !.content = doc.content], doc)
          \/ Does(f, "tt-file", "read_issued_file", "save_root",
                  [m EXCEPT !.file = doc.issuedFile], doc)
          \/ Does(f, "tt-file", "store_tt_file", "restore_status",
                  [m EXCEPT !.status = doc.status],
                  [doc EXCEPT !.ttFile = [root |-> m.details.root,
                                          content |-> m.content,
                                          attached |-> m.file]])
          \/ Does(f, "tt-file", "restore_status", "return",
                  m, [doc EXCEPT !.status = m.status])
       /\ wrapped' = wrapped
    \/ LET new == [root |-> wrapped + 1, minted |-> FALSE]
       IN  /\ Does(f, "tt-file", "save_root", "store_tt_file",
                   [m EXCEPT !.details = new], [doc EXCEPT !.details = new])
           /\ wrapped' = wrapped + 1

(* wrapDocument returns an empty root and an empty file when wrapping      *)
(* fails, and the handler goes on with them.                               *)
WrapFails(f) ==
    /\ faults < setting.faults
    /\ faults' = faults + 1
    /\ job[f].stage = "tt-file"
    /\ handler[f].step = "save_root"
    /\ Present
    /\ handler' = [handler EXCEPT ![f].step = "store_tt_file",
                                  ![f].mem.details = NoDetails]
    /\ doc' = [doc EXCEPT !.details = NoDetails]
    /\ UNCHANGED <<setting, tokens, wrapped, request, accepted, flows, job>>

(* Storing an issued file deletes the one before it, maybe while another   *)
(* flow is about to download that one.  deleteFile erases it only where the *)
(* server runs in the upload directory (see Documents); where it does not  *)
(* the flow goes on, as TtFile says.                                       *)
IssuedFileGone(f) ==
    /\ job[f].stage = "tt-file"
    /\ handler[f].step = "save_root"
    /\ handler[f].mem.file # doc.issuedFile
    /\ Throw(f)
    /\ UNCHANGED <<setting, doc, faults>>

(* mint-document mints the root it reads in the document and saves what    *)
(* else it read with the receipt.                                          *)
Mint(f) ==
    LET m == handler[f].mem IN
    /\ \/ Does(f, "mint", "read_details", "mint",
               [m EXCEPT !.details = doc.details], doc)
       \/ Does(f, "mint", "save_details", "return",
               m, [doc EXCEPT !.details = [m.details EXCEPT !.minted = TRUE]])
    /\ wrapped' = wrapped

(* The registry refuses a second token of one root, and an empty root.     *)
Mintable(root) == root \notin tokens \cup {0}

MintToken(f) ==
    LET root == handler[f].mem.details.root IN
    /\ handler[f].step = "mint"
    /\ \/ /\ Mintable(root)
          /\ tokens' = tokens \cup {root}
          /\ handler' = [handler EXCEPT ![f].step = "save_details"]
          /\ UNCHANGED <<setting, wrapped, request, accepted, flows, job>>
       \/ ~Mintable(root) /\ Throw(f)
    /\ UNCHANGED <<setting, doc, faults>>

Finalise(f) ==
    LET m == handler[f].mem IN
    /\ \/ Does(f, "finalise", "read_details", "save_details",
               [m EXCEPT !.details = doc.details], doc)
       \/ Does(f, "finalise", "save_details", "set_issued",
               m, [doc EXCEPT !.details = m.details])
       \/ Does(f, "finalise", "set_issued", "return",
               m, [doc EXCEPT !.status = "ISSUED"])
    /\ wrapped' = wrapped

(* An operation on a document that is gone throws. *)
DocumentGone(f) ==
    /\ ~Present
    /\ handler[f].step \notin {"idle", "mint", "return"}
    /\ Throw(f)
    /\ UNCHANGED <<setting, doc, faults>>

OperationFails(f) ==
    /\ faults < setting.faults
    /\ handler[f].step # "idle"
    /\ faults' = faults + 1
    /\ Throw(f)
    /\ doc' = doc

(* The process dies; its job stays active until the lock has expired. *)
ProcessDies(f) ==
    /\ faults < setting.faults
    /\ handler[f].step # "idle"
    /\ faults' = faults + 1
    /\ handler' = [handler EXCEPT ![f] = Resting]
    /\ UNCHANGED <<setting, doc, tokens, wrapped, request, accepted, flows, job>>

(* Mutant of Recover: a stalled job is given up at once. *)
GiveUpStalled(f) ==
    /\ job[f].state = "active"
    /\ handler[f].step = "idle"
    /\ job' = [job EXCEPT ![f].state = "failed"]
    /\ UNCHANGED <<setting, doc, tokens, wrapped, request, accepted, flows, handler, faults>>

Retry(f) ==
    /\ job[f].state = "delayed"
    /\ job' = [job EXCEPT ![f].state = "waiting"]
    /\ UNCHANGED <<setting, doc, tokens, wrapped, request, accepted, flows, handler, faults>>

Recover(f) ==
    /\ job[f].state = "active"
    /\ handler[f].step = "idle"
    /\ job' = [job EXCEPT ![f] =
                  IF @.stalls < MaxStalledCount
                  THEN [@ EXCEPT !.state = "waiting", !.stalls = job[f].stalls + 1]
                  ELSE [@ EXCEPT !.state = "failed"]]
    /\ UNCHANGED <<setting, doc, tokens, wrapped, request, accepted, flows, handler, faults>>
-----------------------------------------------------------------------------
ApiStep(r) ==
    \/ SetProcessing(r) \/ AddFlow(r)
    \/ WriteContent(r) \/ Delete(r)
    \/ StoreFile(r) \/ RestoreStatus(r)

HandlerStep(f) ==
    \/ Take(f) \/ Return(f)
    \/ IssuedFile(f) \/ TtFile(f) \/ Mint(f) \/ MintToken(f) \/ Finalise(f)
    \/ IssuedFileGone(f) \/ DocumentGone(f)

Next ==
    \/ \E r \in Requests :
          \/ BeginIssue(r) \/ BeginUpdate(r) \/ BeginDelete(r) \/ BeginUpload(r)
          \/ ApiStep(r) \/ RequestFails(r)
    \/ \E f \in Flow :
          \/ HandlerStep(f)
          \/ WrapFails(f) \/ OperationFails(f) \/ ProcessDies(f)
          \/ Retry(f) \/ Recover(f)

Spec == Init /\ [][Next]_vars

(* Processes that run take jobs and go on with them, backoffs elapse and   *)
(* stalled jobs are found.  Nothing obliges an API process to go on.       *)
Fairness ==
    \A f \in Flow : WF_vars(HandlerStep(f)) /\ WF_vars(Retry(f)) /\ WF_vars(Recover(f))

FairSpec == Spec /\ Fairness
-----------------------------------------------------------------------------
(* What holds when the requests come one at a time, whatever fails.        *)
OneRequest == Cardinality(setting.requests) = 1

(* An issued document is of one piece: the .tt file wraps the document's   *)
(* content and its issued file, its root is the one in the issue details,  *)
(* and a transferable document has the token of that root and its receipt. *)
IssuedCoherent ==
    OneRequest /\ doc.status = "ISSUED" =>
        /\ doc.ttFile.root = doc.details.root
        /\ doc.ttFile.content = doc.content
        /\ doc.ttFile.attached = doc.issuedFile
        /\ doc.issuedFile = doc.tracking
        /\ doc.class = "TRANSFERABLE" => doc.details.root \in tokens /\ doc.details.minted

(* The retries of a flow never put a second token of the document on chain *)
(* nor is a second flow ever added.                                        *)
OneToken == OneRequest => Cardinality(tokens) <= 1 /\ flows <= 1

(* What was issued is neither changed nor deleted.  An upload may replace   *)
(* the original, and put back the status it read before the flow ended.    *)
IssuedStays ==
    [][OneRequest /\ doc.status = "ISSUED" =>
        /\ doc'.status \in {"ISSUED", "PROCESSING"}
        /\ doc' = [doc EXCEPT !.status = doc'.status, !.original = doc'.original]]_vars

(* What holds however requests, flows and failures interleave.             *)

(* An issued transferable document has a token on chain, if not always the *)
(* one whose root the document names; and some flow got to its last job.   *)
IssuedMeansMinted ==
    doc.status = "ISSUED" =>
        /\ \E f \in Flow : job[f].stage = "finalise"
        /\ doc.class = "TRANSFERABLE" => tokens # {}

(* Requests that find the document In Progress at the same time may all be *)
(* accepted, but none that comes later, until an upload or a flow puts the *)
(* status it had read back: acceptances in between never outnumber the     *)
(* requests the API serves at the same time.                               *)
AcceptedBounded ==
    accepted + Cardinality({r \in Requests : request[r].step = "set_processing"})
        <= Cardinality(setting.requests)

(* One failure of one operation or process does not keep a verifiable      *)
(* document from being issued, once its flow is added; what an upload may  *)
(* do to the status afterwards is IssuedStays.                             *)
FlowsIssue ==
    [](OneRequest /\ faults <= 1) =>
        (<>(flows > 0 /\ doc.class = "VERIFIABLE") => <>(doc.status = "ISSUED"))
-----------------------------------------------------------------------------
(* What the sources say and the code does not ensure. *)

(* README.md, Trade document lifecycle: "Once processing has completed the *)
(* status would become Issued or In Progress. If the processing fails, the *)
(* status is reverted to In Progress".                                     *)
ProcessingEnds == (doc.status = "PROCESSING") ~> (doc.status # "PROCESSING")
=============================================================================
