------------------------------ MODULE DealDesk ------------------------------
(***************************************************************************)
(* The deal desk after a funding request was recorded: the decision, the   *)
(* promissory note it creates, issuing the note together with a signing    *)
(* event, more signing events by the API of document signing, and the      *)
(* hourly check that turns a signature on chain into the status of the     *)
(* deal.                                                                   *)
(*                                                                         *)
(* Actors are the portal's requests (DealProcessingService), the jobs of   *)
(* the multi-sign flow (issue, off-chain, on-chain, finalise; attempts: 3  *)
(* each), the cron jobs and, on chain, the parties.  An action is one      *)
(* database, queue or chain operation with the code up to the next one.    *)
(* The four jobs that issue the note are those of IssueFlow and one stage  *)
(* here.  One deal; deals share nothing.  Removing the record is           *)
(* FundingRequests.  PATCH :id/promissory-note/sign has no action: it      *)
(* looks the note up in the account of the borrower, where notes are not   *)
(* kept, and throws.                                                       *)
(***************************************************************************)
EXTENDS Naturals, Sequences, FiniteSets

CONSTANTS
    Requests,         \* the HTTP requests the API serves at the same time
    Checkers,         \* the processes whose cron job checks signatures
    Contents,         \* what the portal can write into a note
    MaxAttempts,      \* attempts of the flow's jobs
    MaxStalledCount,  \* times a stalled job is given to another process
    Settings,         \* what is looked at together: whether setSigningDetails is
                      \* ever called (linking), and bounds: the
                      \* decisions made, the notes created, the updates of a
                      \* note begun, the flows added, the requests to the signing
                      \* API, and the faults (operations that fail, processes
                      \* that die)
    MaxNotes,         \* the largest of these bounds on notes
    MaxFlows,         \* on flows
    MaxFaults         \* and on faults

ASSUME DealDeskAssumption ==
    /\ IsFiniteSet(Requests)
    /\ Contents # {}
    /\ MaxAttempts \in Nat \ {0}
    /\ {MaxStalledCount, MaxNotes, MaxFlows, MaxFaults} \subseteq Nat
    /\ Settings \subseteq [linking : BOOLEAN, decisions : Nat, updates : Nat, asked : Nat,
                           notes : 0..MaxNotes, flows : 0..MaxFlows, faults : 0..MaxFaults]

VARIABLES
    setting,   \* the bounds of this behaviour
    deal,      \* the deal processing record
    notes,     \* the promissory notes in tradedocuments, oldest first
    signings,  \* the records of documentsignings, oldest first
    contract,  \* the documents on chain, oldest first
    request,   \* request[q]: where the API handler q is
    flow,      \* the multi-sign flows added, oldest first
    check,     \* check[k]: where the hourly check k is
    made,      \* how many decisions, updates and API requests were begun
    past,      \* what a property remembers: the notes of which flows overlapped,
               \* and the signing records whose status was asked for
    faults     \* how many faults have happened

vars == <<setting, deal, notes, signings, contract, request, flow, check, made, past,
          faults>>

Decision == {"PENDING", "APPROVED", "DECLINED"}
DealStatus == {"NEW", "IN_PROGRESS", "REJECTED", "AWAITING_AGREEMENT",
               "FUNDING_REQUESTED", "EXPIRED"}
SigningStatus == {"PENDING", "IN_PROGRESS", "SIGNED", "EXPIRED", "REVOKED"}
ChainStatus == {"PENDING", "SIGNED", "EXPIRED", "REVOKED"}
NoteStatus == {"IN_PROGRESS", "PROCESSING", "ISSUED"}
Stages == {"issue", "off-chain", "on-chain", "finalise"}

NoteId == 1..MaxNotes
SigningId == 1..(MaxFlows + MaxFaults)
NoFile == "no_file"

(* A note, of which the issued file shows the content it had. *)
Note == [status : NoteStatus, content : Contents, issued : Contents \cup {NoFile},
         signing : {0} \cup SigningId]
NewNote == [status |-> "IN_PROGRESS", content |-> CHOOSE c \in Contents : TRUE,
            issued |-> NoFile, signing |-> 0]

RequestSteps == {"idle", "write_decision", "create_note", "link_note", "read_note",
                 "check_note", "write_note", "issuable", "store_file",
                 "restore_status", "ready", "set_processing", "add_flow", "add_event"}
RequestState == [step : RequestSteps, decision : Decision, seen : DealStatus,
                 note : {0} \cup NoteId, read : Note]
Idle == [step |-> "idle", decision |-> "PENDING", seen |-> "NEW", note |-> 0,
         read |-> NewNote]

(* A signing record; note: the document it was made for. *)
Signing == [status : SigningStatus, contract : {0} \cup SigningId, note : NoteId]

FlowState == [note : NoteId, stage : Stages, attempts : 0..MaxAttempts,
              stalls : 0..MaxStalledCount,
              step : {"run", "name_record", "create_on_chain",
                      "save_contract", "set_ready", "return", "done", "failed"},
              signing : {0} \cup SigningId, contract : {0} \cup SigningId,
              file : Contents \cup {NoFile}]
NewFlow(n) == [note |-> n, stage |-> "issue", attempts |-> 0, stalls |-> 0,
               step |-> "run", signing |-> 0, contract |-> 0, file |-> NoFile]
CheckState == [step : {"idle", "ask_contract", "set_signing", "set_deal"},
               signing : {0} \cup SigningId, found : ChainStatus]
Rest == [step |-> "idle", signing |-> 0, found |-> "PENDING"]

TypeOK ==
    /\ setting \in Settings
    /\ deal \in [status : DealStatus, decision : Decision, note : {0} \cup NoteId,
                 link : {0} \cup SigningId]
    /\ notes \in Seq(Note) /\ Len(notes) <= MaxNotes
    /\ signings \in Seq(Signing)
    /\ contract \in Seq([status : ChainStatus, file : Contents])
    /\ Len(signings) <= MaxFlows + MaxFaults
    /\ Len(contract) <= MaxFlows + MaxFaults
    /\ request \in [Requests -> RequestState]
    /\ flow \in Seq(FlowState) /\ Len(flow) <= MaxFlows
    /\ check \in [Checkers -> CheckState]
    /\ made \in [decisions : 0..setting.decisions, updates : 0..setting.updates,
                 asked : 0..setting.asked]
    /\ past \in [overlapped : SUBSET NoteId, asked : SUBSET SigningId]
    /\ faults \in 0..setting.faults

Init ==
    /\ setting \in Settings
    /\ deal = [status |-> "NEW", decision |-> "PENDING", note |-> 0, link |-> 0]
    /\ notes = <<>> /\ signings = <<>> /\ contract = <<>> /\ flow = <<>>
    /\ request = [q \in Requests |-> Idle]
    /\ check = [k \in Checkers |-> Rest]
    /\ made = [decisions |-> 0, updates |-> 0, asked |-> 0]
    /\ past = [overlapped |-> {}, asked |-> {}]
    /\ faults = 0

At(q, step) == request[q].step = step
Go(q, step) == request' = [request EXCEPT ![q].step = step]
End(q) == request' = [request EXCEPT ![q] = Idle]
NoteOf(q) == notes[request[q].note]
SetNote(n, new) == notes' = [notes EXCEPT ![n] = new]
Elsewhere == <<setting, signings, contract, flow, check, past, faults>>
-----------------------------------------------------------------------------
(* The decision, and the promissory note of an approval. *)

StatusFor(decision) ==
    CASE decision = "APPROVED" -> "AWAITING_AGREEMENT"
      [] decision = "DECLINED" -> "REJECTED"
      [] decision = "PENDING" -> "IN_PROGRESS"

(* Bound: every handler that may still create a note has room for it. *)
NotesAdmitted ==
    Len(notes) + Cardinality({q \in Requests :
        \/ At(q, "create_note")
        \/ At(q, "write_decision") /\ request[q].decision = "APPROVED"}) < setting.notes

(* updateFundingDecision reads the record for its status. *)
BeginDecision(q, d) ==
    /\ At(q, "idle")
    /\ made.decisions < setting.decisions
    /\ d = "APPROVED" => NotesAdmitted
    /\ made' = [made EXCEPT !.decisions = @ + 1]
    /\ request' = [request EXCEPT ![q] =
          [Idle EXCEPT !.step = "write_decision", !.decision = d, !.seen = deal.status]]
    /\ UNCHANGED <<deal, notes, Elsewhere>>

(* Mutant of WriteDecision: a note only on the way up to the agreement. *)
WriteDecisionForward(q) ==
    LET new == StatusFor(request[q].decision)
    IN  /\ At(q, "write_decision")
        /\ deal' = [deal EXCEPT !.decision = request[q].decision, !.status = new]
        /\ IF request[q].seen \in {"NEW", "IN_PROGRESS"} /\ new = "AWAITING_AGREEMENT"
           THEN Go(q, "create_note")
           ELSE End(q)
        /\ UNCHANGED <<notes, made, Elsewhere>>

(* Decision and status are one update, whatever they were; a note is       *)
(* created only when the status read before was another one.               *)
WriteDecision(q) ==
    LET new == StatusFor(request[q].decision)
    IN  /\ At(q, "write_decision")
        /\ deal' = [deal EXCEPT !.decision = request[q].decision, !.status = new]
        /\ IF new # request[q].seen /\ new = "AWAITING_AGREEMENT"
           THEN Go(q, "create_note")
           ELSE End(q)
        /\ UNCHANGED <<notes, made, Elsewhere>>

(* POST :dealId/promissory-note goes straight to createPromissoryNote. *)
BeginPostNote(q) ==
    /\ At(q, "idle")
    /\ NotesAdmitted
    /\ Go(q, "create_note")
    /\ UNCHANGED <<deal, notes, made, Elsewhere>>

CreateNote(q) ==
    /\ At(q, "create_note")
    /\ notes' = Append(notes, NewNote)
    /\ request' = [request EXCEPT ![q] =
          [Idle EXCEPT !.step = "link_note", !.note = Len(notes) + 1]]
    /\ UNCHANGED <<deal, made, Elsewhere>>

(* savePromissoryNoteDetails *)
LinkNote(q) ==
    /\ At(q, "link_note")
    /\ deal' = [deal EXCEPT !.note = request[q].note]
    /\ End(q)
    /\ UNCHANGED <<notes, made, Elsewhere>>
-----------------------------------------------------------------------------
(* updatePromissoryNote: the note's document is read whole, its content    *)
(* replaced, and all of it written back if the document is In Progress     *)
(* when it is looked at in between.                                        *)
BeginUpdate(q) ==
    /\ At(q, "idle")
    /\ deal.note # 0
    /\ made.updates < setting.updates
    /\ made' = [made EXCEPT !.updates = @ + 1]
    /\ request' = [request EXCEPT ![q] = [Idle EXCEPT !.step = "read_note", !.note = deal.note]]
    /\ UNCHANGED <<deal, notes, Elsewhere>>

ReadNote(q) ==
    /\ At(q, "read_note")
    /\ request' = [request EXCEPT ![q].step = "check_note", ![q].read = NoteOf(q)]
    /\ UNCHANGED <<deal, notes, made, Elsewhere>>

CheckNote(q) ==
    /\ At(q, "check_note")
    /\ IF NoteOf(q).status = "IN_PROGRESS" THEN Go(q, "write_note") ELSE End(q)
    /\ UNCHANGED <<deal, notes, made, Elsewhere>>

WriteNote(q) ==
    LET read == request[q].read
    IN  /\ At(q, "write_note")
        /\ \E c \in Contents :
              SetNote(request[q].note,
                 [status |-> read.status, content |-> c,
                  issued |-> IF read.issued = NoFile THEN NoteOf(q).issued ELSE read.issued,
                  signing |-> IF read.signing = 0 THEN NoteOf(q).signing ELSE read.signing])
        /\ End(q)
        /\ UNCHANGED <<deal, made, Elsewhere>>
-----------------------------------------------------------------------------
(* issuePromissoryNote: the PDF is uploaded as the note's original file,   *)
(* which writes the status back, and issueMultiSignTradeDocument reads the *)
(* document again, sets it to PROCESSING and adds the flow.                *)
FlowsAdmitted ==
    Len(flow) + Cardinality({q \in Requests : request[q].step \in
        {"issuable", "store_file", "restore_status", "ready", "set_processing", "add_flow",
         "add_event"}})
      < setting.flows

BeginIssue(q) ==
    /\ At(q, "idle")
    /\ FlowsAdmitted
    /\ deal.status = "AWAITING_AGREEMENT" /\ deal.decision = "APPROVED"
    /\ deal.note # 0
    /\ request' = [request EXCEPT ![q] = [Idle EXCEPT !.step = "issuable", !.note = deal.note]]
    /\ UNCHANGED <<deal, notes, made, Elsewhere>>

IssuableNote(q) ==
    /\ At(q, "issuable")
    /\ IF NoteOf(q).status = "IN_PROGRESS" THEN Go(q, "store_file") ELSE End(q)
    /\ UNCHANGED <<deal, notes, made, Elsewhere>>

StoreFile(q) ==
    /\ At(q, "store_file")
    /\ request' = [request EXCEPT ![q].step = "restore_status", ![q].read = NoteOf(q)]
    /\ UNCHANGED <<deal, notes, made, Elsewhere>>

RestoreStatus(q) ==
    /\ At(q, "restore_status")
    /\ SetNote(request[q].note, [NoteOf(q) EXCEPT !.status = request[q].read.status])
    /\ Go(q, "ready")
    /\ UNCHANGED <<deal, made, Elsewhere>>

ReadyToIssue(q) ==
    /\ At(q, "ready")
    /\ IF NoteOf(q).status = "IN_PROGRESS" THEN Go(q, "set_processing") ELSE End(q)
    /\ UNCHANGED <<deal, notes, made, Elsewhere>>

SetProcessing(q) ==
    /\ At(q, "set_processing")
    /\ SetNote(request[q].note, [NoteOf(q) EXCEPT !.status = "PROCESSING"])
    /\ Go(q, "add_flow")
    /\ UNCHANGED <<deal, made, Elsewhere>>

(* A flow is added, maybe while another of the same note is under way. *)
Underway(n) == \E f \in DOMAIN flow : flow[f].note = n /\ flow[f].step \notin {"done", "failed"}
Add(q, new) ==
    /\ flow' = Append(flow, new)
    /\ past' = IF Underway(new.note) THEN [past EXCEPT !.overlapped = @ \cup {new.note}]
               ELSE past
    /\ End(q)
    /\ UNCHANGED <<setting, deal, notes, signings, contract, check, made, faults>>

AddFlow(q) == At(q, "add_flow") /\ Add(q, NewFlow(request[q].note))
-----------------------------------------------------------------------------
(* The API of document signing. *)

(* createDocumentSigningEvent asks for an issued file, and for nothing     *)
(* about signing records or flows that the document has; it adds a flow    *)
(* without the jobs that issue.                                            *)
BeginSigningEvent(q, n) ==
    /\ At(q, "idle")
    /\ FlowsAdmitted /\ made.asked < setting.asked
    /\ notes[n].issued # NoFile
    /\ made' = [made EXCEPT !.asked = @ + 1]
    /\ request' = [request EXCEPT ![q] = [Idle EXCEPT !.step = "add_event", !.note = n]]
    /\ UNCHANGED <<deal, notes, Elsewhere>>

AddSigningEvent(q) ==
    At(q, "add_event") /\ Add(q, [NewFlow(request[q].note) EXCEPT !.stage = "off-chain"])

(* PUT :id/status sets the status it is given, whatever it was. *)
SetSigningStatus(s, status) ==
    /\ made.asked < setting.asked
    /\ made' = [made EXCEPT !.asked = @ + 1]
    /\ signings' = [signings EXCEPT ![s].status = status]
    /\ past' = [past EXCEPT !.asked = @ \cup {s}]
    /\ UNCHANGED <<setting, deal, notes, contract, request, flow, check, faults>>

(* The API process dies, or the next operation of the handler throws. *)
RequestFails(q) ==
    /\ ~At(q, "idle")
    /\ faults < setting.faults
    /\ faults' = faults + 1
    /\ End(q)
    /\ UNCHANGED <<setting, deal, notes, signings, contract, flow, check, made, past>>
-----------------------------------------------------------------------------
(* The jobs of a flow; each is released by the one before it.  A job whose *)
(* step is "run" waits, or a process is about to do its first operation.   *)

Does(f, stage, step) == flow[f].stage = stage /\ flow[f].step = step
NoteIn(f) == notes[flow[f].note]
Aside == <<setting, deal, request, check, made, past, faults>>

(* The four jobs of IssueFlow. *)
IssueNote(f) ==
    /\ Does(f, "issue", "run")
    /\ SetNote(flow[f].note, [NoteIn(f) EXCEPT !.status = "ISSUED", !.issued = NoteIn(f).content])
    /\ flow' = [flow EXCEPT ![f].step = "return"]
    /\ UNCHANGED <<signings, contract, Aside>>

(* processDocumentSigningOffChainEvent: the record, then its id in the note. *)
CreateRecord(f) ==
    /\ Does(f, "off-chain", "run")
    /\ signings' = Append(signings, [status |-> "PENDING", contract |-> 0,
                                    note |-> flow[f].note])
    /\ flow' = [flow EXCEPT ![f].signing = Len(signings) + 1, ![f].step = "name_record"]
    /\ UNCHANGED <<notes, contract, Aside>>

NameRecord(f) ==
    /\ flow[f].step = "name_record"
    /\ SetNote(flow[f].note, [NoteIn(f) EXCEPT !.signing = flow[f].signing])
    /\ flow' = [flow EXCEPT ![f].step = "return"]
    /\ UNCHANGED <<signings, contract, Aside>>

(* A handler throws: the job backs off, or is given up for good. *)
Throw(f) ==
    flow' = [flow EXCEPT ![f].attempts = @ + 1,
                         ![f].step = IF flow[f].attempts + 1 < MaxAttempts
                                     THEN "run" ELSE "failed"]

(* processDocumentSigningOnChainEvent reads the document and its issued    *)
(* file, creates the document on chain, and saves its id in the signing    *)
(* record the document named.                                              *)
ReadIssued(f) ==
    /\ Does(f, "on-chain", "run")
    /\ IF NoteIn(f).status = "ISSUED" /\ NoteIn(f).issued # NoFile
       THEN flow' = [flow EXCEPT ![f].signing = NoteIn(f).signing,
                                 ![f].file = NoteIn(f).issued,
                                 ![f].step = "create_on_chain"]
       ELSE Throw(f)
    /\ UNCHANGED <<notes, signings, contract, Aside>>

CreateOnChain(f) ==
    /\ flow[f].step = "create_on_chain"
    /\ contract' = Append(contract, [status |-> "PENDING", file |-> flow[f].file])
    /\ flow' = [flow EXCEPT ![f].contract = Len(contract) + 1, ![f].step = "save_contract"]
    /\ UNCHANGED <<notes, signings, Aside>>

SaveContract(f) ==
    /\ flow[f].step = "save_contract"
    /\ signings' = [signings EXCEPT ![flow[f].signing].contract = flow[f].contract]
    /\ flow' = [flow EXCEPT ![f].step = "return"]
    /\ UNCHANGED <<notes, contract, Aside>>

(* processDocumentSigningFinaliseEvent *)
ReadNamed(f) ==
    /\ Does(f, "finalise", "run")
    /\ IF NoteIn(f).signing # 0
       THEN flow' = [flow EXCEPT ![f].signing = NoteIn(f).signing, ![f].step = "set_ready"]
       ELSE Throw(f)
    /\ UNCHANGED <<notes, signings, contract, Aside>>

SetReady(f) ==
    /\ flow[f].step = "set_ready"
    /\ signings' = [signings EXCEPT ![flow[f].signing].status = "IN_PROGRESS"]
    /\ flow' = [flow EXCEPT ![f].step = "return"]
    /\ UNCHANGED <<notes, contract, Aside>>

(* Mutant of NextStage: the record is opened before it is on chain. *)
NextStageSwapped(stage) ==
    CASE stage = "issue" -> "off-chain"
      [] stage = "off-chain" -> "finalise"
      [] stage = "finalise" -> "on-chain"

NextStage(stage) ==
    CASE stage = "issue" -> "off-chain"
      [] stage = "off-chain" -> "on-chain"
      [] stage = "on-chain" -> "finalise"

(* The audit record is written and the handler returns. *)
Return(f) ==
    /\ flow[f].step = "return"
    /\ flow' = [flow EXCEPT ![f] =
          IF flow[f].stage = "finalise" THEN [flow[f] EXCEPT !.step = "done"]
          ELSE [NewFlow(flow[f].note) EXCEPT !.stage = NextStage(flow[f].stage)]]
    /\ UNCHANGED <<notes, signings, contract, Aside>>

Running(f) == flow[f].step \notin {"done", "failed"}

OperationFails(f) ==
    /\ Running(f)
    /\ faults < setting.faults
    /\ faults' = faults + 1
    /\ Throw(f)
    /\ UNCHANGED <<setting, deal, notes, signings, contract, request, check, made, past>>

(* The process dies; the stalled job is found and given to another one. *)
ProcessDies(f) ==
    /\ Running(f)
    /\ faults < setting.faults
    /\ faults' = faults + 1
    /\ flow' = [flow EXCEPT ![f] =
          IF flow[f].stalls < MaxStalledCount
          THEN [flow[f] EXCEPT !.step = "run", !.stalls = flow[f].stalls + 1]
          ELSE [flow[f] EXCEPT !.step = "failed"]]
    /\ UNCHANGED <<setting, deal, notes, signings, contract, request, check, made, past>>
-----------------------------------------------------------------------------
(* What nobody does: setSigningDetails has no caller.  With linking it is  *)
(* called for the signing record the note of an approved deal names.       *)
LinkSigning ==
    /\ setting.linking
    /\ deal.note # 0 /\ deal.status = "AWAITING_AGREEMENT"
    /\ notes[deal.note].signing \notin {0, deal.link}
    /\ deal' = [deal EXCEPT !.link = notes[deal.note].signing]
    /\ UNCHANGED <<setting, notes, signings, contract, request, flow, check, made, past,
                   faults>>

(* On chain the parties sign, the initiator revokes or the period ends. *)
Settle(c, s) ==
    /\ contract[c].status = "PENDING"
    /\ s # "PENDING"
    /\ contract' = [contract EXCEPT ![c].status = s]
    /\ UNCHANGED <<setting, deal, notes, signings, request, flow, check, made, past, faults>>
-----------------------------------------------------------------------------
(* checkDocumentSigningStatus: records that await agreement, their signing *)
(* record, the status of its contract, then two updates.                   *)

Apart == <<setting, notes, contract, request, flow, made, past, faults>>

BeginCheck(k) ==
    /\ check[k] = Rest
    /\ deal.status = "AWAITING_AGREEMENT" /\ deal.link # 0
    /\ signings[deal.link].contract # 0
    /\ check' = [check EXCEPT ![k] = [Rest EXCEPT !.step = "ask_contract", !.signing = deal.link]]
    /\ UNCHANGED <<deal, signings, Apart>>

AskContract(k) ==
    LET status == contract[signings[check[k].signing].contract].status
    IN  /\ check[k].step = "ask_contract"
        /\ check' = [check EXCEPT ![k] =
              IF status = "PENDING" THEN Rest
              ELSE [check[k] EXCEPT !.step = "set_signing", !.found = status]]
        /\ UNCHANGED <<deal, signings, Apart>>

SetSigning(k) ==
    /\ check[k].step = "set_signing"
    /\ signings' = [signings EXCEPT ![check[k].signing].status = check[k].found]
    /\ check' = [check EXCEPT ![k].step = "set_deal"]
    /\ UNCHANGED <<deal, Apart>>

(* Mutant of SetDeal: the handler of a revoked event is that of a signed one. *)
SetDealRevokedSigned(k) ==
    /\ check[k].step = "set_deal"
    /\ deal' = [deal EXCEPT !.status =
          IF check[k].found \in {"SIGNED", "REVOKED"} THEN "FUNDING_REQUESTED" ELSE "EXPIRED"]
    /\ check' = [check EXCEPT ![k] = Rest]
    /\ UNCHANGED <<signings, Apart>>

(* Mutant of SetDeal: the status found on chain is copied to the deal. *)
SetDealCopies(k) ==
    /\ check[k].step = "set_deal"
    /\ deal' = [deal EXCEPT !.status = check[k].found]
    /\ check' = [check EXCEPT ![k] = Rest]
    /\ UNCHANGED <<signings, Apart>>

SetDeal(k) ==
    /\ check[k].step = "set_deal"
    /\ deal' = [deal EXCEPT !.status =
          IF check[k].found = "SIGNED" THEN "FUNDING_REQUESTED" ELSE "EXPIRED"]
    /\ check' = [check EXCEPT ![k] = Rest]
    /\ UNCHANGED <<signings, Apart>>

(* An operation throws, which ends the check of this record, or the        *)
(* process dies.                                                           *)
CheckFails(k) ==
    /\ check[k] # Rest
    /\ faults < setting.faults
    /\ faults' = faults + 1
    /\ check' = [check EXCEPT ![k] = Rest]
    /\ UNCHANGED <<setting, deal, notes, signings, contract, request, flow, made, past>>
-----------------------------------------------------------------------------
ApiStep(q) ==
    \/ WriteDecision(q) \/ CreateNote(q) \/ LinkNote(q)
    \/ ReadNote(q) \/ CheckNote(q) \/ WriteNote(q)
    \/ IssuableNote(q) \/ StoreFile(q) \/ RestoreStatus(q) \/ ReadyToIssue(q)
    \/ SetProcessing(q) \/ AddFlow(q) \/ AddSigningEvent(q)

FlowStep(f) ==
    \/ IssueNote(f) \/ CreateRecord(f) \/ NameRecord(f)
    \/ ReadIssued(f) \/ CreateOnChain(f) \/ SaveContract(f)
    \/ ReadNamed(f) \/ SetReady(f) \/ Return(f)

CheckStep(k) == BeginCheck(k) \/ AskContract(k) \/ SetSigning(k) \/ SetDeal(k)

Portal(q) ==
    \/ \E d \in Decision : BeginDecision(q, d)
    \/ BeginPostNote(q) \/ BeginUpdate(q) \/ BeginIssue(q)
    \/ \E n \in DOMAIN notes : BeginSigningEvent(q, n)

Next ==
    \/ \E q \in Requests : Portal(q) \/ ApiStep(q) \/ RequestFails(q)
    \/ \E f \in DOMAIN flow : FlowStep(f) \/ OperationFails(f) \/ ProcessDies(f)
    \/ \E k \in Checkers : CheckStep(k) \/ CheckFails(k)
    \/ \E s \in DOMAIN signings, status \in SigningStatus : SetSigningStatus(s, status)
    \/ \E c \in DOMAIN contract, s \in ChainStatus : Settle(c, s)
    \/ LinkSigning

Spec == Init /\ [][Next]_vars

(* Processes go on with the jobs and the hourly check comes again.  Nobody *)
(* has to sign, decide or ask for anything.                                *)
Fairness ==
    /\ \A f \in 1..MaxFlows : WF_vars(f \in DOMAIN flow /\ FlowStep(f))
    /\ \A k \in Checkers : WF_vars(CheckStep(k))

FairSpec == Spec /\ Fairness
-----------------------------------------------------------------------------
Quiet == \A q \in Requests : At(q, "idle")

(* What holds when requests come one at a time.                            *)

(* When nothing fails, an approved deal has a promissory note and it is    *)
(* the latest that was created, however often the decision was changed.    *)
AgreementHasNote ==
    faults = 0 /\ Quiet /\ deal.decision = "APPROVED" =>
        notes # <<>> /\ deal.note = Len(notes)

(* A signing record is open only if its contract is on chain, and what the *)
(* parties sign there is the issued file of the note it was made for,      *)
(* which has not changed since, whatever was retried and however many      *)
(* signing events the note has had, one after another.  Of two that        *)
(* overlap the first opens the record of the second (finalise goes by the  *)
(* id the document names by then), and PUT :id/status opens any.           *)
SignableCoherent ==
    \A s \in DOMAIN signings \ past.asked :
        LET note == notes[signings[s].note] IN
        signings[s].status = "IN_PROGRESS" /\ signings[s].note \notin past.overlapped =>
            /\ signings[s].contract # 0
            /\ note.status = "ISSUED" /\ note.issued = note.content
            /\ contract[signings[s].contract].file = note.issued

(* What holds however requests, jobs and checks interleave.                *)

(* A deal is on its way to its funds only if some document of it was       *)
(* signed on chain, however late the check writes what it found.           *)
FundedMeansSigned ==
    deal.status = "FUNDING_REQUESTED" => \E c \in DOMAIN contract : contract[c].status = "SIGNED"
-----------------------------------------------------------------------------
(* What the sources say and the code does not ensure. *)

(* README.md, Trade Deal lifecycle, Awaiting Agreement: "If the agreement  *)
(* is not reached before the end of the signing period then the document   *)
(* will move to a state of Expired".                                       *)
AgreementsExpire ==
    (/\ deal.status = "AWAITING_AGREEMENT" /\ contract # <<>>
     /\ \A c \in DOMAIN contract : contract[c].status = "EXPIRED")
       ~> (deal.status # "AWAITING_AGREEMENT")
=============================================================================
