--------------------------- MODULE IssueFlow_proofs -------------------------
(* What holds of the issuing of a document for all settings, whatever the  *)
(* numbers of requests, processes, flows, attempts and faults.             *)
EXTENDS IssueFlow, FiniteSetTheorems, TLAPS

-----------------------------------------------------------------------------
(* The invariant: first what holds in every setting. *)
StepsOf(stage) ==
    CASE stage = "issued-file" -> {"read_original", "store_issued_file", "restore_status",
                                   "set_tracking", "return"}
      [] stage = "tt-file" -> {"read_content", "read_issued_file", "save_root",
                               "store_tt_file", "restore_status", "return"}
      [] stage = "mint" -> {"read_details", "mint", "save_details", "return"}
      [] stage = "finalise" -> {"read_details", "save_details", "set_issued", "return"}

(* A busy handler runs an active job with an attempt left, at a step of    *)
(* its stage; a flow that was not added yet has neither job nor handler.   *)
FlowSound(f) ==
    /\ handler[f].step # "idle" =>
          job[f].state = "active" /\ handler[f].step \in StepsOf(job[f].stage)
    /\ job[f].state \in {"waiting", "active", "delayed"} => job[f].attempts < MaxAttempts
    /\ f > flows => job[f] = NewJob("issued-file", "none") /\ handler[f] = Resting

Underway == {r \in Requests : Issuing(r)}
Unaccepted == {r \in Requests : request[r].step = "set_processing"}

(* Only the requests of the setting run, flows are added only as admitted, *)
(* and none is accepted while the document is In Progress.                 *)
RequestsSound ==
    /\ \A r \in Requests : request[r].step # "idle" => r \in setting.requests
    /\ flows + Cardinality(Underway) <= MaxFlows
    /\ doc.status = "IN_PROGRESS" => accepted = 0
    /\ accepted + Cardinality(Unaccepted) <= Cardinality(setting.requests)

FlowMinted(f) ==
    (/\ doc.class = "TRANSFERABLE"
     /\ \/ job[f].stage = "finalise"
        \/ job[f].stage = "mint" /\ handler[f].step \in {"save_details", "return"})
    => tokens # {}

Finalising == \E f \in Flow : job[f].stage = "finalise"

(* The document was Issued only when a flow had got to its last job, also  *)
(* where that is only remembered, and such a flow has minted.              *)
MintedSound ==
    /\ doc.status = "ISSUED" => Finalising
    /\ \A r \in Requests : request[r].status = "ISSUED" => Finalising
    /\ \A f \in Flow : handler[f].mem.status = "ISSUED" => Finalising
    /\ \A f \in Flow : FlowMinted(f)

IInv ==
    /\ TypeOK
    /\ \A f \in Flow : FlowSound(f)
    /\ RequestsSound
    /\ MintedSound

(* Then what holds when there is one request at a time. *)
Wrapped(d) ==
    /\ d.ttFile.root = d.details.root
    /\ d.ttFile.content = d.content
    /\ d.ttFile.attached = d.issuedFile

TokenSaved(d, chain) ==
    d.class = "TRANSFERABLE" => d.details.root \in chain /\ d.details.minted

(* The request that runs has the document to itself until its flow is      *)
(* added, but for an upload, which may run beside the flow.                *)
RequestAlone ==
    \A r \in Requests :
        /\ request[r].step \in {"set_processing", "write_content", "delete"} =>
              doc.status = "IN_PROGRESS"
        /\ request[r].step = "add_flow" => flows = 0
        /\ request[r].step \in {"store_file", "restore_status"} => Present
        /\ request[r].step = "restore_status" =>
              /\ request[r].status # "DELETED"
              /\ request[r].status = "IN_PROGRESS" <=> doc.status = "IN_PROGRESS"

(* How far flow f has come with document d: what is true at a step of a    *)
(* stage, whose handler remembers mem.                                     *)
StageHolds(f, stage, step, mem, d, chain) ==
    /\ stage # "finalise" => d.status = "PROCESSING"
    /\ step = "restore_status" => mem.status = "PROCESSING"
    /\ stage # "issued-file" \/ step \in {"restore_status", "set_tracking", "return"} =>
          d.issuedFile = f
    /\ stage # "issued-file" \/ step = "return" => d.tracking = f
    /\ stage = "tt-file" =>
          /\ step \in {"read_issued_file", "save_root", "store_tt_file"} =>
                mem.content = d.content
          /\ step \in {"save_root", "store_tt_file"} => mem.file = d.issuedFile
          /\ step = "store_tt_file" => mem.details = d.details
          /\ step \in {"restore_status", "return"} => Wrapped(d)
    /\ stage \in {"mint", "finalise"} => Wrapped(d) /\ chain \subseteq {d.details.root}
    /\ stage \in {"issued-file", "tt-file"} => chain = {}
    /\ stage = "mint" =>
          /\ step \in {"mint", "save_details"} => mem.details = d.details
          /\ step = "save_details" => d.details.root \in chain
          /\ step = "return" => TokenSaved(d, chain)
    /\ stage = "finalise" =>
          /\ TokenSaved(d, chain)
          /\ step = "save_details" => mem.details = d.details

StageSound(f) ==
    StageHolds(f, job[f].stage, handler[f].step, handler[f].mem, doc, tokens)

FlowAlone ==
    /\ flows <= 1
    /\ doc.status \in {"IN_PROGRESS", "DELETED"} =>
          flows = 0 /\ \A r \in Requests : request[r].step # "add_flow"
    /\ flows = 0 => tokens = {}
    /\ \A f \in Flow : f <= flows => StageSound(f)

Alone == OneRequest => RequestAlone /\ FlowAlone

-----------------------------------------------------------------------------
(* What the steps have in common. *)
RequestState == [step : RequestSteps, status : Status]
JobState ==
    [stage : Stages, attempts : 0..MaxAttempts, stalls : 0..MaxStalledCount,
     state : {"none", "waiting", "active", "delayed", "completed", "failed"}]
HandlerState == [step : HandlerSteps, mem : Memory]

(* A finite set that gains or loses at most one element. *)
LEMMA CountMoves ==
    ASSUME NEW S, IsFiniteSet(S), NEW P \in SUBSET S, NEW Q \in SUBSET S, NEW r \in S,
           \A q \in S : q # r => (q \in P <=> q \in Q)
    PROVE  /\ Cardinality(P) \in Nat /\ Cardinality(Q) \in Nat
           /\ Cardinality(P) <= Cardinality(S)
           /\ r \in P /\ r \notin Q => Cardinality(Q) = Cardinality(P) - 1
           /\ r \notin P /\ r \in Q => Cardinality(Q) = Cardinality(P) + 1
           /\ (r \in P <=> r \in Q) => Cardinality(Q) = Cardinality(P)
<1>1. /\ IsFiniteSet(P) /\ IsFiniteSet(Q) /\ Cardinality(P) <= Cardinality(S)
      /\ Cardinality(P) \in Nat /\ Cardinality(Q) \in Nat
  BY FS_Subset, FS_CardinalityType
<1>2. ASSUME r \in P, r \notin Q PROVE Cardinality(Q) = Cardinality(P) - 1
  <2>1. Q = P \ {r}
    BY <1>2
  <2>2. QED
    BY <1>1, <1>2, <2>1, FS_RemoveElement
<1>3. ASSUME r \notin P, r \in Q PROVE Cardinality(Q) = Cardinality(P) + 1
  <2>1. Q = P \cup {r}
    BY <1>3
  <2>2. QED
    BY <1>1, <1>3, <2>1, FS_AddElement
<1>4. ASSUME r \in P <=> r \in Q PROVE Cardinality(Q) = Cardinality(P)
  <2>1. Q = P
    BY <1>4
  <2>2. QED
    BY <2>1
<1>5. QED
  BY <1>1, <1>2, <1>3, <1>4

(* The counts of requests are natural numbers. *)
LEMMA CountsTyped ==
    ASSUME IInv
    PROVE  /\ Cardinality(Underway) \in Nat /\ Cardinality(Unaccepted) \in Nat
           /\ Cardinality(Unaccepted) <= Cardinality(setting.requests)
           /\ Cardinality(setting.requests) \in Nat
           /\ Cardinality(setting.requests) <= Cardinality(Requests)
           /\ Cardinality(Requests) \in Nat
           /\ setting.requests \in SUBSET Requests /\ setting.faults \in Nat
           /\ accepted \in Nat /\ flows \in Nat /\ MaxFlows \in Nat
<1>1. setting.requests \in SUBSET Requests /\ setting.faults \in Nat
  BY IssueAssumption DEF IInv, TypeOK
<1>2. IsFiniteSet(Requests) /\ IsFiniteSet(setting.requests)
  BY <1>1, IssueAssumption, FS_Subset
<1>3. /\ Underway \in SUBSET Requests
      /\ Unaccepted \in SUBSET setting.requests
  BY DEF Underway, Unaccepted, IInv, RequestsSound
<1>4. /\ Cardinality(setting.requests) \in Nat /\ Cardinality(Requests) \in Nat
      /\ Cardinality(setting.requests) <= Cardinality(Requests)
      /\ Cardinality(Underway) \in Nat /\ Cardinality(Unaccepted) \in Nat
      /\ Cardinality(Unaccepted) <= Cardinality(setting.requests)
  BY <1>1, <1>2, <1>3, FS_Subset, FS_CardinalityType
<1>5. accepted \in Nat /\ flows \in Nat /\ MaxFlows \in Nat
  BY <1>4, IssueAssumption DEF IInv, TypeOK
<1>6. QED
  BY <1>1, <1>4, <1>5

(* A step of flow f alone. *)
LEMMA FlowMoves ==
    ASSUME IInv, NEW f \in Flow, f <= flows,
           UNCHANGED <<setting, request, flows>>,
           NEW j \in JobState, job' = [job EXCEPT ![f] = j],
           NEW h \in HandlerState, handler' = [handler EXCEPT ![f] = h],
           doc' \in Document, doc'.class = doc.class,
           tokens' \in SUBSET Root, tokens \subseteq tokens', wrapped' \in Root,
           faults' \in 0..setting.faults,
           accepted' \in 0..accepted, doc'.status = "IN_PROGRESS" => accepted' = 0,
           h.step # "idle" => j.state = "active" /\ h.step \in StepsOf(j.stage),
           j.state \in {"waiting", "active", "delayed"} => j.attempts < MaxAttempts,
           job[f].stage = "finalise" => j.stage = "finalise",
           doc'.status = "ISSUED" => Finalising \/ j.stage = "finalise",
           h.mem.status = "ISSUED" => Finalising \/ j.stage = "finalise",
           (/\ doc.class = "TRANSFERABLE"
            /\ \/ j.stage = "finalise"
               \/ j.stage = "mint" /\ h.step \in {"save_details", "return"})
              => tokens' # {}
    PROVE  IInv'
<1>1. /\ job' \in [Flow -> JobState] /\ job'[f] = j
      /\ handler' \in [Flow -> HandlerState] /\ handler'[f] = h
      /\ \A g \in Flow : g # f => job'[g] = job[g] /\ handler'[g] = handler[g]
  BY DEF IInv, TypeOK, JobState, HandlerState
<1>2. TypeOK'
  <2>1. accepted' \in 0..Cardinality(Requests)
    BY CountsTyped DEF IInv, TypeOK
  <2>2. QED
    BY <1>1, <2>1 DEF IInv, TypeOK, JobState, HandlerState
<1>3. \A g \in Flow : FlowSound(g)'
  <2> TAKE g \in Flow
  <2>1. CASE g = f
    <3>1. ~(f > flows)
      BY CountsTyped DEF Flow
    <3>2. QED
      BY <1>1, <2>1, <3>1 DEF FlowSound
  <2>2. CASE g # f
    BY <1>1, <2>2 DEF FlowSound, IInv
  <2>3. QED
    BY <2>1, <2>2
<1>4. RequestsSound'
  <2>1. Underway' = Underway /\ Unaccepted' = Unaccepted
    BY DEF Underway, Unaccepted, Issuing
  <2>2. accepted' + Cardinality(Unaccepted) <= Cardinality(setting.requests)
    BY CountsTyped DEF IInv, RequestsSound
  <2>3. QED
    BY <2>1, <2>2 DEF IInv, RequestsSound
<1>5. Finalising \/ j.stage = "finalise" => Finalising'
  BY <1>1 DEF Finalising
<1>6. MintedSound'
  <2>1. \A g \in Flow : FlowMinted(g)'
    <3> TAKE g \in Flow
    <3>1. CASE g = f
      BY <1>1, <3>1 DEF FlowMinted
    <3>2. CASE g # f
      BY <1>1, <3>2 DEF FlowMinted, IInv, MintedSound
    <3>3. QED
      BY <3>1, <3>2
  <2>2. \A g \in Flow : handler'[g].mem.status = "ISSUED" => Finalising'
    BY <1>1, <1>5 DEF IInv, MintedSound
  <2>3. doc'.status = "ISSUED" => Finalising'
    BY <1>5
  <2>4. \A r \in Requests : request'[r].status = "ISSUED" => Finalising'
    BY <1>5 DEF IInv, MintedSound
  <2>5. QED
    BY <2>1, <2>2, <2>3, <2>4 DEF MintedSound
<1>7. QED
  BY <1>2, <1>3, <1>4, <1>6 DEF IInv

(* A handler that runs has an added flow with an active job. *)
LEMMA BusyFlow ==
    ASSUME IInv, NEW f \in Flow, handler[f].step # "idle"
    PROVE  /\ f <= flows
           /\ job[f] \in JobState /\ job[f].state = "active"
           /\ job[f].attempts < MaxAttempts
           /\ handler[f] \in HandlerState /\ handler[f].mem \in Memory
           /\ handler[f].step \in StepsOf(job[f].stage)
<1>1. FlowSound(f) /\ job[f] \in JobState /\ handler[f] \in HandlerState
  BY DEF IInv, TypeOK, JobState, HandlerState
<1>2. ~(f > flows)
  BY <1>1 DEF FlowSound, Resting
<1>3. f <= flows
  BY <1>2, CountsTyped DEF Flow
<1>4. QED
  BY <1>1, <1>3 DEF FlowSound, HandlerState

LEMMA FlowTyped ==
    ASSUME IInv, NEW f \in Flow PROVE job[f] \in JobState /\ handler[f] \in HandlerState
BY DEF IInv, TypeOK, JobState, HandlerState

LEMMA RestingTyped == Resting \in HandlerState /\ Resting.mem.status = "PROCESSING"
<1>1. FirstVersion \in Versions
  BY IssueAssumption DEF FirstVersion
<1>2. 0 \in 0..MaxFlows /\ 0 \in Nat
  BY IssueAssumption
<1>3. QED
  BY <1>1, <1>2 DEF Resting, Blank, HandlerState, HandlerSteps, Memory, NoDetails, Details,
                    Root, Status

(* Steps of a handler that touch neither its job nor the chain. *)
LEMMA DoesStep ==
    ASSUME IInv, NEW f \in Flow, NEW stage \in Stages, NEW step, step # "idle",
           NEW next \in HandlerSteps, next \in StepsOf(stage),
           NEW mem \in Memory, NEW newDoc \in Document, newDoc.class = doc.class,
           Does(f, stage, step, next, mem, newDoc), wrapped' \in Root,
           newDoc.status = "ISSUED" =>
               doc.status = "ISSUED" \/ handler[f].mem.status = "ISSUED" \/ stage = "finalise",
           mem.status \in {handler[f].mem.status, doc.status},
           doc.class = "TRANSFERABLE" /\ stage = "mint" /\ next \in {"save_details", "return"}
               => tokens # {}
    PROVE  IInv'
<1> USE DEF Does
<1> DEFINE h == [step |-> next, mem |-> mem]
<1>1. job[f].stage = stage /\ handler[f].step = step /\ handler[f].step # "idle"
  OBVIOUS
<1>2. /\ f <= flows /\ job[f] \in JobState /\ job[f].state = "active"
      /\ job[f].attempts < MaxAttempts
  BY <1>1, BusyFlow
<1>3. h \in HandlerState /\ h.step = next /\ h.mem = mem
  BY DEF HandlerState
<1>4. job' = [job EXCEPT ![f] = job[f]] /\ handler' = [handler EXCEPT ![f] = h]
  BY DEF IInv, TypeOK
<1> HIDE DEF h
<1>5. accepted' \in 0..accepted /\ (doc'.status = "IN_PROGRESS" => accepted' = 0)
  BY CountsTyped DEF Counted
<1>6. /\ doc'.status = "ISSUED" => Finalising \/ job[f].stage = "finalise"
      /\ h.mem.status = "ISSUED" => Finalising \/ job[f].stage = "finalise"
  BY <1>1, <1>3 DEF IInv, MintedSound
<1>7. (/\ doc.class = "TRANSFERABLE"
       /\ \/ job[f].stage = "finalise"
          \/ job[f].stage = "mint" /\ h.step \in {"save_details", "return"})
        => tokens # {}
  BY <1>1, <1>3 DEF IInv, MintedSound, FlowMinted
<1>8. tokens' = tokens /\ tokens \in SUBSET Root /\ faults' \in 0..setting.faults
      /\ UNCHANGED <<setting, request, flows>>
      /\ doc' \in Document /\ doc'.class = doc.class
  BY DEF IInv, TypeOK
<1> HIDE DEF Does
<1>9. h.step # "idle" => job[f].state = "active" /\ h.step \in StepsOf(job[f].stage)
  BY <1>1, <1>2, <1>3
<1>10. QED
  BY <1>2, <1>3, <1>4, <1>5, <1>6, <1>7, <1>8, <1>9, FlowMoves

(* A handler that throws leaves the document and the chain alone. *)
LEMMA ThrowStep ==
    ASSUME IInv, NEW f \in Flow, handler[f].step # "idle", Throw(f), doc' = doc,
           faults' \in 0..setting.faults
    PROVE  IInv'
<1> USE DEF Throw
<1> DEFINE j == [job[f] EXCEPT !.attempts = job[f].attempts + 1,
                               !.state = IF job[f].attempts + 1 < MaxAttempts
                                         THEN "delayed" ELSE "failed"]
<1>1. /\ f <= flows /\ job[f] \in JobState /\ job[f].attempts < MaxAttempts
      /\ handler[f] \in HandlerState
  BY BusyFlow
<1>2. job[f].attempts + 1 \in 0..MaxAttempts
  BY <1>1, IssueAssumption DEF JobState
<1>3. /\ j \in JobState /\ j.stage = job[f].stage
      /\ j.state \in {"waiting", "active", "delayed"} => j.attempts < MaxAttempts
  BY <1>1, <1>2 DEF JobState
<1>4. job' = [job EXCEPT ![f] = j] /\ handler' = [handler EXCEPT ![f] = Resting]
  OBVIOUS
<1>5. UNCHANGED <<setting, tokens, wrapped, request, accepted, flows, doc>>
  OBVIOUS
<1> HIDE DEF j, Throw
<1>6. /\ accepted' \in 0..accepted /\ doc \in Document /\ tokens \in SUBSET Root
      /\ wrapped \in Root /\ (doc.status = "IN_PROGRESS" => accepted' = 0)
  BY <1>5, CountsTyped DEF IInv, TypeOK, RequestsSound
<1>7. Resting.step = "idle"
  BY DEF Resting
<1>8. doc.status = "ISSUED" => Finalising
  BY DEF IInv, MintedSound
<1>9. doc.class = "TRANSFERABLE" /\ j.stage = "finalise" => tokens # {}
  BY <1>3 DEF IInv, MintedSound, FlowMinted
<1>10. QED
  BY <1>1, <1>3, <1>4, <1>5, <1>6, <1>7, <1>8, <1>9, RestingTyped, FlowMoves

-----------------------------------------------------------------------------
(* The steps of a flow. *)
LEMMA TakeStep == ASSUME IInv, NEW f \in Flow, Take(f) PROVE IInv'
<1> DEFINE j == [job[f] EXCEPT !.state = "active"]
           h == [handler[f] EXCEPT !.step = FirstStep(job[f].stage)]
<1>1. job[f].state = "waiting" /\ job[f] \in JobState /\ handler[f] \in HandlerState
  BY FlowTyped DEF Take
<1>2. f <= flows /\ job[f].attempts < MaxAttempts
  <2>1. FlowSound(f)
    BY DEF IInv
  <2>2. ~(f > flows)
    BY <1>1, <2>1 DEF FlowSound, NewJob
  <2>3. QED
    BY <1>1, <2>1, <2>2, CountsTyped DEF FlowSound, Flow
<1>3. /\ j \in JobState /\ j.state = "active" /\ j.stage = job[f].stage
      /\ j.attempts = job[f].attempts
  BY <1>1 DEF JobState
<1>4. doc.class \in {"TRANSFERABLE", "VERIFIABLE"}
  BY IssueAssumption DEF IInv, TypeOK, Document
<1>5. /\ FirstStep(job[f].stage) \in HandlerSteps
      /\ FirstStep(job[f].stage) \in StepsOf(job[f].stage)
      /\ FirstStep(job[f].stage) # "save_details"
      /\ FirstStep(job[f].stage) = "return" =>
            job[f].stage = "mint" /\ doc.class # "TRANSFERABLE"
  <2>1. job[f].stage \in Stages
    BY <1>1 DEF JobState
  <2>2. QED
    BY <1>4, <2>1 DEF FirstStep, StepsOf, Stages, HandlerSteps
<1>6. h \in HandlerState /\ h.step = FirstStep(job[f].stage) /\ h.mem = handler[f].mem
  BY <1>1, <1>5 DEF HandlerState
<1>7. /\ job' = [job EXCEPT ![f] = j] /\ handler' = [handler EXCEPT ![f] = h]
      /\ UNCHANGED <<setting, doc, tokens, wrapped, request, accepted, flows, faults>>
  BY DEF Take
<1> HIDE DEF j, h
<1>8. /\ doc \in Document /\ tokens \in SUBSET Root /\ wrapped \in Root
      /\ faults \in 0..setting.faults /\ accepted \in 0..accepted
      /\ doc.status = "IN_PROGRESS" => accepted = 0
  BY CountsTyped DEF IInv, TypeOK, RequestsSound
<1>9. /\ doc.status = "ISSUED" => Finalising
      /\ h.mem.status = "ISSUED" => Finalising
      /\ doc.class = "TRANSFERABLE" /\ job[f].stage = "finalise" => tokens # {}
  BY <1>6 DEF IInv, MintedSound, FlowMinted
<1>10. QED
  BY <1>1, <1>2, <1>3, <1>5, <1>6, <1>7, <1>8, <1>9, FlowMoves

LEMMA ReturnStep == ASSUME IInv, NEW f \in Flow, Return(f) PROVE IInv'
<1> DEFINE j == IF job[f].stage = "finalise" THEN [job[f] EXCEPT !.state = "completed"]
                ELSE NewJob(NextStage(job[f].stage), "waiting")
<1>1. /\ handler[f].step = "return"
      /\ job' = [job EXCEPT ![f] = j] /\ handler' = [handler EXCEPT ![f] = Resting]
      /\ UNCHANGED <<setting, doc, tokens, wrapped, request, accepted, flows, faults>>
  BY DEF Return
<1>2. f <= flows /\ job[f] \in JobState
  BY <1>1, BusyFlow
<1>3. /\ j \in JobState
      /\ j.state \in {"waiting", "active", "delayed"} => j.attempts < MaxAttempts
      /\ job[f].stage = "finalise" => j.stage = "finalise"
      /\ j.stage = "finalise" => job[f].stage \in {"mint", "finalise"}
  <2>1. job[f].stage \in Stages
    BY <1>2 DEF JobState
  <2>2. CASE job[f].stage = "finalise"
    BY <1>2, <2>2 DEF JobState
  <2>3. CASE job[f].stage # "finalise"
    <3>1. /\ NextStage(job[f].stage) \in Stages
          /\ NextStage(job[f].stage) = "finalise" => job[f].stage = "mint"
      BY <2>1, <2>3 DEF NextStage, Stages
    <3>2. 0 \in 0..MaxAttempts /\ 0 \in 0..MaxStalledCount /\ 0 < MaxAttempts
      BY IssueAssumption
    <3>3. QED
      BY <2>3, <3>1, <3>2 DEF NewJob, JobState
  <2>4. QED
    BY <2>2, <2>3
<1> HIDE DEF j
<1>4. /\ doc \in Document /\ tokens \in SUBSET Root /\ wrapped \in Root
      /\ faults \in 0..setting.faults /\ accepted \in 0..accepted
      /\ doc.status = "IN_PROGRESS" => accepted = 0
  BY CountsTyped DEF IInv, TypeOK, RequestsSound
<1>5. /\ doc.status = "ISSUED" => Finalising
      /\ doc.class = "TRANSFERABLE" /\ job[f].stage \in {"mint", "finalise"} => tokens # {}
  BY <1>1 DEF IInv, MintedSound, FlowMinted
<1>6. Resting.step = "idle"
  BY DEF Resting
<1>7. QED
  BY <1>1, <1>2, <1>3, <1>4, <1>5, <1>6, RestingTyped, FlowMoves

(* The stages and steps of the flow are what the model names. *)
LEMMA StepNames ==
    \A stage \in Stages : StepsOf(stage) \subseteq HandlerSteps /\ "return" \in StepsOf(stage)
BY DEF Stages, StepsOf, HandlerSteps

LEMMA IssuedFileStep == ASSUME IInv, NEW f \in Flow, IssuedFile(f) PROVE IInv'
<1> DEFINE m == handler[f].mem
<1>1. handler[f] \in HandlerState /\ m \in Memory /\ doc \in Document
      /\ wrapped \in Root /\ wrapped' = wrapped
  BY FlowTyped DEF HandlerState, IInv, TypeOK, IssuedFile
<1>2. doc.status \in Status /\ m.status \in Status /\ f \in 0..MaxFlows
  BY <1>1, IssueAssumption DEF Document, Memory, Flow
<1>3. [m EXCEPT !.status = doc.status] \in Memory
  BY <1>1, <1>2 DEF Memory
<1>4. /\ [doc EXCEPT !.issuedFile = f] \in Document
      /\ [doc EXCEPT !.status = m.status] \in Document
      /\ [doc EXCEPT !.tracking = f] \in Document
  BY <1>1, <1>2 DEF Document
<1>5. "issued-file" \in Stages
      /\ {"read_original", "store_issued_file", "restore_status", "set_tracking", "return"}
            = StepsOf("issued-file")
  BY DEF Stages, StepsOf
<1>6. CASE Does(f, "issued-file", "read_original", "store_issued_file", m, doc)
  BY <1>1, <1>5, <1>6, StepNames, DoesStep
<1>7. CASE Does(f, "issued-file", "store_issued_file", "restore_status",
                [m EXCEPT !.status = doc.status], [doc EXCEPT !.issuedFile = f])
  <2>1. /\ [m EXCEPT !.status = doc.status].status = doc.status
        /\ [doc EXCEPT !.issuedFile = f].status = doc.status
        /\ [doc EXCEPT !.issuedFile = f].class = doc.class
    BY <1>1 DEF Memory, Document
  <2>2. QED
    BY <1>1, <1>3, <1>4, <1>5, <1>7, <2>1, StepNames, DoesStep
<1>8. CASE Does(f, "issued-file", "restore_status", "set_tracking",
                m, [doc EXCEPT !.status = m.status])
  <2>1. /\ [doc EXCEPT !.status = m.status].status = m.status
        /\ [doc EXCEPT !.status = m.status].class = doc.class
    BY <1>1 DEF Document
  <2>2. QED
    BY <1>1, <1>4, <1>5, <1>8, <2>1, StepNames, DoesStep
<1>9. CASE Does(f, "issued-file", "set_tracking", "return",
                m, [doc EXCEPT !.tracking = f])
  <2>1. /\ [doc EXCEPT !.tracking = f].status = doc.status
        /\ [doc EXCEPT !.tracking = f].class = doc.class
    BY <1>1 DEF Document
  <2>2. QED
    BY <1>1, <1>4, <1>5, <1>9, <2>1, StepNames, DoesStep
<1>10. QED
  BY <1>6, <1>7, <1>8, <1>9 DEF IssuedFile

LEMMA TtFileStep == ASSUME IInv, NEW f \in Flow, TtFile(f) PROVE IInv'
<1> DEFINE m == handler[f].mem
           tt == [root |-> m.details.root, content |-> m.content, attached |-> m.file]
           new == [root |-> wrapped + 1, minted |-> FALSE]
<1>1. handler[f] \in HandlerState /\ m \in Memory /\ doc \in Document
      /\ wrapped \in Root /\ wrapped + 1 \in Root
  BY FlowTyped DEF HandlerState, IInv, TypeOK, Root
<1>2. /\ doc.status \in Status /\ doc.content \in Versions /\ doc.issuedFile \in 0..MaxFlows
      /\ m.status \in Status /\ m.content \in Versions /\ m.file \in 0..MaxFlows
      /\ m.details.root \in Root
  BY <1>1 DEF Document, Memory, Details
<1>3. new \in Details
  BY <1>1 DEF Details
<1>4. /\ [m EXCEPT !.content = doc.content] \in Memory
      /\ [m EXCEPT !.file = doc.issuedFile] \in Memory
      /\ [m EXCEPT !.status = doc.status] \in Memory
      /\ [m EXCEPT !.details = new] \in Memory
      /\ [m EXCEPT !.content = doc.content].status = m.status
      /\ [m EXCEPT !.file = doc.issuedFile].status = m.status
      /\ [m EXCEPT !.status = doc.status].status = doc.status
      /\ [m EXCEPT !.details = new].status = m.status
  BY <1>1, <1>2, <1>3 DEF Memory
<1>5. tt \in [root : Root, content : Versions, attached : 0..MaxFlows]
  BY <1>2
<1> HIDE DEF tt, new
<1>6. /\ [doc EXCEPT !.ttFile = tt] \in Document
      /\ [doc EXCEPT !.status = m.status] \in Document
      /\ [doc EXCEPT !.details = new] \in Document
      /\ [doc EXCEPT !.ttFile = tt].status = doc.status
      /\ [doc EXCEPT !.status = m.status].status = m.status
      /\ [doc EXCEPT !.details = new].status = doc.status
      /\ [doc EXCEPT !.ttFile = tt].class = doc.class
      /\ [doc EXCEPT !.status = m.status].class = doc.class
      /\ [doc EXCEPT !.details = new].class = doc.class
  BY <1>1, <1>2, <1>3, <1>5 DEF Document
<1>7. "tt-file" \in Stages
      /\ {"read_content", "read_issued_file", "save_root", "store_tt_file",
          "restore_status", "return"} = StepsOf("tt-file")
  BY DEF Stages, StepsOf
<1>8. CASE wrapped' = wrapped /\ Does(f, "tt-file", "read_content", "read_issued_file",
                                      [m EXCEPT !.content = doc.content], doc)
  BY <1>1, <1>4, <1>7, <1>8, StepNames, DoesStep
<1>9. CASE wrapped' = wrapped /\ Does(f, "tt-file", "read_issued_file", "save_root",
                                      [m EXCEPT !.file = doc.issuedFile], doc)
  BY <1>1, <1>4, <1>7, <1>9, StepNames, DoesStep
<1>10. CASE wrapped' = wrapped /\ Does(f, "tt-file", "store_tt_file", "restore_status",
                                       [m EXCEPT !.status = doc.status],
                                       [doc EXCEPT !.ttFile = tt])
  BY <1>1, <1>4, <1>6, <1>7, <1>10, StepNames, DoesStep
<1>11. CASE wrapped' = wrapped /\ Does(f, "tt-file", "restore_status", "return",
                                       m, [doc EXCEPT !.status = m.status])
  BY <1>1, <1>6, <1>7, <1>11, StepNames, DoesStep
<1>12. CASE wrapped' = wrapped + 1 /\ Does(f, "tt-file", "save_root", "store_tt_file",
                                           [m EXCEPT !.details = new],
                                           [doc EXCEPT !.details = new])
  BY <1>1, <1>4, <1>6, <1>7, <1>12, StepNames, DoesStep
<1>13. QED
  BY <1>8, <1>9, <1>10, <1>11, <1>12 DEF TtFile, tt, new

LEMMA WrapFailsStep == ASSUME IInv, NEW f \in Flow, WrapFails(f) PROVE IInv'
<1> DEFINE h == [handler[f] EXCEPT !.step = "store_tt_file", !.mem.details = NoDetails]
<1>1. /\ f <= flows /\ job[f] \in JobState /\ job[f].state = "active"
      /\ job[f].attempts < MaxAttempts /\ job[f].stage = "tt-file"
      /\ handler[f] \in HandlerState /\ handler[f].mem \in Memory
  BY BusyFlow DEF WrapFails
<1>2. NoDetails \in Details
  BY DEF NoDetails, Details, Root
<1>3. h \in HandlerState /\ h.step = "store_tt_file" /\ h.mem.status = handler[f].mem.status
  <2>1. [handler[f].mem EXCEPT !.details = NoDetails] \in Memory
        /\ [handler[f].mem EXCEPT !.details = NoDetails].status = handler[f].mem.status
    BY <1>1, <1>2 DEF Memory
  <2>2. h = [handler[f] EXCEPT !.step = "store_tt_file",
                               !.mem = [handler[f].mem EXCEPT !.details = NoDetails]]
    BY <1>1 DEF HandlerState
  <2>3. QED
    BY <1>1, <2>1, <2>2 DEF HandlerState, HandlerSteps
<1>4. /\ job' = [job EXCEPT ![f] = job[f]] /\ handler' = [handler EXCEPT ![f] = h]
      /\ UNCHANGED <<setting, tokens, wrapped, request, accepted, flows>>
  BY DEF WrapFails, IInv, TypeOK
<1>5. /\ doc' \in Document /\ doc'.class = doc.class /\ doc'.status = doc.status
      /\ faults' \in 0..setting.faults
  BY <1>2, CountsTyped DEF WrapFails, IInv, TypeOK, Document
<1> HIDE DEF h
<1>6. h.step \in StepsOf(job[f].stage)
  BY <1>1, <1>3 DEF StepsOf
<1>7. /\ tokens \in SUBSET Root /\ wrapped \in Root /\ accepted \in 0..accepted
      /\ doc.status = "IN_PROGRESS" => accepted = 0
  BY CountsTyped DEF IInv, TypeOK, RequestsSound
<1>8. /\ doc.status = "ISSUED" => Finalising
      /\ h.mem.status = "ISSUED" => Finalising
  BY <1>3 DEF IInv, MintedSound
<1>9. QED
  BY <1>1, <1>3, <1>4, <1>5, <1>6, <1>7, <1>8, FlowMoves

LEMMA MintStep == ASSUME IInv, NEW f \in Flow, Mint(f) PROVE IInv'
<1> DEFINE m == handler[f].mem
           minted == [m.details EXCEPT !.minted = TRUE]
<1>1. handler[f] \in HandlerState /\ m \in Memory /\ doc \in Document
      /\ wrapped \in Root /\ wrapped' = wrapped
  BY FlowTyped DEF HandlerState, IInv, TypeOK, Mint
<1>2. doc.details \in Details /\ m.details \in Details
  BY <1>1 DEF Document, Memory
<1>3. minted \in Details
  BY <1>2 DEF Details
<1> HIDE DEF minted
<1>4. /\ [m EXCEPT !.details = doc.details] \in Memory
      /\ [m EXCEPT !.details = doc.details].status = m.status
  BY <1>1, <1>2 DEF Memory
<1>5. /\ [doc EXCEPT !.details = minted] \in Document
      /\ [doc EXCEPT !.details = minted].status = doc.status
      /\ [doc EXCEPT !.details = minted].class = doc.class
  BY <1>1, <1>3 DEF Document
<1>6. "mint" \in Stages
      /\ {"read_details", "mint", "save_details", "return"} = StepsOf("mint")
  BY DEF Stages, StepsOf
<1>7. CASE Does(f, "mint", "read_details", "mint", [m EXCEPT !.details = doc.details], doc)
  BY <1>1, <1>4, <1>6, <1>7, StepNames, DoesStep
<1>8. CASE Does(f, "mint", "save_details", "return", m, [doc EXCEPT !.details = minted])
  <2>1. doc.class = "TRANSFERABLE" => tokens # {}
    BY <1>8 DEF Does, IInv, MintedSound, FlowMinted
  <2>2. QED
    BY <1>1, <1>5, <1>6, <1>8, <2>1, StepNames, DoesStep
<1>9. QED
  BY <1>7, <1>8 DEF Mint, minted

LEMMA MintTokenStep == ASSUME IInv, NEW f \in Flow, MintToken(f) PROVE IInv'
<1> DEFINE root == handler[f].mem.details.root
           h == [handler[f] EXCEPT !.step = "save_details"]
<1>1. handler[f].step = "mint" /\ UNCHANGED <<setting, doc, faults>>
  BY DEF MintToken
<1>2. /\ f <= flows /\ job[f] \in JobState /\ job[f].state = "active"
      /\ job[f].attempts < MaxAttempts
      /\ handler[f] \in HandlerState /\ handler[f].mem \in Memory
      /\ "mint" \in StepsOf(job[f].stage)
  BY <1>1, BusyFlow
<1>3. job[f].stage = "mint"
  <2>1. job[f].stage \in Stages
    BY <1>2 DEF JobState
  <2>2. QED
    BY <1>2, <2>1 DEF StepsOf, Stages
<1>4. CASE Throw(f)
  BY <1>1, <1>4, ThrowStep DEF IInv, TypeOK
<1>5. CASE /\ tokens' = tokens \cup {root}
           /\ handler' = [handler EXCEPT ![f].step = "save_details"]
           /\ UNCHANGED <<setting, wrapped, request, accepted, flows, job>>
  <2>1. root \in Root
    BY <1>2 DEF Memory, Details
  <2>2. h \in HandlerState /\ h.step = "save_details" /\ h.mem = handler[f].mem
    BY <1>2 DEF HandlerState, HandlerSteps
  <2>3. job' = [job EXCEPT ![f] = job[f]] /\ handler' = [handler EXCEPT ![f] = h]
    BY <1>5 DEF IInv, TypeOK
  <2>4. /\ tokens' \in SUBSET Root /\ tokens \subseteq tokens' /\ tokens' # {}
    BY <1>5, <2>1 DEF IInv, TypeOK
  <2> HIDE DEF h
  <2>5. h.step \in StepsOf(job[f].stage)
    BY <1>3, <2>2 DEF StepsOf
  <2>6. /\ doc \in Document /\ wrapped \in Root /\ accepted \in 0..accepted
        /\ faults \in 0..setting.faults
        /\ doc.status = "IN_PROGRESS" => accepted = 0
    BY CountsTyped DEF IInv, TypeOK, RequestsSound
  <2>7. /\ doc.status = "ISSUED" => Finalising
        /\ h.mem.status = "ISSUED" => Finalising
    BY <2>2 DEF IInv, MintedSound
  <2>8. UNCHANGED <<setting, request, flows, doc, faults, accepted, wrapped>>
    BY <1>1, <1>5
  <2>9. job[f].stage # "finalise"
    BY <1>3
  <2> HIDE <1>5
  <2>10. QED
    BY <1>2, <2>2, <2>3, <2>4, <2>5, <2>6, <2>7, <2>8, <2>9, FlowMoves
<1>6. QED
  BY <1>4, <1>5 DEF MintToken

LEMMA FinaliseStep == ASSUME IInv, NEW f \in Flow, Finalise(f) PROVE IInv'
<1> DEFINE m == handler[f].mem
<1>1. handler[f] \in HandlerState /\ m \in Memory /\ doc \in Document
      /\ wrapped \in Root /\ wrapped' = wrapped
  BY FlowTyped DEF HandlerState, IInv, TypeOK, Finalise
<1>2. /\ [m EXCEPT !.details = doc.details] \in Memory
      /\ [m EXCEPT !.details = doc.details].status = m.status
      /\ [doc EXCEPT !.details = m.details] \in Document
      /\ [doc EXCEPT !.details = m.details].status = doc.status
      /\ [doc EXCEPT !.details = m.details].class = doc.class
      /\ [doc EXCEPT !.status = "ISSUED"] \in Document
      /\ [doc EXCEPT !.status = "ISSUED"].class = doc.class
  BY <1>1 DEF Memory, Document, Status
<1>3. "finalise" \in Stages
      /\ {"read_details", "save_details", "set_issued", "return"} = StepsOf("finalise")
  BY DEF Stages, StepsOf
<1>4. CASE Does(f, "finalise", "read_details", "save_details",
                [m EXCEPT !.details = doc.details], doc)
  BY <1>1, <1>2, <1>3, <1>4, StepNames, DoesStep
<1>5. CASE Does(f, "finalise", "save_details", "set_issued",
                m, [doc EXCEPT !.details = m.details])
  BY <1>1, <1>2, <1>3, <1>5, StepNames, DoesStep
<1>6. CASE Does(f, "finalise", "set_issued", "return", m, [doc EXCEPT !.status = "ISSUED"])
  BY <1>1, <1>2, <1>3, <1>6, StepNames, DoesStep
<1>7. QED
  BY <1>4, <1>5, <1>6 DEF Finalise

(* Operations that throw, and a process that dies. *)
LEMMA FailStep ==
    ASSUME IInv, NEW f \in Flow,
           IssuedFileGone(f) \/ DocumentGone(f) \/ OperationFails(f)
    PROVE  IInv'
<1>1. handler[f].step # "idle" /\ Throw(f) /\ doc' = doc
  BY DEF IssuedFileGone, DocumentGone, OperationFails
<1>2. faults' \in 0..setting.faults
  BY CountsTyped DEF IssuedFileGone, DocumentGone, OperationFails, IInv, TypeOK
<1>3. QED
  BY <1>1, <1>2, ThrowStep

LEMMA DeathStep == ASSUME IInv, NEW f \in Flow, ProcessDies(f) PROVE IInv'
<1>1. /\ f <= flows /\ job[f] \in JobState /\ job[f].state = "active"
      /\ job[f].attempts < MaxAttempts
  BY BusyFlow DEF ProcessDies
<1>2. /\ job' = [job EXCEPT ![f] = job[f]] /\ handler' = [handler EXCEPT ![f] = Resting]
      /\ UNCHANGED <<setting, doc, tokens, wrapped, request, accepted, flows>>
      /\ faults' \in 0..setting.faults
  BY CountsTyped DEF ProcessDies, IInv, TypeOK
<1>3. /\ doc \in Document /\ tokens \in SUBSET Root /\ wrapped \in Root
      /\ accepted \in 0..accepted /\ (doc.status = "IN_PROGRESS" => accepted = 0)
      /\ doc.status = "ISSUED" => Finalising
      /\ doc.class = "TRANSFERABLE" /\ job[f].stage = "finalise" => tokens # {}
  BY CountsTyped DEF IInv, TypeOK, RequestsSound, MintedSound, FlowMinted
<1>4. Resting.step = "idle"
  BY DEF Resting
<1>5. QED
  BY <1>1, <1>2, <1>3, <1>4, RestingTyped, FlowMoves

(* A backoff elapses, a stalled job is found. *)
LEMMA ComeBackStep == ASSUME IInv, NEW f \in Flow, Retry(f) \/ Recover(f) PROVE IInv'
<1> DEFINE j == job'[f]
<1>1. job[f].state \in {"delayed", "active"} /\ job[f] \in JobState
      /\ handler[f] \in HandlerState
  BY FlowTyped DEF Retry, Recover
<1>2. f <= flows /\ job[f].attempts < MaxAttempts /\ handler[f].step = "idle"
  <2>1. FlowSound(f)
    BY DEF IInv
  <2>2. ~(f > flows)
    BY <1>1, <2>1 DEF FlowSound, NewJob
  <2>3. handler[f].step = "idle"
    BY <1>1, <2>1 DEF FlowSound, Retry, Recover
  <2>4. QED
    BY <1>1, <2>1, <2>2, <2>3, CountsTyped DEF FlowSound, Flow
<1>3. PICK next \in JobState : /\ job' = [job EXCEPT ![f] = next]
                               /\ next.stage = job[f].stage
                               /\ next.attempts = job[f].attempts
  <2>1. CASE Retry(f)
    <3>1. [job[f] EXCEPT !.state = "waiting"] \in JobState
      BY <1>1 DEF JobState
    <3>2. QED
      BY <1>1, <2>1, <3>1 DEF Retry, JobState
  <2>2. CASE Recover(f)
    <3>1. CASE job[f].stalls < MaxStalledCount
      <4>1. job[f].stalls + 1 \in 0..MaxStalledCount
        BY <1>1, <3>1, IssueAssumption DEF JobState
      <4>2. [job[f] EXCEPT !.state = "waiting", !.stalls = job[f].stalls + 1] \in JobState
        BY <1>1, <4>1 DEF JobState
      <4>3. job' = [job EXCEPT ![f] = [job[f] EXCEPT !.state = "waiting",
                                                     !.stalls = job[f].stalls + 1]]
        BY <2>2, <3>1, <1>1 DEF Recover, JobState
      <4>4. QED
        BY <1>1, <4>2, <4>3 DEF JobState
    <3>2. CASE ~(job[f].stalls < MaxStalledCount)
      <4>1. [job[f] EXCEPT !.state = "failed"] \in JobState
        BY <1>1 DEF JobState
      <4>2. QED
        BY <1>1, <2>2, <3>2, <4>1 DEF Recover, JobState
    <3>3. QED
      BY <3>1, <3>2
  <2>3. QED
    BY <2>1, <2>2
<1>4. /\ handler' = [handler EXCEPT ![f] = handler[f]]
      /\ UNCHANGED <<setting, doc, tokens, wrapped, request, accepted, flows, faults>>
  BY DEF Retry, Recover, IInv, TypeOK
<1>5. /\ doc \in Document /\ tokens \in SUBSET Root /\ wrapped \in Root
      /\ faults \in 0..setting.faults
      /\ accepted \in 0..accepted /\ (doc.status = "IN_PROGRESS" => accepted = 0)
      /\ doc.status = "ISSUED" => Finalising
      /\ handler[f].mem.status = "ISSUED" => Finalising
      /\ doc.class = "TRANSFERABLE" /\ job[f].stage = "finalise" => tokens # {}
  BY CountsTyped DEF IInv, TypeOK, RequestsSound, MintedSound, FlowMinted
<1>6. QED
  BY <1>1, <1>2, <1>3, <1>4, <1>5, FlowMoves

-----------------------------------------------------------------------------
(* The API: what changing the state of one request does to the counts. *)
IssuingSteps == {"set_processing", "add_flow"}

LEMMA RequestMoves ==
    ASSUME IInv, NEW r \in Requests, setting' = setting, NEW s \in RequestState,
           request' = [request EXCEPT ![r] = s], s.step # "idle" => r \in setting.requests
    PROVE  /\ request' \in [Requests -> RequestState] /\ request'[r] = s
           /\ \A q \in Requests : q # r => request'[q] = request[q]
           /\ \A q \in Requests : request'[q].step # "idle" => q \in setting.requests
           /\ Cardinality(Underway') \in Nat /\ Cardinality(Unaccepted') \in Nat
           /\ Cardinality(Unaccepted') <= Cardinality(setting.requests)
           /\ s.step \notin IssuingSteps /\ Issuing(r) =>
                 Cardinality(Underway') = Cardinality(Underway) - 1
           /\ s.step \in IssuingSteps /\ ~Issuing(r) =>
                 Cardinality(Underway') = Cardinality(Underway) + 1
           /\ (s.step \in IssuingSteps <=> Issuing(r)) =>
                 Cardinality(Underway') = Cardinality(Underway)
           /\ s.step # "set_processing" /\ request[r].step = "set_processing" =>
                 Cardinality(Unaccepted') = Cardinality(Unaccepted) - 1
           /\ s.step # "set_processing" /\ request[r].step # "set_processing" =>
                 Cardinality(Unaccepted') = Cardinality(Unaccepted)
<1>1. /\ request' \in [Requests -> RequestState] /\ request'[r] = s
      /\ \A q \in Requests : q # r => request'[q] = request[q]
  BY DEF IInv, TypeOK, RequestState
<1>2. \A q \in Requests : request'[q].step # "idle" => q \in setting.requests
  BY <1>1 DEF IInv, RequestsSound
<1>3. /\ IsFiniteSet(Requests) /\ IsFiniteSet(setting.requests)
      /\ setting.requests \in SUBSET Requests
  BY CountsTyped, IssueAssumption, FS_Subset
<1>4. /\ Unaccepted' \in SUBSET setting.requests
      /\ Underway \in SUBSET Requests /\ Underway' \in SUBSET Requests
      /\ Unaccepted \in SUBSET Requests /\ Unaccepted' \in SUBSET Requests
  BY <1>2 DEF Unaccepted, Underway
<1>5. /\ \A q \in Requests : q # r => (q \in Underway <=> q \in Underway')
      /\ \A q \in Requests : q # r => (q \in Unaccepted <=> q \in Unaccepted')
      /\ r \in Underway <=> Issuing(r)
      /\ r \in Underway' <=> s.step \in IssuingSteps
      /\ r \in Unaccepted <=> request[r].step = "set_processing"
      /\ r \in Unaccepted' <=> s.step = "set_processing"
  BY <1>1 DEF Underway, Unaccepted, Issuing, IssuingSteps
<1>6. /\ Cardinality(Underway') \in Nat
      /\ r \in Underway /\ r \notin Underway' =>
            Cardinality(Underway') = Cardinality(Underway) - 1
      /\ r \notin Underway /\ r \in Underway' =>
            Cardinality(Underway') = Cardinality(Underway) + 1
      /\ (r \in Underway <=> r \in Underway') =>
            Cardinality(Underway') = Cardinality(Underway)
  BY <1>3, <1>4, <1>5, CountMoves
<1>7. /\ Cardinality(Unaccepted') \in Nat
      /\ r \in Unaccepted /\ r \notin Unaccepted' =>
            Cardinality(Unaccepted') = Cardinality(Unaccepted) - 1
      /\ (r \in Unaccepted <=> r \in Unaccepted') =>
            Cardinality(Unaccepted') = Cardinality(Unaccepted)
  BY <1>3, <1>4, <1>5, CountMoves
<1>8. Cardinality(Unaccepted') <= Cardinality(setting.requests)
  BY <1>3, <1>4, FS_Subset
<1>9. QED
  BY <1>1, <1>2, <1>5, <1>6, <1>7, <1>8

(* A step of request r alone that adds no flow. *)
LEMMA ApiMoves ==
    ASSUME IInv, NEW r \in Requests, NEW s \in RequestState,
           request' = [request EXCEPT ![r] = s],
           UNCHANGED <<setting, tokens, wrapped, flows, job, handler>>,
           s.step # "idle" => r \in setting.requests,
           s.step \in IssuingSteps => Issuing(r) \/ Admitted,
           s.step = "set_processing" => accepted' = 0,
           \/ accepted' \in 0..accepted
           \/ request[r].step = "set_processing" /\ accepted' = accepted + 1
              /\ s.step # "set_processing",
           doc' \in Document, doc'.class = doc.class,
           doc'.status = "IN_PROGRESS" => accepted' = 0,
           doc'.status = "ISSUED" => doc.status = "ISSUED" \/ request[r].status = "ISSUED",
           s.status = "ISSUED" => doc.status = "ISSUED" \/ request[r].status = "ISSUED",
           faults' \in 0..setting.faults
    PROVE  IInv'
<1>1. setting' = setting
  OBVIOUS
<1>2. /\ request' \in [Requests -> RequestState] /\ request'[r] = s
      /\ \A q \in Requests : q # r => request'[q] = request[q]
      /\ \A q \in Requests : request'[q].step # "idle" => q \in setting.requests
      /\ Cardinality(Underway') \in Nat /\ Cardinality(Unaccepted') \in Nat
      /\ Cardinality(Unaccepted') <= Cardinality(setting.requests)
      /\ s.step \notin IssuingSteps =>
            Cardinality(Underway') <= Cardinality(Underway)
      /\ s.step \in IssuingSteps =>
            Cardinality(Underway') = Cardinality(Underway) + (IF Issuing(r) THEN 0 ELSE 1)
      /\ s.step # "set_processing" =>
            Cardinality(Unaccepted') = Cardinality(Unaccepted)
                                       - (IF request[r].step = "set_processing" THEN 1 ELSE 0)
  <2>1. Cardinality(Underway) \in Nat /\ Cardinality(Unaccepted) \in Nat
    BY CountsTyped
  <2>2. /\ request' \in [Requests -> RequestState] /\ request'[r] = s
        /\ \A q \in Requests : q # r => request'[q] = request[q]
        /\ \A q \in Requests : request'[q].step # "idle" => q \in setting.requests
        /\ Cardinality(Underway') \in Nat /\ Cardinality(Unaccepted') \in Nat
        /\ Cardinality(Unaccepted') <= Cardinality(setting.requests)
        /\ s.step \notin IssuingSteps /\ Issuing(r) =>
              Cardinality(Underway') = Cardinality(Underway) - 1
        /\ s.step \in IssuingSteps /\ ~Issuing(r) =>
              Cardinality(Underway') = Cardinality(Underway) + 1
        /\ (s.step \in IssuingSteps <=> Issuing(r)) =>
              Cardinality(Underway') = Cardinality(Underway)
        /\ s.step # "set_processing" /\ request[r].step = "set_processing" =>
              Cardinality(Unaccepted') = Cardinality(Unaccepted) - 1
        /\ s.step # "set_processing" /\ request[r].step # "set_processing" =>
              Cardinality(Unaccepted') = Cardinality(Unaccepted)
    BY <1>1, RequestMoves
  <2>3. QED
    BY <2>1, <2>2
<1>3. /\ flows + Cardinality(Underway') <= MaxFlows
      /\ accepted' + Cardinality(Unaccepted') <= Cardinality(setting.requests)
      /\ accepted' \in 0..Cardinality(Requests)
  <2>1. /\ flows + Cardinality(Underway) <= MaxFlows
        /\ accepted + Cardinality(Unaccepted) <= Cardinality(setting.requests)
    BY DEF IInv, RequestsSound
  <2>2. Admitted => flows + Cardinality(Underway) < MaxFlows
    BY DEF Admitted, Underway
  <2>3. flows + Cardinality(Underway') <= MaxFlows
    BY <1>2, <2>1, <2>2, CountsTyped
  <2>4. accepted' + Cardinality(Unaccepted') <= Cardinality(setting.requests)
    <3>1. CASE s.step = "set_processing"
      BY <1>2, <3>1, CountsTyped
    <3>2. CASE s.step # "set_processing"
      BY <1>2, <2>1, <3>2, CountsTyped
    <3>3. QED
      BY <3>1, <3>2
  <2>5. accepted' \in 0..Cardinality(Requests)
    BY <1>2, <2>4, CountsTyped
  <2>6. QED
    BY <2>3, <2>4, <2>5
<1>4. TypeOK'
  BY <1>2, <1>3 DEF IInv, TypeOK, RequestState
<1>5. \A f \in Flow : FlowSound(f)'
  BY DEF IInv, FlowSound
<1>6. RequestsSound'
  BY <1>1, <1>2, <1>3 DEF RequestsSound
<1>7. MintedSound'
  <2>1. Finalising' = Finalising
    BY DEF Finalising
  <2>2. \A f \in Flow : FlowMinted(f)'
    BY DEF IInv, MintedSound, FlowMinted
  <2>3. QED
    BY <1>2, <2>1, <2>2 DEF IInv, MintedSound
<1>8. QED
  BY <1>4, <1>5, <1>6, <1>7 DEF IInv

LEMMA AddFlowStep == ASSUME IInv, NEW r \in Requests, AddFlow(r) PROVE IInv'
<1> DEFINE f == flows + 1
           new == NewJob("issued-file", "waiting")
<1>1. /\ Issuing(r) /\ request' = [request EXCEPT ![r] = Idle] /\ setting' = setting
      /\ request[r].step # "set_processing"
  BY DEF AddFlow, Issuing
<1>2. Idle \in RequestState /\ Idle.step = "idle" /\ Idle.status = "IN_PROGRESS"
  BY DEF Idle, RequestState, RequestSteps, Status
<1>3. /\ request' \in [Requests -> RequestState] /\ request'[r] = Idle
      /\ \A q \in Requests : q # r => request'[q] = request[q]
      /\ \A q \in Requests : request'[q].step # "idle" => q \in setting.requests
      /\ Cardinality(Underway') = Cardinality(Underway) - 1
      /\ Cardinality(Underway') \in Nat
      /\ Cardinality(Unaccepted') = Cardinality(Unaccepted)
  BY <1>1, <1>2, RequestMoves DEF IssuingSteps
<1>4. f \in Flow /\ flows' + Cardinality(Underway') <= MaxFlows
  BY <1>3, CountsTyped DEF Flow, AddFlow, IInv, RequestsSound
<1>5. new \in JobState /\ new.stage = "issued-file" /\ new.state = "waiting" /\ new.attempts = 0
  BY IssueAssumption DEF NewJob, JobState, Stages
<1>6. /\ job' \in [Flow -> JobState] /\ job'[f] = new
      /\ \A g \in Flow : g # f => job'[g] = job[g]
  BY <1>4, <1>5 DEF AddFlow, IInv, TypeOK, JobState
<1>7. job[f] = NewJob("issued-file", "none") /\ handler[f] = Resting
  <2>1. f > flows
    BY CountsTyped
  <2>2. QED
    BY <1>4, <2>1 DEF IInv, FlowSound
<1> HIDE DEF new
<1>8. TypeOK'
  <2>1. flows' \in 0..MaxFlows
    BY <1>4 DEF Flow, AddFlow
  <2>2. QED
    BY <1>3, <1>6, <2>1 DEF AddFlow, IInv, TypeOK, JobState, RequestState
<1>9. \A g \in Flow : FlowSound(g)'
  <2> TAKE g \in Flow
  <2>1. CASE g = f
    <3>1. ~(g > flows')
      BY <2>1, CountsTyped DEF AddFlow
    <3>2. handler'[g].step = "idle"
      BY <1>7, <2>1 DEF AddFlow, Resting
    <3>3. 0 < MaxAttempts
      BY IssueAssumption
    <3>4. QED
      BY <1>5, <1>6, <2>1, <3>1, <3>2, <3>3 DEF FlowSound
  <2>2. CASE g # f
    <3>1. g > flows' => g > flows
      BY CountsTyped DEF AddFlow, Flow
    <3>2. QED
      BY <1>6, <2>2, <3>1 DEF FlowSound, IInv, AddFlow
  <2>3. QED
    BY <2>1, <2>2
<1>10. RequestsSound'
  BY <1>3, <1>4 DEF AddFlow, IInv, RequestsSound
<1>11. MintedSound'
  <2>1. Finalising' = Finalising
    BY <1>4, <1>5, <1>6, <1>7 DEF Finalising, NewJob
  <2>2. \A g \in Flow : FlowMinted(g)'
    BY <1>5, <1>6 DEF IInv, MintedSound, FlowMinted, AddFlow
  <2>3. QED
    BY <1>2, <1>3, <2>1, <2>2 DEF IInv, MintedSound, AddFlow
<1>12. QED
  BY <1>8, <1>9, <1>10, <1>11 DEF IInv

LEMMA RequestTyped ==
    ASSUME IInv, NEW r \in Requests
    PROVE  /\ request[r] \in RequestState /\ request[r].status \in Status
           /\ request[r].step # "idle" => r \in setting.requests
           /\ Idle \in RequestState /\ Idle.step = "idle" /\ Idle.status = "IN_PROGRESS"
           /\ doc \in Document /\ doc.status \in Status /\ faults \in 0..setting.faults
           /\ accepted \in 0..accepted
           /\ doc.status = "IN_PROGRESS" => accepted = 0
<1>1. accepted \in 0..accepted
  BY CountsTyped
<1>2. QED
  BY <1>1 DEF IInv, TypeOK, RequestsSound, RequestState, Document, Idle, RequestSteps, Status

(* A request arrives and reads the document. *)
LEMMA BeginStep ==
    ASSUME IInv, NEW r \in Requests,
           BeginIssue(r) \/ BeginUpdate(r) \/ BeginDelete(r) \/ BeginUpload(r)
    PROVE  IInv'
<1>1. PICK kind \in {"issue", "update", "delete", "upload"},
           step \in {"set_processing", "write_content", "delete", "store_file"} :
        /\ Begin(r, kind, step)
        /\ step = "set_processing" => Admitted /\ doc.status = "IN_PROGRESS"
  BY DEF BeginIssue, BeginUpdate, BeginDelete, BeginUpload
<1> DEFINE s == [step |-> step, status |-> doc.status]
<1>2. s \in RequestState /\ s.step = step /\ s.status = doc.status
  BY RequestTyped DEF RequestState, RequestSteps
<1>3. /\ request' = [request EXCEPT ![r] = s] /\ r \in setting.requests
      /\ UNCHANGED <<setting, doc, tokens, wrapped, accepted, flows, job, handler, faults>>
  BY <1>1 DEF Begin
<1> HIDE DEF s
<1>4. s.step \in IssuingSteps => Admitted
  BY <1>1, <1>2 DEF IssuingSteps
<1>5. QED
  BY <1>1, <1>2, <1>3, <1>4, RequestTyped, ApiMoves

(* One operation of a request that counts no acceptance. *)
LEMMA OperateStep ==
    ASSUME IInv, NEW r \in Requests, NEW step, NEW change \in Document,
           NEW next \in RequestState, Operate(r, step, change, next),
           step # "idle", next.step \notin IssuingSteps,
           accepted' \in 0..accepted, doc'.status = "IN_PROGRESS" => accepted' = 0,
           change.class = doc.class,
           change.status = "ISSUED" => doc.status = "ISSUED" \/ request[r].status = "ISSUED",
           next.status = "ISSUED" => doc.status = "ISSUED" \/ request[r].status = "ISSUED"
    PROVE  IInv'
<1>1. /\ request[r].step = step /\ r \in setting.requests
      /\ UNCHANGED <<setting, tokens, wrapped, flows, job, handler, faults>>
  BY RequestTyped DEF Operate
<1>2. next.step # "set_processing" /\ Idle.step \notin IssuingSteps /\ Idle.step # "set_processing"
  BY DEF IssuingSteps, Idle
<1>3. CASE Present /\ doc' = change /\ request' = [request EXCEPT ![r] = next]
  BY <1>1, <1>2, <1>3, RequestTyped, ApiMoves
<1>4. CASE ~Present /\ doc' = doc /\ request' = [request EXCEPT ![r] = Idle]
  BY <1>1, <1>2, <1>4, RequestTyped, ApiMoves
<1>5. QED
  BY <1>3, <1>4 DEF Operate

LEMMA SetProcessingStep == ASSUME IInv, NEW r \in Requests, SetProcessing(r) PROVE IInv'
<1> DEFINE s == [step |-> "add_flow", status |-> "PROCESSING"]
<1>1. s \in RequestState /\ s.step = "add_flow" /\ s.status = "PROCESSING"
  BY DEF RequestState, RequestSteps, Status
<1> HIDE DEF s
<1>2. /\ request[r].step = "set_processing" /\ r \in setting.requests /\ Issuing(r)
      /\ UNCHANGED <<setting, tokens, wrapped, flows, job, handler, faults>>
  BY RequestTyped DEF SetProcessing, Operate, Issuing
<1>3. Idle.step \notin IssuingSteps /\ s.step \in IssuingSteps
  BY <1>1 DEF IssuingSteps, Idle
<1>4. CASE Present
  <2>1. /\ doc' = [doc EXCEPT !.status = "PROCESSING"]
        /\ request' = [request EXCEPT ![r] = s] /\ accepted' = accepted + 1
    BY <1>4 DEF SetProcessing, Operate, s
  <2>2. doc' \in Document /\ doc'.class = doc.class /\ doc'.status = "PROCESSING"
    BY <2>1, RequestTyped DEF Document, Status
  <2>3. QED
    BY <1>1, <1>2, <1>3, <2>1, <2>2, RequestTyped, ApiMoves
<1>5. CASE ~Present
  <2>1. doc' = doc /\ request' = [request EXCEPT ![r] = Idle] /\ accepted' = accepted
    BY <1>5 DEF SetProcessing, Operate
  <2>2. QED
    BY <1>2, <1>3, <2>1, RequestTyped, ApiMoves
<1>6. QED
  BY <1>4, <1>5

(* The operations of an update, a delete and an upload. *)
LEMMA CustomerStep ==
    ASSUME IInv, NEW r \in Requests,
           WriteContent(r) \/ Delete(r) \/ StoreFile(r) \/ RestoreStatus(r)
    PROVE  IInv'
<1>1. Idle.step \notin IssuingSteps
  BY DEF IssuingSteps, Idle
<1>2. /\ doc \in Document /\ doc.status \in Status /\ request[r].status \in Status
      /\ Idle \in RequestState /\ Idle.status # "ISSUED"
      /\ accepted \in 0..accepted /\ (doc.status = "IN_PROGRESS" => accepted = 0)
  BY RequestTyped
<1>3. CASE WriteContent(r)
  <2>1. PICK v \in Versions : Operate(r, "write_content", [doc EXCEPT !.content = v], Idle)
    BY <1>3 DEF WriteContent
  <2> DEFINE change == [doc EXCEPT !.content = v]
  <2>2. change \in Document /\ change.class = doc.class /\ change.status = doc.status
    BY <1>2 DEF Document
  <2>3. Operate(r, "write_content", change, Idle) /\ accepted' = accepted
    BY <1>3, <2>1 DEF WriteContent
  <2> HIDE DEF change
  <2>4. doc'.status = doc.status
    BY <2>2, <2>3 DEF Operate
  <2>5. QED
    BY <1>1, <1>2, <2>2, <2>3, <2>4, OperateStep
<1>4. CASE Delete(r)
  <2> DEFINE change == [doc EXCEPT !.status = "DELETED"]
  <2>1. change \in Document /\ change.class = doc.class /\ change.status = "DELETED"
    BY <1>2 DEF Document, Status
  <2>2. Operate(r, "delete", change, Idle) /\ accepted' = accepted
    BY <1>4 DEF Delete
  <2> HIDE DEF change
  <2>3. doc'.status = "IN_PROGRESS" => accepted' = 0
    BY <1>2, <2>1, <2>2 DEF Operate
  <2>4. QED
    BY <1>1, <1>2, <2>1, <2>2, <2>3, OperateStep
<1>5. CASE StoreFile(r)
  <2>1. PICK v \in Versions :
          Operate(r, "store_file", [doc EXCEPT !.original = v],
                  [step |-> "restore_status", status |-> doc.status])
    BY <1>5 DEF StoreFile
  <2> DEFINE change == [doc EXCEPT !.original = v]
             next == [step |-> "restore_status", status |-> doc.status]
  <2>2. /\ change \in Document /\ change.class = doc.class /\ change.status = doc.status
        /\ next \in RequestState /\ next.step = "restore_status" /\ next.status = doc.status
    BY <1>2 DEF Document, RequestState, RequestSteps
  <2>3. Operate(r, "store_file", change, next) /\ accepted' = accepted
    BY <1>5, <2>1 DEF StoreFile
  <2> HIDE DEF change, next
  <2>4. doc'.status = doc.status /\ next.step \notin IssuingSteps
    BY <2>2, <2>3 DEF Operate, IssuingSteps
  <2>5. QED
    BY <1>1, <1>2, <2>2, <2>3, <2>4, OperateStep
<1>6. CASE RestoreStatus(r)
  <2> DEFINE change == [doc EXCEPT !.status = request[r].status]
  <2>1. /\ change \in Document /\ change.class = doc.class
        /\ change.status = request[r].status
    BY <1>2 DEF Document
  <2>2. Operate(r, "restore_status", change, Idle) /\ accepted' = Counted(doc')
    BY <1>6 DEF RestoreStatus
  <2> HIDE DEF change
  <2>3. accepted' \in 0..accepted /\ (doc'.status = "IN_PROGRESS" => accepted' = 0)
    BY <1>2, <2>2, CountsTyped DEF Counted
  <2>4. QED
    BY <1>1, <1>2, <2>1, <2>2, <2>3, OperateStep
<1>7. QED
  BY <1>3, <1>4, <1>5, <1>6

LEMMA RequestFailsStep == ASSUME IInv, NEW r \in Requests, RequestFails(r) PROVE IInv'
<1>1. /\ request' = [request EXCEPT ![r] = Idle]
      /\ UNCHANGED <<setting, doc, tokens, wrapped, accepted, flows, job, handler>>
      /\ faults' \in 0..setting.faults
  BY CountsTyped DEF RequestFails, IInv, TypeOK
<1>2. Idle.step \notin IssuingSteps
  BY DEF IssuingSteps, Idle
<1>3. QED
  BY <1>1, <1>2, RequestTyped, ApiMoves

-----------------------------------------------------------------------------
(* The invariant holds. *)
LEMMA InitOK == Init => IInv
<1> SUFFICES ASSUME Init PROVE IInv
  OBVIOUS
<1> USE DEF Init
<1>1. /\ FirstVersion \in Versions /\ setting.faults \in Nat /\ 0 \in 0..MaxFlows
      /\ 0 \in 0..MaxAttempts /\ 0 \in 0..MaxStalledCount /\ 0 < MaxAttempts
      /\ 0 \in 0..setting.faults
  BY IssueAssumption DEF FirstVersion
<1>2. setting.requests \in SUBSET Requests
  BY IssueAssumption
<1>3. /\ Cardinality(setting.requests) \in Nat /\ Cardinality(Requests) \in Nat
      /\ 0 \in 0..Cardinality(Requests)
  BY <1>2, IssueAssumption, FS_Subset, FS_CardinalityType
<1>4. Underway = {} /\ Unaccepted = {}
  BY DEF Underway, Unaccepted, Issuing, Idle
<1>5. NoDetails \in Details
  BY DEF NoDetails, Details, Root
<1>6. doc \in Document /\ doc.status = "IN_PROGRESS"
  BY <1>1, <1>5 DEF Document, Status, Root
<1>7. NewJob("issued-file", "none") \in JobState
      /\ NewJob("issued-file", "none").stage = "issued-file"
      /\ NewJob("issued-file", "none").state = "none"
  BY <1>1 DEF NewJob, JobState, Stages
<1>8. Idle \in RequestState /\ Idle.step = "idle" /\ Idle.status = "IN_PROGRESS"
  BY DEF Idle, RequestState, RequestSteps, Status
<1>9. Resting.step = "idle"
  BY DEF Resting
<1>10. TypeOK
  BY <1>1, <1>3, <1>6, <1>7, <1>8, RestingTyped
     DEF TypeOK, Root, JobState, HandlerState, RequestState
<1>11. \A f \in Flow : FlowSound(f)
  BY <1>7, <1>9 DEF FlowSound
<1>12. RequestsSound
  <2>1. Cardinality({}) = 0
    BY FS_EmptySet
  <2>2. MaxFlows \in Nat
    BY IssueAssumption
  <2>3. QED
    BY <1>3, <1>4, <1>8, <2>1, <2>2 DEF RequestsSound
<1>13. MintedSound
  BY <1>6, <1>7, <1>8, RestingTyped DEF MintedSound, FlowMinted
<1>14. QED
  BY <1>10, <1>11, <1>12, <1>13 DEF IInv

LEMMA StepOK == IInv /\ [Next]_vars => IInv'
<1> SUFFICES ASSUME IInv, [Next]_vars PROVE IInv'
  OBVIOUS
<1>1. CASE UNCHANGED vars
  BY <1>1 DEF vars, IInv, TypeOK, FlowSound, RequestsSound, Underway, Unaccepted, Issuing,
              MintedSound, FlowMinted, Finalising
<1>2. ASSUME NEW r \in Requests,
             \/ BeginIssue(r) \/ BeginUpdate(r) \/ BeginDelete(r) \/ BeginUpload(r)
             \/ ApiStep(r) \/ RequestFails(r)
      PROVE  IInv'
  BY <1>2, BeginStep, SetProcessingStep, AddFlowStep, CustomerStep, RequestFailsStep
     DEF ApiStep
<1>3. ASSUME NEW f \in Flow,
             \/ HandlerStep(f)
             \/ WrapFails(f) \/ OperationFails(f) \/ ProcessDies(f)
             \/ Retry(f) \/ Recover(f)
      PROVE  IInv'
  BY <1>3, TakeStep, ReturnStep, IssuedFileStep, TtFileStep, MintStep, MintTokenStep,
     FinaliseStep, FailStep, WrapFailsStep, DeathStep, ComeBackStep DEF HandlerStep
<1>4. QED
  BY <1>1, <1>2, <1>3 DEF Next

(* The inductive invariant holds in every state of every behaviour. *)
THEOREM InvariantHolds == Spec => []IInv
  BY InitOK, StepOK, PTL DEF Spec

(* Type correctness; with it no job is attempted more often than allowed   *)
(* and no flow is added beyond those admitted, whatever fails.             *)
THEOREM TypeCorrect == Spec => []TypeOK
<1>1. IInv => TypeOK
  BY DEF IInv
<1>2. QED
  BY InvariantHolds, <1>1, PTL

(* The acceptances of issue requests since the document was In Progress    *)
(* never outnumber the requests served at the same time.                   *)
THEOREM FewAccepted == Spec => []AcceptedBounded
<1>1. IInv => AcceptedBounded
  BY DEF IInv, RequestsSound, Unaccepted, AcceptedBounded
<1>2. QED
  BY InvariantHolds, <1>1, PTL

(* However requests, flows and failures interleave, an issued transferable *)
(* document has a token on chain and a flow got to its last job.           *)
THEOREM IssuedHasToken == Spec => []IssuedMeansMinted
<1>1. IInv => IssuedMeansMinted
  BY DEF IInv, MintedSound, FlowMinted, Finalising, IssuedMeansMinted
<1>2. QED
  BY InvariantHolds, <1>1, PTL

-----------------------------------------------------------------------------
(* One request at a time: the flow.  An added flow is the only one, and    *)
(* the document is Processing until that flow is at its last job.          *)
LEMMA TheFlow ==
    ASSUME IInv, Alone, OneRequest, NEW f \in Flow, f <= flows
    PROVE  /\ f = 1 /\ flows = 1 /\ StageSound(f) /\ doc \in Document
           /\ doc.status \in {"PROCESSING", "ISSUED"}
           /\ job[f].stage # "finalise" => doc.status = "PROCESSING"
<1>1. RequestAlone /\ FlowAlone
  BY DEF Alone
<1>2. f = 1 /\ flows = 1
  BY <1>1, CountsTyped DEF FlowAlone, Flow
<1>3. StageSound(f)
  BY <1>1 DEF FlowAlone
<1>4. doc \in Document /\ doc.status \in Status
  BY DEF IInv, TypeOK, Document
<1>5. doc.status \in {"PROCESSING", "ISSUED"}
  BY <1>1, <1>2, <1>4 DEF FlowAlone, Status
<1>6. QED
  BY <1>2, <1>3, <1>4, <1>5 DEF StageSound, StageHolds

(* A step of that flow. *)
LEMMA FlowMovesAlone ==
    ASSUME IInv, Alone, OneRequest, NEW f \in Flow, f <= flows,
           UNCHANGED <<setting, request, flows>>,
           doc'.status \in {"PROCESSING", "ISSUED"}, StageSound(f)'
    PROVE  Alone'
<1>1. f = 1 /\ flows = 1 /\ doc.status \in {"PROCESSING", "ISSUED"}
  BY TheFlow
<1>2. RequestAlone /\ FlowAlone
  BY DEF Alone
<1>3. RequestAlone'
  BY <1>1, <1>2 DEF RequestAlone, Present
<1>4. FlowAlone'
  <2>1. \A g \in Flow : g <= flows => g = f
    BY <1>1 DEF Flow
  <2>2. QED
    BY <1>1, <2>1 DEF FlowAlone
<1>5. QED
  BY <1>3, <1>4 DEF Alone

(* The handler stops, or its job waits to be taken again. *)
LEMMA StopsAlone ==
    ASSUME IInv, Alone, OneRequest, NEW f \in Flow, f <= flows,
           UNCHANGED <<setting, request, flows, doc, tokens>>,
           job'[f].stage = job[f].stage, handler'[f].step = "idle"
    PROVE  Alone'
<1>1. StageSound(f) /\ doc.status \in {"PROCESSING", "ISSUED"}
  BY TheFlow
<1>2. StageSound(f)'
  BY <1>1 DEF StageSound, StageHolds, Wrapped, TokenSaved
<1>3. QED
  BY <1>1, <1>2, FlowMovesAlone

(* A processor step. *)
LEMMA DoesAlone ==
    ASSUME IInv, Alone, OneRequest, NEW f \in Flow, NEW stage, NEW step, step # "idle",
           NEW next, NEW mem, NEW newDoc, Does(f, stage, step, next, mem, newDoc),
           newDoc.status \in {"PROCESSING", "ISSUED"},
           StageHolds(f, stage, step, handler[f].mem, doc, tokens) =>
               StageHolds(f, stage, next, mem, newDoc, tokens)
    PROVE  Alone'
<1>1. /\ f <= flows /\ job[f].stage = stage /\ handler[f].step = step
  BY BusyFlow DEF Does
<1>2. /\ job'[f].stage = stage /\ handler'[f].step = next /\ handler'[f].mem = mem
      /\ doc' = newDoc /\ tokens' = tokens /\ UNCHANGED <<setting, request, flows>>
  BY <1>1 DEF Does, IInv, TypeOK
<1>3. StageHolds(f, stage, step, handler[f].mem, doc, tokens)
  BY <1>1, TheFlow DEF StageSound
<1>4. StageSound(f)'
  BY <1>2, <1>3 DEF StageSound
<1>5. doc'.status \in {"PROCESSING", "ISSUED"}
  BY <1>2
<1>6. QED
  BY <1>1, <1>2, <1>4, <1>5, FlowMovesAlone

(* A busy handler of the only flow, at one of its steps. *)
LEMMA BusyAlone ==
    ASSUME IInv, Alone, OneRequest, NEW f \in Flow, handler[f].step # "idle"
    PROVE  /\ f <= flows /\ doc.status \in {"PROCESSING", "ISSUED"}
           /\ StageHolds(f, job[f].stage, handler[f].step, handler[f].mem, doc, tokens)
           /\ job[f] \in JobState /\ handler[f] \in HandlerState
           /\ handler[f].mem \in Memory /\ doc \in Document
<1>1. f <= flows /\ handler[f].mem \in Memory
  BY BusyFlow
<1>2. QED
  BY <1>1, TheFlow, FlowTyped DEF StageSound

LEMMA IssuedFileAlone ==
    ASSUME IInv, Alone, OneRequest, NEW f \in Flow, IssuedFile(f) PROVE Alone'
<1> DEFINE m == handler[f].mem
<1>1. handler[f].step # "idle" /\ job[f].stage = "issued-file"
  BY DEF IssuedFile, Does
<1>2. /\ doc.status = "PROCESSING" /\ m \in Memory /\ doc \in Document
      /\ StageHolds(f, "issued-file", handler[f].step, m, doc, tokens)
  BY <1>1, BusyAlone DEF StageHolds
<1>3. CASE Does(f, "issued-file", "read_original", "store_issued_file", m, doc)
  <2>1. StageHolds(f, "issued-file", "store_issued_file", m, doc, tokens)
    BY <1>2 DEF StageHolds
  <2>2. QED
    BY <1>2, <1>3, <2>1, DoesAlone
<1>4. CASE Does(f, "issued-file", "store_issued_file", "restore_status",
                [m EXCEPT !.status = doc.status], [doc EXCEPT !.issuedFile = f])
  <2>1. /\ [doc EXCEPT !.issuedFile = f].status = "PROCESSING"
        /\ StageHolds(f, "issued-file", "restore_status",
                      [m EXCEPT !.status = doc.status], [doc EXCEPT !.issuedFile = f], tokens)
    BY <1>2 DEF StageHolds, Document, Memory
  <2>2. QED
    BY <1>4, <2>1, DoesAlone
<1>5. CASE Does(f, "issued-file", "restore_status", "set_tracking",
                m, [doc EXCEPT !.status = m.status])
  <2>1. handler[f].step = "restore_status"
    BY <1>5 DEF Does
  <2>2. /\ [doc EXCEPT !.status = m.status].status = "PROCESSING"
        /\ StageHolds(f, "issued-file", "set_tracking", m,
                      [doc EXCEPT !.status = m.status], tokens)
    BY <1>2, <2>1 DEF StageHolds, Document
  <2>3. QED
    BY <1>5, <2>2, DoesAlone
<1>6. CASE Does(f, "issued-file", "set_tracking", "return", m, [doc EXCEPT !.tracking = f])
  <2>1. handler[f].step = "set_tracking"
    BY <1>6 DEF Does
  <2>2. /\ [doc EXCEPT !.tracking = f].status = "PROCESSING"
        /\ StageHolds(f, "issued-file", "return", m, [doc EXCEPT !.tracking = f], tokens)
    BY <1>2, <2>1 DEF StageHolds, Document
  <2>3. QED
    BY <1>6, <2>2, DoesAlone
<1>7. QED
  BY <1>3, <1>4, <1>5, <1>6 DEF IssuedFile

LEMMA TtFileAlone ==
    ASSUME IInv, Alone, OneRequest, NEW f \in Flow, TtFile(f) PROVE Alone'
<1> DEFINE m == handler[f].mem
           tt == [root |-> m.details.root, content |-> m.content, attached |-> m.file]
           new == [root |-> wrapped + 1, minted |-> FALSE]
<1>1. handler[f].step # "idle" /\ job[f].stage = "tt-file"
  BY DEF TtFile, Does
<1>2. /\ doc.status = "PROCESSING" /\ m \in Memory /\ doc \in Document
      /\ StageHolds(f, "tt-file", handler[f].step, m, doc, tokens)
  BY <1>1, BusyAlone DEF StageHolds
<1>3. CASE Does(f, "tt-file", "read_content", "read_issued_file",
                [m EXCEPT !.content = doc.content], doc)
  <2>1. StageHolds(f, "tt-file", "read_issued_file", [m EXCEPT !.content = doc.content],
                   doc, tokens)
    BY <1>2 DEF StageHolds, Memory
  <2>2. QED
    BY <1>2, <1>3, <2>1, DoesAlone
<1>4. CASE Does(f, "tt-file", "read_issued_file", "save_root",
                [m EXCEPT !.file = doc.issuedFile], doc)
  <2>1. handler[f].step = "read_issued_file"
    BY <1>4 DEF Does
  <2>2. StageHolds(f, "tt-file", "save_root", [m EXCEPT !.file = doc.issuedFile], doc, tokens)
    BY <1>2, <2>1 DEF StageHolds, Memory
  <2>3. QED
    BY <1>2, <1>4, <2>2, DoesAlone
<1>5. CASE Does(f, "tt-file", "save_root", "store_tt_file",
                [m EXCEPT !.details = new], [doc EXCEPT !.details = new])
  <2>1. handler[f].step = "save_root"
    BY <1>5 DEF Does
  <2> HIDE DEF new
  <2>2. /\ [doc EXCEPT !.details = new].status = "PROCESSING"
        /\ StageHolds(f, "tt-file", "store_tt_file", [m EXCEPT !.details = new],
                      [doc EXCEPT !.details = new], tokens)
    BY <1>2, <2>1 DEF StageHolds, Document, Memory
  <2>3. QED
    BY <1>5, <2>2, DoesAlone
<1>6. CASE Does(f, "tt-file", "store_tt_file", "restore_status",
                [m EXCEPT !.status = doc.status], [doc EXCEPT !.ttFile = tt])
  <2>1. handler[f].step = "store_tt_file"
    BY <1>6 DEF Does
  <2>2. tt.root = m.details.root /\ tt.content = m.content /\ tt.attached = m.file
    OBVIOUS
  <2> HIDE DEF tt
  <2>3. Wrapped([doc EXCEPT !.ttFile = tt])
    BY <1>2, <2>1, <2>2 DEF StageHolds, Document, Wrapped
  <2>4. /\ [doc EXCEPT !.ttFile = tt].status = "PROCESSING"
        /\ StageHolds(f, "tt-file", "restore_status", [m EXCEPT !.status = doc.status],
                      [doc EXCEPT !.ttFile = tt], tokens)
    BY <1>2, <2>1, <2>3 DEF StageHolds, Document, Memory
  <2>5. QED
    BY <1>6, <2>4, DoesAlone
<1>7. CASE Does(f, "tt-file", "restore_status", "return", m, [doc EXCEPT !.status = m.status])
  <2>1. handler[f].step = "restore_status"
    BY <1>7 DEF Does
  <2>2. /\ [doc EXCEPT !.status = m.status].status = "PROCESSING"
        /\ StageHolds(f, "tt-file", "return", m, [doc EXCEPT !.status = m.status], tokens)
    BY <1>2, <2>1 DEF StageHolds, Document, Wrapped
  <2>3. QED
    BY <1>7, <2>2, DoesAlone
<1>8. QED
  BY <1>3, <1>4, <1>5, <1>6, <1>7 DEF TtFile

LEMMA WrapFailsAlone ==
    ASSUME IInv, Alone, OneRequest, NEW f \in Flow, WrapFails(f) PROVE Alone'
<1>1. handler[f].step = "save_root" /\ job[f].stage = "tt-file"
  BY DEF WrapFails
<1>2. /\ f <= flows /\ doc.status = "PROCESSING" /\ handler[f] \in HandlerState
      /\ handler[f].mem \in Memory /\ doc \in Document
      /\ StageHolds(f, "tt-file", "save_root", handler[f].mem, doc, tokens)
  BY <1>1, BusyAlone DEF StageHolds
<1>3. /\ handler'[f].step = "store_tt_file"
      /\ handler'[f].mem = [handler[f].mem EXCEPT !.details = NoDetails]
      /\ doc' = [doc EXCEPT !.details = NoDetails] /\ tokens' = tokens /\ job' = job
      /\ UNCHANGED <<setting, request, flows>>
  BY <1>2 DEF WrapFails, IInv, TypeOK, HandlerState
<1>4. StageHolds(f, "tt-file", "store_tt_file",
                 [handler[f].mem EXCEPT !.details = NoDetails],
                 [doc EXCEPT !.details = NoDetails], tokens)
  BY <1>2 DEF StageHolds, Document, Memory
<1>5. StageSound(f)' /\ doc'.status = "PROCESSING"
  <2>1. doc'.status = "PROCESSING"
    BY <1>2, <1>3 DEF Document
  <2>2. QED
    BY <1>1, <1>3, <1>4, <2>1 DEF StageSound
<1>6. QED
  BY <1>2, <1>3, <1>5, FlowMovesAlone

LEMMA MintAlone == ASSUME IInv, Alone, OneRequest, NEW f \in Flow, Mint(f) PROVE Alone'
<1> DEFINE m == handler[f].mem
           minted == [m.details EXCEPT !.minted = TRUE]
<1>1. handler[f].step # "idle" /\ job[f].stage = "mint"
  BY DEF Mint, Does
<1>2. /\ doc.status = "PROCESSING" /\ m \in Memory /\ doc \in Document
      /\ StageHolds(f, "mint", handler[f].step, m, doc, tokens)
  BY <1>1, BusyAlone DEF StageHolds
<1>3. CASE Does(f, "mint", "read_details", "mint", [m EXCEPT !.details = doc.details], doc)
  <2>1. StageHolds(f, "mint", "mint", [m EXCEPT !.details = doc.details], doc, tokens)
    BY <1>2 DEF StageHolds, Memory
  <2>2. QED
    BY <1>2, <1>3, <2>1, DoesAlone
<1>4. CASE Does(f, "mint", "save_details", "return", m, [doc EXCEPT !.details = minted])
  <2>1. handler[f].step = "save_details"
    BY <1>4 DEF Does
  <2>2. m.details = doc.details /\ doc.details \in Details /\ doc.details.root \in tokens
    BY <1>2, <2>1 DEF StageHolds, Document
  <2>3. minted.root = doc.details.root /\ minted.minted
    BY <2>2 DEF Details
  <2> HIDE DEF minted
  <2>4. Wrapped([doc EXCEPT !.details = minted]) /\ TokenSaved([doc EXCEPT !.details = minted],
                                                               tokens)
    BY <1>2, <2>2, <2>3 DEF StageHolds, Document, Wrapped, TokenSaved
  <2>5. /\ [doc EXCEPT !.details = minted].status = "PROCESSING"
        /\ StageHolds(f, "mint", "return", m, [doc EXCEPT !.details = minted], tokens)
    BY <1>2, <2>2, <2>3, <2>4 DEF StageHolds, Document
  <2>6. QED
    BY <1>4, <2>5, DoesAlone
<1>5. QED
  BY <1>3, <1>4 DEF Mint

(* A transaction that the registry refuses makes the handler throw. *)
LEMMA ThrowAlone ==
    ASSUME IInv, Alone, OneRequest, NEW f \in Flow, handler[f].step # "idle",
           Throw(f), doc' = doc
    PROVE  Alone'
<1>1. f <= flows /\ job[f] \in JobState /\ Resting.step = "idle"
  BY BusyFlow DEF Resting
<1>2. /\ job'[f].stage = job[f].stage /\ handler'[f].step = "idle"
      /\ UNCHANGED <<setting, request, flows, doc, tokens>>
  BY <1>1 DEF Throw, IInv, TypeOK, JobState
<1>3. QED
  BY <1>1, <1>2, StopsAlone

LEMMA MintTokenAlone ==
    ASSUME IInv, Alone, OneRequest, NEW f \in Flow, MintToken(f) PROVE Alone'
<1> DEFINE root == handler[f].mem.details.root
<1>1. handler[f].step = "mint" /\ UNCHANGED <<setting, doc, faults>>
  BY DEF MintToken
<1>2. CASE Throw(f)
  BY <1>1, <1>2, ThrowAlone
<1>3. CASE /\ tokens' = tokens \cup {root}
           /\ handler' = [handler EXCEPT ![f].step = "save_details"]
           /\ UNCHANGED <<setting, wrapped, request, accepted, flows, job>>
  <2>1. job[f].stage = "mint"
    <3>1. job[f] \in JobState /\ "mint" \in StepsOf(job[f].stage)
      BY <1>1, BusyFlow
    <3>2. QED
      BY <3>1 DEF StepsOf, JobState, Stages
  <2>2. /\ f <= flows /\ doc.status = "PROCESSING" /\ handler[f] \in HandlerState
        /\ handler[f].mem \in Memory /\ doc \in Document
        /\ StageHolds(f, "mint", "mint", handler[f].mem, doc, tokens)
    BY <1>1, <2>1, BusyAlone DEF StageHolds
  <2>3. handler'[f].step = "save_details" /\ handler'[f].mem = handler[f].mem
    BY <1>3, <2>2 DEF IInv, TypeOK, HandlerState
  <2>4. root = doc.details.root
    BY <2>2 DEF StageHolds
  <2>5. StageHolds(f, "mint", "save_details", handler[f].mem, doc, tokens')
    BY <1>3, <2>2, <2>4 DEF StageHolds
  <2>6. StageSound(f)'
    BY <1>1, <1>3, <2>1, <2>3, <2>5 DEF StageSound
  <2>7. QED
    BY <1>1, <1>3, <2>2, <2>6, FlowMovesAlone
<1>4. QED
  BY <1>2, <1>3 DEF MintToken

LEMMA FinaliseAlone ==
    ASSUME IInv, Alone, OneRequest, NEW f \in Flow, Finalise(f) PROVE Alone'
<1> DEFINE m == handler[f].mem
<1>1. handler[f].step # "idle" /\ job[f].stage = "finalise"
  BY DEF Finalise, Does
<1>2. /\ doc.status \in {"PROCESSING", "ISSUED"} /\ m \in Memory /\ doc \in Document
      /\ StageHolds(f, "finalise", handler[f].step, m, doc, tokens)
  BY <1>1, BusyAlone
<1>3. CASE Does(f, "finalise", "read_details", "save_details",
                [m EXCEPT !.details = doc.details], doc)
  <2>1. StageHolds(f, "finalise", "save_details", [m EXCEPT !.details = doc.details],
                   doc, tokens)
    BY <1>2 DEF StageHolds, Memory
  <2>2. QED
    BY <1>2, <1>3, <2>1, DoesAlone
<1>4. CASE Does(f, "finalise", "save_details", "set_issued",
                m, [doc EXCEPT !.details = m.details])
  <2>1. handler[f].step = "save_details"
    BY <1>4 DEF Does
  <2>2. m.details = doc.details
    BY <1>2, <2>1 DEF StageHolds
  <2>3. [doc EXCEPT !.details = m.details] = doc
    BY <1>2, <2>2 DEF Document
  <2>4. StageHolds(f, "finalise", "set_issued", m, doc, tokens)
    BY <1>2 DEF StageHolds
  <2>5. QED
    BY <1>2, <1>4, <2>3, <2>4, DoesAlone
<1>5. CASE Does(f, "finalise", "set_issued", "return", m, [doc EXCEPT !.status = "ISSUED"])
  <2>1. /\ [doc EXCEPT !.status = "ISSUED"].status = "ISSUED"
        /\ StageHolds(f, "finalise", "return", m, [doc EXCEPT !.status = "ISSUED"], tokens)
    BY <1>2 DEF StageHolds, Document, Wrapped, TokenSaved
  <2>2. QED
    BY <1>5, <2>1, DoesAlone
<1>6. QED
  BY <1>3, <1>4, <1>5 DEF Finalise

LEMMA TakeAlone == ASSUME IInv, Alone, OneRequest, NEW f \in Flow, Take(f) PROVE Alone'
<1>1. /\ FlowSound(f) /\ job[f] \in JobState /\ handler[f] \in HandlerState
      /\ job[f].state = "waiting"
  BY FlowTyped DEF IInv, Take
<1>2. handler[f].step = "idle" /\ f <= flows
  <2>1. ~(f > flows)
    BY <1>1 DEF FlowSound, NewJob
  <2>2. QED
    BY <1>1, <2>1, CountsTyped DEF FlowSound, Flow
<1>3. /\ job'[f].stage = job[f].stage /\ handler'[f].step = FirstStep(job[f].stage)
      /\ handler'[f].mem = handler[f].mem
      /\ UNCHANGED <<setting, doc, tokens, request, flows>>
  BY <1>1 DEF Take, IInv, TypeOK, JobState, HandlerState
<1>4. StageSound(f) /\ doc.status \in {"PROCESSING", "ISSUED"}
  BY <1>2, TheFlow
<1>5. StageSound(f)'
  <2> DEFINE stage == job[f].stage
  <2>1. stage \in Stages
    BY <1>1 DEF JobState
  <2>2. StageHolds(f, stage, "idle", handler[f].mem, doc, tokens)
    BY <1>2, <1>4 DEF StageSound
  <2>3. /\ stage = "issued-file" => FirstStep(stage) = "read_original"
        /\ stage = "tt-file" => FirstStep(stage) = "read_content"
        /\ stage = "mint" => \/ FirstStep(stage) = "read_details"
                             \/ FirstStep(stage) = "return" /\ doc.class # "TRANSFERABLE"
        /\ stage = "finalise" => FirstStep(stage) = "read_details"
    BY DEF FirstStep
  <2>4. StageHolds(f, stage, FirstStep(stage), handler[f].mem, doc, tokens)
    BY <2>1, <2>2, <2>3 DEF StageHolds, Stages, TokenSaved
  <2>5. QED
    BY <1>3, <2>4 DEF StageSound
<1>6. QED
  BY <1>2, <1>3, <1>4, <1>5, FlowMovesAlone

LEMMA ReturnAlone == ASSUME IInv, Alone, OneRequest, NEW f \in Flow, Return(f) PROVE Alone'
<1> DEFINE stage == job[f].stage
<1>1. handler[f].step = "return"
  BY DEF Return
<1>2. /\ f <= flows /\ doc.status \in {"PROCESSING", "ISSUED"} /\ job[f] \in JobState
      /\ StageHolds(f, stage, "return", handler[f].mem, doc, tokens)
  BY <1>1, BusyAlone
<1>3. /\ handler'[f] = Resting /\ Resting.step = "idle"
      /\ UNCHANGED <<setting, doc, tokens, request, flows>>
  BY DEF Return, IInv, TypeOK, Resting
<1>4. CASE stage = "finalise"
  <2>1. job'[f].stage = stage
    BY <1>2, <1>4 DEF Return, IInv, TypeOK, JobState
  <2>2. QED
    BY <1>2, <1>3, <2>1, StopsAlone
<1>5. CASE stage # "finalise"
  <2>1. job'[f].stage = NextStage(stage)
    BY <1>2, <1>5 DEF Return, IInv, TypeOK, NewJob
  <2>2. stage \in {"issued-file", "tt-file", "mint"}
    BY <1>2, <1>5 DEF JobState, Stages
  <2>3. /\ stage = "issued-file" => NextStage(stage) = "tt-file"
        /\ stage = "tt-file" => NextStage(stage) = "mint"
        /\ stage = "mint" => NextStage(stage) = "finalise"
    BY DEF NextStage
  <2>4. StageHolds(f, NextStage(stage), "idle", Resting.mem, doc, tokens)
    BY <1>2, <2>2, <2>3 DEF StageHolds
  <2>5. StageSound(f)'
    BY <1>3, <2>1, <2>4 DEF StageSound
  <2>6. QED
    BY <1>2, <1>3, <2>5, FlowMovesAlone
<1>6. QED
  BY <1>4, <1>5

LEMMA FailAlone ==
    ASSUME IInv, Alone, OneRequest, NEW f \in Flow,
           \/ IssuedFileGone(f) \/ DocumentGone(f) \/ OperationFails(f) \/ ProcessDies(f)
           \/ Retry(f) \/ Recover(f)
    PROVE  Alone'
<1>1. CASE IssuedFileGone(f) \/ DocumentGone(f) \/ OperationFails(f)
  BY <1>1, ThrowAlone DEF IssuedFileGone, DocumentGone, OperationFails
<1>2. CASE ProcessDies(f)
  <2>1. f <= flows
    BY <1>2, BusyFlow DEF ProcessDies
  <2>2. /\ job' = job /\ handler'[f].step = "idle"
        /\ UNCHANGED <<setting, doc, tokens, request, flows>>
    BY <1>2 DEF ProcessDies, IInv, TypeOK, Resting
  <2>3. QED
    BY <2>1, <2>2, StopsAlone
<1>3. CASE Retry(f) \/ Recover(f)
  <2>1. /\ job[f].state \in {"delayed", "active"} /\ job[f] \in JobState
        /\ FlowSound(f)
    BY <1>3, FlowTyped DEF Retry, Recover, IInv
  <2>2. ~(f > flows)
    BY <2>1 DEF FlowSound, NewJob
  <2>3. f <= flows
    BY <2>2, CountsTyped DEF Flow
  <2>4. handler' = handler /\ handler[f].step = "idle"
        /\ UNCHANGED <<setting, doc, tokens, request, flows>>
    BY <1>3, <2>1 DEF Retry, Recover, FlowSound
  <2>5. job'[f].stage = job[f].stage
    <3>1. CASE Retry(f)
      BY <2>1, <3>1 DEF Retry, IInv, TypeOK, JobState
    <3>2. CASE Recover(f) /\ job[f].stalls < MaxStalledCount
      <4>1. job'[f] = [job[f] EXCEPT !.state = "waiting", !.stalls = job[f].stalls + 1]
        BY <3>2 DEF Recover, IInv, TypeOK
      <4>2. QED
        BY <2>1, <4>1 DEF JobState
    <3>3. CASE Recover(f) /\ ~(job[f].stalls < MaxStalledCount)
      <4>1. job'[f] = [job[f] EXCEPT !.state = "failed"]
        BY <3>3 DEF Recover, IInv, TypeOK
      <4>2. QED
        BY <2>1, <4>1 DEF JobState
    <3>4. QED
      BY <1>3, <3>1, <3>2, <3>3
  <2>6. QED
    BY <2>3, <2>4, <2>5, StopsAlone
<1>4. QED
  BY <1>1, <1>2, <1>3

-----------------------------------------------------------------------------
(* One request at a time: the requests. *)
LEMMA OthersIdle ==
    ASSUME IInv, OneRequest, NEW r \in Requests, r \in setting.requests
    PROVE  \A q \in Requests : q # r => request[q].step = "idle"
<1>1. IsFiniteSet(setting.requests)
  BY CountsTyped, IssueAssumption, FS_Subset
<1>2. PICK only : setting.requests = {only}
  BY <1>1, FS_Singleton DEF OneRequest
<1>3. QED
  BY <1>2 DEF IInv, RequestsSound

(* What the only request must leave behind. *)
LEMMA RequestMovesAlone ==
    ASSUME IInv, OneRequest, NEW r \in Requests, r \in setting.requests,
           NEW s \in RequestState, request' = [request EXCEPT ![r] = s],
           s.step \in {"set_processing", "write_content", "delete"} =>
              doc'.status = "IN_PROGRESS",
           s.step = "add_flow" => flows' = 0,
           s.step \in {"store_file", "restore_status"} => Present',
           s.step = "restore_status" =>
              s.status # "DELETED" /\ (s.status = "IN_PROGRESS" <=> doc'.status = "IN_PROGRESS"),
           flows' <= 1,
           doc'.status \in {"IN_PROGRESS", "DELETED"} => flows' = 0 /\ s.step # "add_flow",
           flows' = 0 => tokens' = {},
           \A f \in Flow : f <= flows' => StageSound(f)'
    PROVE  Alone'
<1>1. /\ request'[r] = s
      /\ \A q \in Requests : q # r => request'[q].step = "idle"
  BY OthersIdle DEF IInv, TypeOK
<1>2. RequestAlone'
  <2> SUFFICES ASSUME NEW q \in Requests
               PROVE  /\ request'[q].step \in {"set_processing", "write_content", "delete"} =>
                            doc'.status = "IN_PROGRESS"
                      /\ request'[q].step = "add_flow" => flows' = 0
                      /\ request'[q].step \in {"store_file", "restore_status"} => Present'
                      /\ request'[q].step = "restore_status" =>
                            /\ request'[q].status # "DELETED"
                            /\ request'[q].status = "IN_PROGRESS" <=>
                                  doc'.status = "IN_PROGRESS"
    BY DEF RequestAlone
  <2>1. CASE q = r
    BY <1>1, <2>1
  <2>2. CASE q # r
    BY <1>1, <2>2
  <2>3. QED
    BY <2>1, <2>2
<1>3. FlowAlone'
  <2>1. doc'.status \in {"IN_PROGRESS", "DELETED"} =>
          \A q \in Requests : request'[q].step # "add_flow"
    BY <1>1
  <2>2. QED
    BY <2>1 DEF FlowAlone
<1>4. QED
  BY <1>2, <1>3 DEF Alone

(* A document with the same flow, whose parts that the flow wrote are kept. *)
LEMMA StageKept ==
    ASSUME IInv, Alone, OneRequest, UNCHANGED <<flows, job, handler, tokens>>,
           doc' \in Document,
           doc' = [doc EXCEPT !.status = doc'.status, !.original = doc'.original],
           Finalising \/ doc'.status = doc.status
    PROVE  \A f \in Flow : f <= flows' => StageSound(f)'
<1> SUFFICES ASSUME NEW f \in Flow, f <= flows PROVE StageSound(f)'
  OBVIOUS
<1>1. f = 1 /\ flows = 1 /\ StageSound(f) /\ doc \in Document
  BY TheFlow
<1>2. Finalising => job[f].stage = "finalise"
  <2>1. ASSUME NEW g \in Flow, job[g].stage = "finalise" PROVE ~(g > flows)
    BY <2>1 DEF IInv, FlowSound, NewJob
  <2>2. ASSUME NEW g \in Flow, ~(g > flows) PROVE g = f
    BY <1>1, <2>2 DEF Flow
  <2>3. QED
    BY <2>1, <2>2 DEF Finalising
<1>3. /\ doc'.class = doc.class /\ doc'.content = doc.content
      /\ doc'.tracking = doc.tracking /\ doc'.issuedFile = doc.issuedFile
      /\ doc'.details = doc.details /\ doc'.ttFile = doc.ttFile
  <2> DEFINE st == doc'.status
             or == doc'.original
  <2>1. doc' = [doc EXCEPT !.status = st, !.original = or]
    OBVIOUS
  <2> HIDE DEF st, or
  <2>2. QED
    BY <1>1, <2>1 DEF Document
<1>4. StageHolds(f, job[f].stage, handler[f].step, handler[f].mem, doc', tokens)
  BY <1>1, <1>2, <1>3 DEF StageSound, StageHolds, Wrapped, TokenSaved
<1>5. QED
  BY <1>4 DEF StageSound

LEMMA BeginAlone ==
    ASSUME IInv, Alone, OneRequest, NEW r \in Requests,
           BeginIssue(r) \/ BeginUpdate(r) \/ BeginDelete(r) \/ BeginUpload(r)
    PROVE  Alone'
<1>1. PICK kind \in {"issue", "update", "delete", "upload"},
           step \in {"set_processing", "write_content", "delete", "store_file"} :
        /\ Begin(r, kind, step)
        /\ step = "store_file" => Present
        /\ step # "store_file" => doc.status = "IN_PROGRESS"
  BY DEF BeginIssue, BeginUpdate, BeginDelete, BeginUpload
<1> DEFINE s == [step |-> step, status |-> doc.status]
<1>2. s \in RequestState /\ s.step = step
  BY RequestTyped DEF RequestState, RequestSteps
<1>3. /\ request' = [request EXCEPT ![r] = s] /\ r \in setting.requests
      /\ UNCHANGED <<setting, doc, tokens, flows, job, handler>>
  BY <1>1 DEF Begin
<1> HIDE DEF s
<1>4. FlowAlone
  BY DEF Alone
<1>5. \A f \in Flow : f <= flows' => StageSound(f)'
  BY <1>3, <1>4 DEF FlowAlone, StageSound
<1>6. /\ s.step \in {"set_processing", "write_content", "delete"} =>
           doc'.status = "IN_PROGRESS"
      /\ s.step \notin {"add_flow", "restore_status"}
      /\ s.step = "store_file" => Present'
      /\ flows' <= 1
      /\ doc'.status \in {"IN_PROGRESS", "DELETED"} => flows' = 0
      /\ flows' = 0 => tokens' = {}
  BY <1>1, <1>2, <1>3, <1>4 DEF FlowAlone, Present
<1>7. QED
  BY <1>2, <1>3, <1>5, <1>6, RequestMovesAlone

(* The request that runs ends. *)
LEMMA EndsAlone ==
    ASSUME IInv, Alone, OneRequest, NEW r \in Requests, r \in setting.requests,
           request' = [request EXCEPT ![r] = Idle],
           UNCHANGED <<setting, tokens, flows, job, handler>>,
           doc'.status \in {"IN_PROGRESS", "DELETED"} => flows = 0,
           \A f \in Flow : f <= flows' => StageSound(f)'
    PROVE  Alone'
<1>1. Idle \in RequestState /\ Idle.step = "idle"
  BY RequestTyped
<1>2. /\ flows' <= 1 /\ (flows' = 0 => tokens' = {})
  BY DEF Alone, FlowAlone
<1>3. QED
  BY <1>1, <1>2, RequestMovesAlone

LEMMA SetProcessingAlone ==
    ASSUME IInv, Alone, OneRequest, NEW r \in Requests, SetProcessing(r) PROVE Alone'
<1> DEFINE s == [step |-> "add_flow", status |-> "PROCESSING"]
<1>1. s \in RequestState /\ s.step = "add_flow"
  BY DEF RequestState, RequestSteps, Status
<1>2. /\ request[r].step = "set_processing" /\ r \in setting.requests
      /\ UNCHANGED <<setting, tokens, flows, job, handler>>
  BY RequestTyped DEF SetProcessing, Operate
<1>3. doc.status = "IN_PROGRESS" /\ flows = 0 /\ tokens = {}
  BY <1>2 DEF Alone, RequestAlone, FlowAlone
<1>4. /\ request' = [request EXCEPT ![r] = s]
      /\ doc' = [doc EXCEPT !.status = "PROCESSING"]
  BY <1>3 DEF SetProcessing, Operate, Present
<1>5. doc'.status = "PROCESSING"
  BY <1>4 DEF IInv, TypeOK, Document
<1> HIDE DEF s
<1>6. \A f \in Flow : ~(f <= flows')
  BY <1>2, <1>3 DEF Flow
<1>7. flows' = 0 /\ tokens' = {} /\ flows' <= 1
  BY <1>2, <1>3
<1>8. QED
  BY <1>1, <1>2, <1>4, <1>5, <1>6, <1>7, RequestMovesAlone

LEMMA AddFlowAlone ==
    ASSUME IInv, Alone, OneRequest, NEW r \in Requests, AddFlow(r) PROVE Alone'
<1>1. /\ request[r].step = "add_flow" /\ r \in setting.requests
      /\ request' = [request EXCEPT ![r] = Idle] /\ flows' = flows + 1
      /\ UNCHANGED <<setting, doc, tokens, handler>>
  BY RequestTyped DEF AddFlow
<1>2. flows = 0 /\ tokens = {} /\ doc.status \notin {"IN_PROGRESS", "DELETED"}
  BY <1>1 DEF Alone, RequestAlone, FlowAlone
<1>3. \A g \in Flow : job[g] = NewJob("issued-file", "none") /\ handler[g] = Resting
  <2>1. \A g \in Flow : g > flows
    BY <1>2 DEF Flow
  <2>2. QED
    BY <2>1 DEF IInv, FlowSound
<1>4. doc.status = "PROCESSING"
  <2>1. ~Finalising
    BY <1>3 DEF Finalising, NewJob
  <2>2. doc.status \in Status
    BY DEF IInv, TypeOK, Document
  <2>3. QED
    BY <1>2, <2>1, <2>2 DEF IInv, MintedSound, Status
<1>5. ASSUME NEW f \in Flow, f <= flows' PROVE StageSound(f)'
  <2>1. f = flows + 1
    BY <1>1, <1>2, <1>5 DEF Flow
  <2>2. job'[f].stage = "issued-file" /\ handler'[f] = Resting /\ Resting.step = "idle"
    BY <1>1, <1>3, <2>1 DEF AddFlow, IInv, TypeOK, NewJob, Resting
  <2>3. StageHolds(f, "issued-file", "idle", Resting.mem, doc, tokens)
    BY <1>2, <1>4 DEF StageHolds
  <2>4. QED
    BY <1>1, <2>2, <2>3 DEF StageSound
<1>6. /\ flows' <= 1 /\ flows' # 0
      /\ Idle \in RequestState /\ Idle.step = "idle"
      /\ doc'.status \notin {"IN_PROGRESS", "DELETED"}
  BY <1>1, <1>2, RequestTyped
<1>7. QED
  BY <1>1, <1>5, <1>6, RequestMovesAlone

(* The operations of an update, a delete and an upload; what was issued is *)
(* kept but for the status and the original.                               *)
LEMMA CustomerAlone ==
    ASSUME IInv, Alone, OneRequest, NEW r \in Requests,
           WriteContent(r) \/ Delete(r) \/ StoreFile(r) \/ RestoreStatus(r)
    PROVE  /\ Alone'
           /\ doc.status = "ISSUED" =>
                /\ doc'.status \in {"ISSUED", "PROCESSING"}
                /\ doc' = [doc EXCEPT !.status = doc'.status, !.original = doc'.original]
<1>1. r \in setting.requests /\ doc \in Document /\ doc.status \in Status
      /\ request[r].status \in Status
      /\ UNCHANGED <<setting, tokens, flows, job, handler>>
  BY RequestTyped DEF WriteContent, Delete, StoreFile, RestoreStatus, Operate
<1>2. RequestAlone /\ FlowAlone
  BY DEF Alone
<1>3. CASE WriteContent(r) \/ Delete(r)
  <2>1. request[r].step \in {"write_content", "delete"}
    BY <1>3 DEF WriteContent, Delete, Operate
  <2>2. doc.status = "IN_PROGRESS" /\ flows = 0
    BY <1>2, <2>1 DEF RequestAlone, FlowAlone
  <2>3. request' = [request EXCEPT ![r] = Idle]
    BY <1>3, <2>2 DEF WriteContent, Delete, Operate, Present
  <2>4. \A f \in Flow : ~(f <= flows')
    BY <1>1, <2>2 DEF Flow
  <2>5. QED
    BY <1>1, <2>2, <2>3, <2>4, EndsAlone
<1>4. CASE StoreFile(r)
  <2> DEFINE s == [step |-> "restore_status", status |-> doc.status]
  <2>1. request[r].step = "store_file"
    BY <1>4 DEF StoreFile, Operate
  <2>2. Present
    BY <1>2, <2>1 DEF RequestAlone
  <2>3. PICK v \in Versions : doc' = [doc EXCEPT !.original = v]
    BY <1>4, <2>2 DEF StoreFile, Operate
  <2>4. request' = [request EXCEPT ![r] = s]
    BY <1>4, <2>2 DEF StoreFile, Operate
  <2>5. s \in RequestState /\ s.step = "restore_status" /\ s.status = doc.status
    BY <1>1 DEF RequestState, RequestSteps
  <2> HIDE DEF s
  <2>6. /\ doc' \in Document /\ doc'.status = doc.status
        /\ doc' = [doc EXCEPT !.status = doc'.status, !.original = doc'.original]
    BY <1>1, <2>3 DEF Document
  <2>7. \A f \in Flow : f <= flows' => StageSound(f)'
    BY <1>1, <2>6, StageKept
  <2>8. /\ doc'.status # "DELETED" /\ Present' /\ flows' <= 1
        /\ doc'.status \in {"IN_PROGRESS", "DELETED"} => flows' = 0
        /\ flows' = 0 => tokens' = {}
    BY <1>1, <1>2, <2>2, <2>6 DEF FlowAlone, Present
  <2>9. Alone'
    BY <1>1, <2>4, <2>5, <2>6, <2>7, <2>8, RequestMovesAlone
  <2>10. QED
    BY <2>6, <2>9
<1>5. CASE RestoreStatus(r)
  <2>1. request[r].step = "restore_status"
    BY <1>5 DEF RestoreStatus, Operate
  <2>2. /\ Present /\ request[r].status # "DELETED"
        /\ request[r].status = "IN_PROGRESS" <=> doc.status = "IN_PROGRESS"
    BY <1>2, <2>1 DEF RequestAlone
  <2>3. /\ doc' = [doc EXCEPT !.status = request[r].status]
        /\ request' = [request EXCEPT ![r] = Idle]
    BY <1>5, <2>2 DEF RestoreStatus, Operate
  <2>4. /\ doc' \in Document /\ doc'.status = request[r].status
        /\ doc' = [doc EXCEPT !.status = doc'.status, !.original = doc'.original]
    BY <1>1, <2>3 DEF Document
  <2>5. Finalising \/ doc'.status = doc.status
    <3>1. /\ doc.status = "ISSUED" => Finalising
          /\ request[r].status = "ISSUED" => Finalising
      BY DEF IInv, MintedSound
    <3>2. QED
      BY <1>1, <2>2, <2>4, <3>1 DEF Present, Status
  <2>6. \A f \in Flow : f <= flows' => StageSound(f)'
    BY <1>1, <2>4, <2>5, StageKept
  <2>7. doc'.status \in {"IN_PROGRESS", "DELETED"} => flows = 0
    BY <1>2, <2>2, <2>4 DEF FlowAlone
  <2>8. Alone'
    BY <1>1, <2>3, <2>6, <2>7, EndsAlone
  <2>9. doc.status = "ISSUED" => doc'.status \in {"ISSUED", "PROCESSING"}
    BY <1>1, <2>2, <2>4 DEF Status
  <2>10. QED
    BY <2>4, <2>8, <2>9
<1>6. QED
  BY <1>3, <1>4, <1>5

LEMMA RequestFailsAlone ==
    ASSUME IInv, Alone, OneRequest, NEW r \in Requests, RequestFails(r) PROVE Alone'
<1>1. /\ r \in setting.requests /\ request' = [request EXCEPT ![r] = Idle]
      /\ UNCHANGED <<setting, doc, tokens, flows, job, handler>>
  BY RequestTyped DEF RequestFails
<1>2. FlowAlone
  BY DEF Alone
<1>3. /\ \A f \in Flow : f <= flows' => StageSound(f)'
      /\ doc'.status \in {"IN_PROGRESS", "DELETED"} => flows = 0
  BY <1>1, <1>2 DEF FlowAlone, StageSound
<1>4. QED
  BY <1>1, <1>3, EndsAlone

-----------------------------------------------------------------------------
(* One request at a time: the invariant holds. *)
LEMMA AloneInit == Init => Alone
<1> SUFFICES ASSUME Init PROVE RequestAlone /\ FlowAlone
  BY DEF Alone
<1>1. RequestAlone
  BY DEF Init, RequestAlone, Idle
<1>2. \A f \in Flow : ~(f <= flows)
  BY DEF Init, Flow
<1>3. FlowAlone
  BY <1>2 DEF Init, FlowAlone, Idle
<1>4. QED
  BY <1>1, <1>3

LEMMA AloneStep == IInv /\ Alone /\ [Next]_vars => Alone'
<1> SUFFICES ASSUME IInv, Alone, [Next]_vars, OneRequest' PROVE Alone'
  BY DEF Alone
<1>1. CASE UNCHANGED vars
  BY <1>1 DEF vars, Alone, OneRequest, RequestAlone, FlowAlone, StageSound, Present
<1>2. ASSUME NEW r \in Requests,
             \/ BeginIssue(r) \/ BeginUpdate(r) \/ BeginDelete(r) \/ BeginUpload(r)
             \/ ApiStep(r) \/ RequestFails(r)
      PROVE  Alone'
  <2>1. setting' = setting
    BY <1>2 DEF BeginIssue, BeginUpdate, BeginDelete, BeginUpload, Begin, ApiStep,
                SetProcessing, AddFlow, WriteContent, Delete, StoreFile, RestoreStatus,
                Operate, RequestFails
  <2>2. OneRequest
    BY <2>1 DEF OneRequest
  <2>3. QED
    BY <1>2, <2>2, BeginAlone, SetProcessingAlone, AddFlowAlone, CustomerAlone,
       RequestFailsAlone DEF ApiStep
<1>3. ASSUME NEW f \in Flow,
             \/ HandlerStep(f)
             \/ WrapFails(f) \/ OperationFails(f) \/ ProcessDies(f)
             \/ Retry(f) \/ Recover(f)
      PROVE  Alone'
  <2>1. setting' = setting
    BY <1>3 DEF HandlerStep, Take, Return, IssuedFile, TtFile, Mint, MintToken, Finalise,
                IssuedFileGone, DocumentGone, Does, Throw, WrapFails, OperationFails,
                ProcessDies, Retry, Recover
  <2>2. OneRequest
    BY <2>1 DEF OneRequest
  <2>3. QED
    BY <1>3, <2>2, TakeAlone, ReturnAlone, IssuedFileAlone, TtFileAlone, MintAlone,
       MintTokenAlone, FinaliseAlone, FailAlone, WrapFailsAlone DEF HandlerStep
<1>4. QED
  BY <1>1, <1>2, <1>3 DEF Next

LEMMA AloneHolds == Spec => []Alone
  BY InvariantHolds, AloneInit, AloneStep, InitOK, StepOK, PTL DEF Spec

(* With one request at a time the retries of a flow, after whatever        *)
(* failures, never put a second token on chain, nor is a second flow added. *)
THEOREM OneTokenOnly == Spec => []OneToken
<1>1. IInv /\ Alone => OneToken
  <2> SUFFICES ASSUME IInv, Alone, OneRequest
               PROVE  Cardinality(tokens) <= 1 /\ flows <= 1
    BY DEF OneToken
  <2>1. flows <= 1 /\ (flows = 0 => tokens = {})
    BY DEF Alone, FlowAlone
  <2>2. tokens \subseteq {doc.details.root}
    <3>1. CASE flows = 0
      BY <2>1, <3>1
    <3>2. CASE flows # 0
      <4>1. flows \in Flow
        BY <2>1, <3>2, CountsTyped DEF Flow, IInv, TypeOK
      <4>2. StageSound(flows) /\ job[flows] \in JobState
        BY <4>1, TheFlow, FlowTyped, CountsTyped
      <4>3. QED
        BY <4>2 DEF StageSound, StageHolds, JobState, Stages
    <3>3. QED
      BY <3>1, <3>2
  <2>3. Cardinality(tokens) <= Cardinality({doc.details.root})
        /\ Cardinality({doc.details.root}) = 1
    BY <2>2, FS_Singleton, FS_Subset
  <2>4. QED
    BY <2>1, <2>3
<1>2. QED
  BY InvariantHolds, AloneHolds, <1>1, PTL

(* With one request at a time an issued document is of one piece.          *)
THEOREM IssuedIsCoherent == Spec => []IssuedCoherent
<1>1. IInv /\ Alone => IssuedCoherent
  <2> SUFFICES ASSUME IInv, Alone, OneRequest, doc.status = "ISSUED"
               PROVE  /\ Wrapped(doc) /\ doc.issuedFile = doc.tracking
                      /\ TokenSaved(doc, tokens)
    BY DEF IssuedCoherent, Wrapped, TokenSaved
  <2>1. PICK f \in Flow : job[f].stage = "finalise"
    BY DEF IInv, MintedSound, Finalising
  <2>2. ~(f > flows)
    BY <2>1 DEF IInv, FlowSound, NewJob
  <2>3. f <= flows
    BY <2>2, CountsTyped DEF Flow
  <2>4. StageSound(f)
    BY <2>3, TheFlow
  <2>5. QED
    BY <2>1, <2>4 DEF StageSound, StageHolds
<1>2. QED
  BY InvariantHolds, AloneHolds, <1>1, PTL

(* With one request at a time no step changes or deletes what was issued,  *)
(* but for the original and the status that an upload writes.              *)
THEOREM IssuedIsKept == Spec => IssuedStays
<1> DEFINE Kept ==
      OneRequest /\ doc.status = "ISSUED" =>
        /\ doc'.status \in {"ISSUED", "PROCESSING"}
        /\ doc' = [doc EXCEPT !.status = doc'.status, !.original = doc'.original]
<1>1. ASSUME IInv, Alone, [Next]_vars PROVE Kept
  <2> SUFFICES ASSUME OneRequest, doc.status = "ISSUED"
               PROVE  /\ doc'.status \in {"ISSUED", "PROCESSING"}
                      /\ doc' = [doc EXCEPT !.status = doc'.status,
                                            !.original = doc'.original]
    OBVIOUS
  <2>1. doc \in Document
    BY <1>1 DEF IInv, TypeOK
  <2>2. doc = [doc EXCEPT !.status = doc.status, !.original = doc.original]
    BY <2>1 DEF Document
  <2>3. CASE doc' = doc
    BY <2>2, <2>3
  <2>4. ASSUME NEW r \in Requests,
               \/ BeginIssue(r) \/ BeginUpdate(r) \/ BeginDelete(r) \/ BeginUpload(r)
               \/ AddFlow(r) \/ RequestFails(r)
        PROVE  doc' = doc
    BY <2>4 DEF BeginIssue, BeginUpdate, BeginDelete, BeginUpload, Begin, AddFlow,
                RequestFails
  <2>5. ASSUME NEW r \in Requests, SetProcessing(r) PROVE FALSE
    BY <1>1, <2>5 DEF SetProcessing, Operate, Alone, RequestAlone
  <2>6. ASSUME NEW f \in Flow,
               \/ Take(f) \/ Return(f) \/ MintToken(f) \/ IssuedFileGone(f)
               \/ DocumentGone(f) \/ OperationFails(f) \/ ProcessDies(f)
               \/ Retry(f) \/ Recover(f)
        PROVE  doc' = doc
    BY <2>6 DEF Take, Return, MintToken, IssuedFileGone, DocumentGone, OperationFails,
                ProcessDies, Retry, Recover
  <2>7. ASSUME NEW f \in Flow, IssuedFile(f) \/ TtFile(f) \/ Mint(f) \/ WrapFails(f)
        PROVE  FALSE
    <3>1. handler[f].step # "idle" /\ job[f].stage # "finalise"
      BY <2>7 DEF IssuedFile, TtFile, Mint, WrapFails, Does
    <3>2. QED
      BY <1>1, <3>1, BusyAlone DEF StageHolds
  <2>8. ASSUME NEW f \in Flow, Finalise(f) PROVE doc' = doc
    <3>1. handler[f].step # "idle" /\ job[f].stage = "finalise"
      BY <2>8 DEF Finalise, Does
    <3>2. StageHolds(f, "finalise", handler[f].step, handler[f].mem, doc, tokens)
      BY <1>1, <3>1, BusyAlone
    <3>3. [doc EXCEPT !.details = doc.details] = doc /\ [doc EXCEPT !.status = "ISSUED"] = doc
      BY <2>1 DEF Document
    <3>4. QED
      BY <2>8, <3>2, <3>3 DEF Finalise, Does, StageHolds
  <2>9. QED
    BY <1>1, <2>3, <2>4, <2>5, <2>6, <2>7, <2>8, CustomerAlone
       DEF Next, ApiStep, HandlerStep, vars
<1>2. QED
  BY InvariantHolds, AloneHolds, <1>1, PTL DEF Spec, IssuedStays
=============================================================================
