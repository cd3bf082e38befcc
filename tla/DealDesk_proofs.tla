-------------------------- MODULE DealDesk_proofs ---------------------------
(* What holds of the deal desk for all numbers of requests, notes, flows,  *)
(* checks and faults, and of one request at a time.                        *)
EXTENDS DealDesk, SequenceTheorems, FiniteSetTheorems, TLAPS

(* The handlers that may still create a note or add a flow. *)
Creates(r) ==
    \/ r.step = "create_note"
    \/ r.step = "write_decision" /\ r.decision = "APPROVED"
Issues(r) ==
    r.step \in {"issuable", "store_file", "restore_status", "ready", "set_processing",
                "add_flow", "add_event"}
Creating == {q \in Requests : Creates(request[q])}
Issuing == {q \in Requests : Issues(request[q])}

(* The flows that, since the last fault of theirs, have created a signing  *)
(* record, a document on chain, and named the record in the note.          *)
Recorded(f) ==
    \/ flow[f].stage \in {"on-chain", "finalise"}
    \/ flow[f].stage = "off-chain" /\ flow[f].step \in {"name_record", "return"}
OnChain(f) ==
    \/ flow[f].stage = "finalise"
    \/ flow[f].stage = "on-chain" /\ flow[f].step \in {"save_contract", "return"}
Named(f) ==
    \/ flow[f].stage \in {"on-chain", "finalise"}
    \/ flow[f].stage = "off-chain" /\ flow[f].step = "return"
Recorders == {f \in DOMAIN flow : Recorded(f)}
OnChains == {f \in DOMAIN flow : OnChain(f)}

(* Every flow creates one record and one document, and one more only after *)
(* a fault.                                                                *)
Bounded ==
    /\ Len(notes) + Cardinality(Creating) <= setting.notes
    /\ Len(flow) + Cardinality(Issuing) <= setting.flows
    /\ Len(signings) <= Cardinality(Recorders) + faults
    /\ Len(contract) <= Cardinality(OnChains) + faults

Signed == \E c \in DOMAIN contract : contract[c].status = "SIGNED"

(* Nobody refers to a note, record or document that is not there. *)
NoteSound(n) == notes[n].signing \in {0} \cup DOMAIN signings

SigningSound(s) ==
    signings[s].note \in DOMAIN notes /\ signings[s].contract \in {0} \cup DOMAIN contract

RequestSound(q) ==
    /\ request[q].note \in {0} \cup DOMAIN notes
    /\ request[q].step \notin {"idle", "write_decision", "create_note"} => request[q].note # 0
    /\ request[q].read.signing \in {0} \cup DOMAIN signings

(* A job that is past the record has its note name one: no update of the   *)
(* note takes the name away.                                               *)
FlowSound(f) ==
    /\ flow[f].note \in DOMAIN notes
    /\ flow[f].signing \in {0} \cup DOMAIN signings
    /\ flow[f].contract \in {0} \cup DOMAIN contract
    /\ Running(f) => flow[f].attempts < MaxAttempts
    /\ flow[f].step = "name_record" => flow[f].stage = "off-chain"
    /\ flow[f].step \in {"create_on_chain", "save_contract"} => flow[f].stage = "on-chain"
    /\ flow[f].step = "set_ready" => flow[f].stage = "finalise"
    /\ flow[f].step \in {"name_record", "create_on_chain", "save_contract", "set_ready"} =>
          flow[f].signing # 0
    /\ flow[f].step = "create_on_chain" => flow[f].file # NoFile
    /\ flow[f].step = "save_contract" => flow[f].contract # 0
    /\ Named(f) => notes[flow[f].note].signing # 0

(* What a check found is still so on chain when it writes it. *)
CheckSound(k) ==
    check[k].step # "idle" =>
        /\ check[k].signing \in DOMAIN signings
        /\ signings[check[k].signing].contract # 0
        /\ check[k].step # "ask_contract" /\ check[k].found = "SIGNED" => Signed

DealSound ==
    /\ deal.note \in {0} \cup DOMAIN notes
    /\ deal.link \in {0} \cup DOMAIN signings
    /\ FundedMeansSigned

IInv ==
    /\ TypeOK
    /\ Bounded
    /\ \A n \in DOMAIN notes : NoteSound(n)
    /\ \A s \in DOMAIN signings : SigningSound(s)
    /\ \A q \in Requests : RequestSound(q)
    /\ \A f \in DOMAIN flow : FlowSound(f)
    /\ \A k \in Checkers : CheckSound(k)
    /\ DealSound
-----------------------------------------------------------------------------
(* With one request at a time a note leaves In Progress once and for all:  *)
(* before, nothing was made for it; after, its content stays.              *)
Untouched(n) ==
    /\ notes[n].issued = NoFile /\ notes[n].signing = 0
    /\ \A f \in DOMAIN flow : flow[f].note # n
    /\ \A s \in DOMAIN signings : signings[s].note # n

NoteAlone(n) ==
    /\ notes[n].status = "IN_PROGRESS" => Untouched(n)
    /\ notes[n].status = "ISSUED" => notes[n].issued = notes[n].content
    /\ notes[n].issued # NoFile => notes[n].status = "ISSUED"
    /\ notes[n].signing # 0 => signings[notes[n].signing].note = n

(* The only request writes back what is still so. *)
RequestAlone(q) ==
    LET step == request[q].step
        read == request[q].read
        note == NoteOf(q)
    IN  /\ step \in {"write_note", "store_file", "restore_status", "set_processing"} =>
              note.status = "IN_PROGRESS"
        /\ step \in {"check_note", "write_note"} =>
              /\ note.status = "IN_PROGRESS" => read.status = "IN_PROGRESS"
              /\ read.status = "IN_PROGRESS" => read.issued = NoFile /\ read.signing = 0
        /\ step = "restore_status" => read.status = "IN_PROGRESS"
        /\ step = "add_flow" => note.status = "PROCESSING" /\ Untouched(request[q].note)
        /\ step = "add_event" => note.issued # NoFile

(* A flow works for the issued file of its note; while no other overlaps,  *)
(* the record it works for is the one its note names.                      *)
FlowAlone(f) ==
    LET note == NoteIn(f)
    IN  /\ note.status # "IN_PROGRESS"
        /\ flow[f].stage # "issue" \/ flow[f].step = "return" => note.status = "ISSUED"
        /\ flow[f].step \in {"name_record", "create_on_chain", "save_contract", "set_ready"} =>
              signings[flow[f].signing].note = flow[f].note
        /\ flow[f].step = "create_on_chain" => flow[f].file = note.issued
        /\ flow[f].step = "save_contract" => contract[flow[f].contract].file = note.issued
        /\ Running(f) /\ flow[f].note \notin past.overlapped =>
              /\ \A g \in DOMAIN flow : Running(g) /\ flow[g].note = flow[f].note => g = f
              /\ flow[f].step \in {"create_on_chain", "save_contract", "set_ready"} =>
                    flow[f].signing = note.signing
              /\ OnChain(f) /\ flow[f].step # "save_contract" =>
                    signings[note.signing].contract # 0

SigningAlone(s) ==
    LET note == notes[signings[s].note]
    IN  /\ note.status = "ISSUED"
        /\ signings[s].contract # 0 => contract[signings[s].contract].file = note.issued
        /\ /\ signings[s].status = "IN_PROGRESS"
           /\ s \notin past.asked /\ signings[s].note \notin past.overlapped
           => signings[s].contract # 0

Alone ==
    /\ \A n \in DOMAIN notes : NoteAlone(n)
    /\ \A s \in DOMAIN signings : SigningAlone(s)
    /\ \A q \in Requests : RequestAlone(q)
    /\ \A f \in DOMAIN flow : FlowAlone(f)

(* The deal names its latest note, but for the request that creates one.   *)
Linked == deal.note = Len(notes) /\ deal.note # 0

AgreementSound ==
    /\ deal.status = "AWAITING_AGREEMENT" => deal.decision = "APPROVED"
    /\ faults = 0 => \A q \in Requests :
          /\ request[q].step \notin {"create_note", "link_note"} =>
                (deal.decision = "APPROVED" => Linked)
          /\ request[q].step = "write_decision" /\ request[q].seen = "AWAITING_AGREEMENT" => Linked
          /\ request[q].step = "link_note" => request[q].note = Len(notes)
-----------------------------------------------------------------------------
(* Counting. *)

(* Of two sets that differ in x at most. *)
LEMMA Moved ==
    ASSUME NEW S, IsFiniteSet(S), NEW T, NEW x, S \ {x} = T \ {x}
    PROVE  /\ IsFiniteSet(T)
           /\ Cardinality(S) \in Nat /\ Cardinality(T) \in Nat
           /\ x \in S <=> x \in T => Cardinality(T) = Cardinality(S)
           /\ x \notin S /\ x \in T => Cardinality(T) = Cardinality(S) + 1
           /\ x \in S /\ x \notin T => Cardinality(T) = Cardinality(S) - 1
<1>1. CASE x \in S <=> x \in T
  <2>1. S = T
    BY <1>1
  <2>2. QED
    BY <1>1, <2>1, FS_CardinalityType
<1>2. CASE x \notin S /\ x \in T
  <2>1. T = S \cup {x}
    BY <1>2
  <2>2. QED
    BY <1>2, <2>1, FS_AddElement, FS_CardinalityType
<1>3. CASE x \in S /\ x \notin T
  <2>1. T = S \ {x}
    BY <1>3
  <2>2. QED
    BY <1>3, <2>1, FS_RemoveElement, FS_CardinalityType
<1>4. QED
  BY <1>1, <1>2, <1>3

LEMMA SubsetCount ==
    ASSUME NEW n \in Nat, NEW S, S \subseteq 1..n
    PROVE  IsFiniteSet(S) /\ Cardinality(S) \in 0..n
<1>1. IsFiniteSet(1..n) /\ Cardinality(1..n) = n
  BY FS_Interval
<1>2. IsFiniteSet(S) /\ Cardinality(S) <= Cardinality(1..n)
  BY <1>1, FS_Subset
<1>3. QED
  BY <1>1, <1>2, FS_CardinalityType

(* What the invariant says of sizes. *)
LEMMA Domains ==
    ASSUME TypeOK
    PROVE  /\ Len(notes) \in Nat /\ DOMAIN notes = 1..Len(notes)
           /\ Len(signings) \in Nat /\ DOMAIN signings = 1..Len(signings)
           /\ Len(contract) \in Nat /\ DOMAIN contract = 1..Len(contract)
           /\ Len(flow) \in Nat /\ DOMAIN flow = 1..Len(flow)
           /\ \A n \in DOMAIN notes : notes[n] \in Note
           /\ \A s \in DOMAIN signings : signings[s] \in Signing
           /\ \A c \in DOMAIN contract :
                 contract[c] \in [status : ChainStatus, file : Contents]
           /\ \A f \in DOMAIN flow : flow[f] \in FlowState
<1>1. /\ notes \in Seq(Note) /\ signings \in Seq(Signing) /\ flow \in Seq(FlowState)
      /\ contract \in Seq([status : ChainStatus, file : Contents])
  BY DEF TypeOK
<1>2. /\ Len(notes) \in Nat /\ DOMAIN notes = 1..Len(notes)
      /\ \A n \in DOMAIN notes : notes[n] \in Note
  BY <1>1, LenProperties, ElementOfSeq
<1>3. /\ Len(signings) \in Nat /\ DOMAIN signings = 1..Len(signings)
      /\ \A s \in DOMAIN signings : signings[s] \in Signing
  BY <1>1, LenProperties, ElementOfSeq
<1>4. /\ Len(contract) \in Nat /\ DOMAIN contract = 1..Len(contract)
      /\ \A c \in DOMAIN contract : contract[c] \in [status : ChainStatus, file : Contents]
  BY <1>1, LenProperties, ElementOfSeq
<1>5. /\ Len(flow) \in Nat /\ DOMAIN flow = 1..Len(flow)
      /\ \A f \in DOMAIN flow : flow[f] \in FlowState
  BY <1>1, LenProperties, ElementOfSeq
<1>6. QED
  BY <1>2, <1>3, <1>4, <1>5

LEMMA Sizes ==
    ASSUME TypeOK
    PROVE  /\ setting \in Settings
           /\ setting.notes \in 0..MaxNotes /\ setting.flows \in 0..MaxFlows
           /\ setting.faults \in 0..MaxFaults /\ faults \in 0..setting.faults
           /\ MaxNotes \in Nat /\ MaxFlows \in Nat /\ MaxFaults \in Nat
           /\ DOMAIN notes \subseteq NoteId
           /\ DOMAIN signings \subseteq SigningId /\ DOMAIN contract \subseteq SigningId
           /\ IsFiniteSet(Creating) /\ Cardinality(Creating) \in Nat
           /\ IsFiniteSet(Issuing) /\ Cardinality(Issuing) \in Nat
           /\ IsFiniteSet(Recorders) /\ Cardinality(Recorders) \in Nat
           /\ IsFiniteSet(OnChains) /\ Cardinality(OnChains) \in Nat
<1>1. /\ setting \in Settings
      /\ setting.notes \in 0..MaxNotes /\ setting.flows \in 0..MaxFlows
      /\ setting.faults \in 0..MaxFaults /\ faults \in 0..setting.faults
      /\ MaxNotes \in Nat /\ MaxFlows \in Nat /\ MaxFaults \in Nat
  BY DealDeskAssumption DEF TypeOK
<1>2. /\ DOMAIN notes \subseteq NoteId
      /\ DOMAIN signings \subseteq SigningId /\ DOMAIN contract \subseteq SigningId
  <2>1. /\ Len(notes) <= MaxNotes
        /\ Len(signings) <= MaxFlows + MaxFaults /\ Len(contract) <= MaxFlows + MaxFaults
    BY DEF TypeOK
  <2>2. QED
    BY <1>1, <2>1, Domains DEF NoteId, SigningId
<1>3. /\ IsFiniteSet(Creating) /\ Cardinality(Creating) \in Nat
      /\ IsFiniteSet(Issuing) /\ Cardinality(Issuing) \in Nat
  <2>1. Creating \subseteq Requests /\ Issuing \subseteq Requests
    BY DEF Creating, Issuing
  <2>2. IsFiniteSet(Creating) /\ IsFiniteSet(Issuing)
    BY <2>1, DealDeskAssumption, FS_Subset
  <2>3. QED
    BY <2>2, FS_CardinalityType
<1>4. /\ IsFiniteSet(Recorders) /\ Cardinality(Recorders) \in Nat
      /\ IsFiniteSet(OnChains) /\ Cardinality(OnChains) \in Nat
  <2>1. Recorders \subseteq 1..Len(flow) /\ OnChains \subseteq 1..Len(flow)
    BY Domains DEF Recorders, OnChains
  <2>2. Len(flow) \in Nat
    BY Domains
  <2>3. IsFiniteSet(Recorders) /\ Cardinality(Recorders) \in 0..Len(flow)
    BY <2>1, <2>2, SubsetCount
  <2>4. IsFiniteSet(OnChains) /\ Cardinality(OnChains) \in 0..Len(flow)
    BY <2>1, <2>2, SubsetCount
  <2>5. QED
    BY <2>2, <2>3, <2>4
<1>5. QED
  BY <1>1, <1>2, <1>3, <1>4

(* The counts after a request or a flow has moved. *)
LEMMA RequestCounts ==
    ASSUME TypeOK, NEW q \in Requests, NEW r \in RequestState,
           request' = [request EXCEPT ![q] = r]
    PROVE  /\ request' \in [Requests -> RequestState]
           /\ request'[q] = r /\ \A p \in Requests : p # q => request'[p] = request[p]
           /\ Cardinality(Creating') \in Nat /\ Cardinality(Issuing') \in Nat
           /\ (Creates(r) <=> Creates(request[q])) =>
                 Cardinality(Creating') = Cardinality(Creating)
           /\ (Creates(r) /\ ~Creates(request[q])) =>
                 Cardinality(Creating') = Cardinality(Creating) + 1
           /\ (~Creates(r) /\ Creates(request[q])) =>
                 Cardinality(Creating') = Cardinality(Creating) - 1
           /\ (Issues(r) <=> Issues(request[q])) =>
                 Cardinality(Issuing') = Cardinality(Issuing)
           /\ (Issues(r) /\ ~Issues(request[q])) =>
                 Cardinality(Issuing') = Cardinality(Issuing) + 1
           /\ (~Issues(r) /\ Issues(request[q])) =>
                 Cardinality(Issuing') = Cardinality(Issuing) - 1
<1>1. /\ request' \in [Requests -> RequestState]
      /\ request'[q] = r /\ \A p \in Requests : p # q => request'[p] = request[p]
  BY DEF TypeOK
<1>2. /\ q \in Creating' <=> Creates(r)
      /\ q \in Creating <=> Creates(request[q])
      /\ q \in Issuing' <=> Issues(r)
      /\ q \in Issuing <=> Issues(request[q])
  BY <1>1 DEF Creating, Issuing, Creates, Issues
<1>3. Creating' \ {q} = Creating \ {q} /\ Issuing' \ {q} = Issuing \ {q}
  BY <1>1 DEF Creating, Issuing, Creates, Issues
<1>4. IsFiniteSet(Creating) /\ IsFiniteSet(Issuing)
  BY Sizes
<1>5. /\ Cardinality(Creating') \in Nat
      /\ (Creates(r) <=> Creates(request[q])) =>
            Cardinality(Creating') = Cardinality(Creating)
      /\ (Creates(r) /\ ~Creates(request[q])) =>
            Cardinality(Creating') = Cardinality(Creating) + 1
      /\ (~Creates(r) /\ Creates(request[q])) =>
            Cardinality(Creating') = Cardinality(Creating) - 1
  BY <1>2, <1>3, <1>4, Moved
<1>6. /\ Cardinality(Issuing') \in Nat
      /\ (Issues(r) <=> Issues(request[q])) =>
            Cardinality(Issuing') = Cardinality(Issuing)
      /\ (Issues(r) /\ ~Issues(request[q])) =>
            Cardinality(Issuing') = Cardinality(Issuing) + 1
      /\ (~Issues(r) /\ Issues(request[q])) =>
            Cardinality(Issuing') = Cardinality(Issuing) - 1
  BY <1>2, <1>3, <1>4, Moved
<1>7. QED
  BY <1>1, <1>5, <1>6

LEMMA FlowCounts ==
    ASSUME TypeOK, NEW f \in DOMAIN flow, NEW g \in FlowState,
           flow' = [flow EXCEPT ![f] = g]
    PROVE  /\ flow' \in Seq(FlowState) /\ Len(flow') = Len(flow) /\ DOMAIN flow' = DOMAIN flow
           /\ flow'[f] = g /\ \A h \in DOMAIN flow : h # f => flow'[h] = flow[h]
           /\ Cardinality(Recorders') \in 0..Len(flow)
           /\ Cardinality(OnChains') \in 0..Len(flow)
           /\ (Recorded(f)' <=> Recorded(f)) => Cardinality(Recorders') = Cardinality(Recorders)
           /\ (Recorded(f)' /\ ~Recorded(f)) =>
                 Cardinality(Recorders') = Cardinality(Recorders) + 1
           /\ (~Recorded(f)' /\ Recorded(f)) =>
                 Cardinality(Recorders') = Cardinality(Recorders) - 1
           /\ (OnChain(f)' <=> OnChain(f)) => Cardinality(OnChains') = Cardinality(OnChains)
           /\ (OnChain(f)' /\ ~OnChain(f)) => Cardinality(OnChains') = Cardinality(OnChains) + 1
           /\ (~OnChain(f)' /\ OnChain(f)) => Cardinality(OnChains') = Cardinality(OnChains) - 1
<1>1. /\ flow' \in Seq(FlowState) /\ Len(flow') = Len(flow) /\ DOMAIN flow' = DOMAIN flow
      /\ flow'[f] = g /\ \A h \in DOMAIN flow : h # f => flow'[h] = flow[h]
  BY Domains DEF TypeOK
<1>2. /\ f \in Recorders' <=> Recorded(f)'
      /\ f \in Recorders <=> Recorded(f)
      /\ f \in OnChains' <=> OnChain(f)'
      /\ f \in OnChains <=> OnChain(f)
  BY <1>1 DEF Recorders, OnChains
<1>3. Recorders' \ {f} = Recorders \ {f} /\ OnChains' \ {f} = OnChains \ {f}
  BY <1>1 DEF Recorders, OnChains, Recorded, OnChain
<1>4. IsFiniteSet(Recorders) /\ IsFiniteSet(OnChains)
  BY Sizes
<1>5. /\ (Recorded(f)' <=> Recorded(f)) => Cardinality(Recorders') = Cardinality(Recorders)
      /\ (Recorded(f)' /\ ~Recorded(f)) => Cardinality(Recorders') = Cardinality(Recorders) + 1
      /\ (~Recorded(f)' /\ Recorded(f)) => Cardinality(Recorders') = Cardinality(Recorders) - 1
  BY <1>2, <1>3, <1>4, Moved
<1>6. /\ (OnChain(f)' <=> OnChain(f)) => Cardinality(OnChains') = Cardinality(OnChains)
      /\ (OnChain(f)' /\ ~OnChain(f)) => Cardinality(OnChains') = Cardinality(OnChains) + 1
      /\ (~OnChain(f)' /\ OnChain(f)) => Cardinality(OnChains') = Cardinality(OnChains) - 1
  BY <1>2, <1>3, <1>4, Moved
<1>7. Recorders' \subseteq 1..Len(flow) /\ OnChains' \subseteq 1..Len(flow) /\ Len(flow) \in Nat
  BY <1>1, Domains DEF Recorders, OnChains
<1>8. Cardinality(Recorders') \in 0..Len(flow) /\ Cardinality(OnChains') \in 0..Len(flow)
  BY <1>7, SubsetCount
<1>9. QED
  BY <1>1, <1>5, <1>6, <1>8
-----------------------------------------------------------------------------
(* What a step does not touch stays sound: notes, records and documents    *)
(* are only added, a note keeps naming a record, a record its document,    *)
(* and a document stays signed.                                            *)
Grown ==
    /\ DOMAIN notes \subseteq DOMAIN notes'
    /\ \A n \in DOMAIN notes : notes[n].signing # 0 => notes'[n].signing # 0
    /\ DOMAIN signings \subseteq DOMAIN signings'
    /\ \A s \in DOMAIN signings : signings[s].contract # 0 => signings'[s].contract # 0
    /\ DOMAIN contract \subseteq DOMAIN contract'
    /\ Signed => Signed'

LEMMA Framed ==
    ASSUME IInv, Grown
    PROVE  /\ \A q \in Requests : request'[q] = request[q] => RequestSound(q)'
           /\ \A f \in DOMAIN flow : flow'[f] = flow[f] => FlowSound(f)'
           /\ \A k \in Checkers : check'[k] = check[k] => CheckSound(k)'
           /\ deal' = deal => DealSound'
<1>1. ASSUME NEW q \in Requests, request'[q] = request[q] PROVE RequestSound(q)'
  BY <1>1 DEF IInv, Grown, RequestSound
<1>2. ASSUME NEW f \in DOMAIN flow, flow'[f] = flow[f] PROVE FlowSound(f)'
  <2>1. FlowSound(f)
    BY DEF IInv
  <2>2. flow[f].note \in DOMAIN notes
    BY <2>1 DEF FlowSound
  <2>3. (Running(f)' <=> Running(f)) /\ (Named(f)' <=> Named(f))
    BY <1>2 DEF Running, Named
  <2>4. flow'[f].note \in DOMAIN notes' /\ (Named(f)' => notes'[flow'[f].note].signing # 0)
    BY <1>2, <2>1, <2>2, <2>3 DEF Grown, FlowSound
  <2>5. /\ flow'[f].signing \in {0} \cup DOMAIN signings'
        /\ flow'[f].contract \in {0} \cup DOMAIN contract'
    BY <1>2, <2>1 DEF Grown, FlowSound
  <2>6. QED
    BY <1>2, <2>1, <2>3, <2>4, <2>5 DEF FlowSound
<1>3. ASSUME NEW k \in Checkers, check'[k] = check[k] PROVE CheckSound(k)'
  BY <1>3 DEF IInv, Grown, CheckSound
<1>4. ASSUME deal' = deal PROVE DealSound'
  <2>1. deal.status = "FUNDING_REQUESTED" => Signed'
    BY DEF IInv, Grown, DealSound, FundedMeansSigned, Signed
  <2>2. FundedMeansSigned'
    BY <1>4, <2>1 DEF FundedMeansSigned, Signed
  <2>3. QED
    BY <1>4, <2>2 DEF IInv, Grown, DealSound
<1>5. QED
  BY <1>1, <1>2, <1>3, <1>4

(* A handler moves on; it may write the deal and a note. *)
LEMMA RequestMoves ==
    ASSUME IInv, NEW q \in Requests, NEW r \in RequestState,
           request' = [request EXCEPT ![q] = r],
           r.note \in {0} \cup DOMAIN notes',
           r.step \notin {"idle", "write_decision", "create_note"} => r.note # 0,
           r.read.signing \in {0} \cup DOMAIN signings,
           deal' \in [status : DealStatus, decision : Decision, note : {0} \cup NoteId,
                      link : {0} \cup SigningId],
           deal'.note \in {0} \cup DOMAIN notes', deal'.link = deal.link,
           deal'.status = "FUNDING_REQUESTED" => deal.status = "FUNDING_REQUESTED",
           notes' \in Seq(Note), DOMAIN notes \subseteq DOMAIN notes',
           \A n \in DOMAIN notes : notes[n].signing # 0 => notes'[n].signing # 0,
           \A n \in DOMAIN notes' : notes'[n].signing \in {0} \cup DOMAIN signings,
           Len(notes') + Cardinality(Creating') <= setting.notes,
           Len(flow) + Cardinality(Issuing') <= setting.flows,
           made' \in [decisions : 0..setting.decisions, updates : 0..setting.updates,
                      asked : 0..setting.asked],
           faults' \in faults..setting.faults,
           UNCHANGED <<setting, signings, contract, flow, check, past>>
    PROVE  IInv'
<1>1. Grown
  BY DEF Grown, Signed
<1>2. /\ request' \in [Requests -> RequestState]
      /\ request'[q] = r /\ \A p \in Requests : p # q => request'[p] = request[p]
      /\ Cardinality(Creating') \in Nat
  BY RequestCounts DEF IInv
<1>3. TypeOK'
  <2>1. Len(notes') \in Nat
    BY LenProperties
  <2>2. Len(notes') <= MaxNotes
    <3>1. setting.notes \in 0..MaxNotes /\ MaxNotes \in Nat
      BY Sizes DEF IInv
    <3>2. Len(notes') + Cardinality(Creating') <= setting.notes
      OBVIOUS
    <3>3. QED
      BY <1>2, <2>1, <3>1, <3>2
  <2>3. NoteId' = NoteId /\ SigningId' = SigningId /\ faults' \in 0..setting'.faults
    BY Sizes DEF IInv, NoteId, SigningId
  <2>4. QED
    BY <1>2, <2>2, <2>3 DEF IInv, TypeOK
<1>4. Bounded'
  <2>1. /\ Recorders' = Recorders /\ OnChains' = OnChains
    BY DEF Recorders, OnChains, Recorded, OnChain
  <2>2. /\ Len(signings) <= Cardinality(Recorders) + faults
        /\ Len(contract) <= Cardinality(OnChains) + faults
        /\ Len(signings) \in Nat /\ Len(contract) \in Nat
        /\ Cardinality(Recorders) \in Nat /\ Cardinality(OnChains) \in Nat /\ faults \in Nat
    BY Sizes, Domains DEF IInv, Bounded
  <2>3. faults' >= faults /\ faults' \in Int
    BY <2>2, Sizes DEF IInv
  <2>4. QED
    BY <2>1, <2>2, <2>3 DEF Bounded
<1>5. \A n \in DOMAIN notes' : NoteSound(n)'
  BY DEF NoteSound
<1>6. \A s \in DOMAIN signings' : SigningSound(s)'
  BY DEF IInv, SigningSound
<1>7. \A p \in Requests : RequestSound(p)'
  BY <1>1, <1>2, Framed DEF RequestSound
<1>8. (\A f \in DOMAIN flow' : FlowSound(f)') /\ (\A k \in Checkers : CheckSound(k)')
  BY <1>1, Framed
<1>9. DealSound'
  <2>1. deal'.status = "FUNDING_REQUESTED" => Signed'
    BY <1>1 DEF IInv, Grown, DealSound, FundedMeansSigned, Signed
  <2>2. FundedMeansSigned'
    BY <2>1 DEF FundedMeansSigned, Signed
  <2>3. QED
    BY <2>2 DEF IInv, DealSound
<1>10. QED
  BY <1>3, <1>4, <1>5, <1>6, <1>7, <1>8, <1>9 DEF IInv

(* A job moves on; it may write its note, a record and the chain. *)
LEMMA FlowMoves ==
    ASSUME IInv, NEW f \in DOMAIN flow, NEW g \in FlowState,
           flow' = [flow EXCEPT ![f] = g], FlowSound(f)', Grown,
           notes' \in Seq(Note), Len(notes') = Len(notes),
           \A n \in DOMAIN notes' : NoteSound(n)',
           signings' \in Seq(Signing), \A s \in DOMAIN signings' : SigningSound(s)',
           contract' \in Seq([status : ChainStatus, file : Contents]),
           Len(signings') <= Cardinality(Recorders') + faults',
           Len(contract') <= Cardinality(OnChains') + faults',
           faults' \in 0..setting.faults,
           UNCHANGED <<setting, deal, request, check, made, past>>
    PROVE  IInv'
<1>1. /\ flow' \in Seq(FlowState) /\ Len(flow') = Len(flow) /\ DOMAIN flow' = DOMAIN flow
      /\ flow'[f] = g /\ \A h \in DOMAIN flow : h # f => flow'[h] = flow[h]
      /\ Cardinality(Recorders') \in 0..Len(flow)
      /\ Cardinality(OnChains') \in 0..Len(flow)
  BY FlowCounts DEF IInv
<1>2. Creating' = Creating /\ Issuing' = Issuing
  BY DEF Creating, Issuing, Creates, Issues
<1>3. /\ Len(notes) + Cardinality(Creating) <= setting.notes
      /\ Len(flow) + Cardinality(Issuing) <= setting.flows
      /\ Len(notes) <= MaxNotes /\ Len(flow) <= MaxFlows
      /\ Cardinality(Issuing) \in Nat /\ Len(flow) \in Nat
  BY Sizes, Domains DEF IInv, Bounded, TypeOK
<1>4. Bounded'
  BY <1>1, <1>2, <1>3 DEF Bounded
<1>5. TypeOK'
  <2>1. Len(signings') <= MaxFlows + MaxFaults /\ Len(contract') <= MaxFlows + MaxFaults
    <3>1. Len(signings') \in Nat /\ Len(contract') \in Nat
      BY LenProperties
    <3>2. /\ Cardinality(Recorders') <= MaxFlows /\ Cardinality(OnChains') <= MaxFlows
          /\ Cardinality(Recorders') \in Nat /\ Cardinality(OnChains') \in Nat
          /\ faults' <= MaxFaults /\ faults' \in Nat /\ MaxFlows \in Nat /\ MaxFaults \in Nat
      <4>1. setting.faults \in 0..MaxFaults /\ MaxFaults \in Nat /\ MaxFlows \in Nat
        BY Sizes DEF IInv
      <4>2. QED
        BY <1>1, <1>3, <4>1
    <3>3. QED
      BY <3>1, <3>2
  <2>2. Len(notes') <= MaxNotes /\ Len(flow') <= MaxFlows
    BY <1>1, <1>3
  <2>3. QED
    BY <1>1, <2>1, <2>2 DEF IInv, TypeOK
<1>6. \A h \in DOMAIN flow' : FlowSound(h)'
  <2> TAKE h \in DOMAIN flow'
  <2>1. CASE h = f
    BY <2>1
  <2>2. CASE h # f
    BY <1>1, <2>2, Framed
  <2>3. QED
    BY <2>1, <2>2
<1>7. /\ \A q \in Requests : RequestSound(q)'
      /\ \A k \in Checkers : CheckSound(k)'
      /\ DealSound'
  BY Framed
<1>8. QED
  BY <1>4, <1>5, <1>6, <1>7 DEF IInv

(* A step that leaves notes, flows and requests alone. *)
LEMMA OthersMove ==
    ASSUME IInv, Grown,
           deal' \in [status : DealStatus, decision : Decision, note : {0} \cup NoteId,
                      link : {0} \cup SigningId],
           DealSound',
           signings' \in Seq(Signing), Len(signings') = Len(signings),
           \A s \in DOMAIN signings' : SigningSound(s)',
           contract' \in Seq([status : ChainStatus, file : Contents]),
           Len(contract') = Len(contract),
           check' \in [Checkers -> CheckState], \A k \in Checkers : CheckSound(k)',
           made' \in [decisions : 0..setting.decisions, updates : 0..setting.updates,
                      asked : 0..setting.asked],
           past' \in [overlapped : SUBSET NoteId, asked : SUBSET SigningId],
           faults' \in faults..setting.faults,
           UNCHANGED <<setting, notes, request, flow>>
    PROVE  IInv'
<1>1. /\ Creating' = Creating /\ Issuing' = Issuing
      /\ Recorders' = Recorders /\ OnChains' = OnChains
  BY DEF Creating, Issuing, Creates, Issues, Recorders, OnChains, Recorded, OnChain
<1>2. Bounded'
  <2>1. /\ Len(signings) <= Cardinality(Recorders) + faults
        /\ Len(contract) <= Cardinality(OnChains) + faults
        /\ Len(signings) \in Nat /\ Len(contract) \in Nat
        /\ Cardinality(Recorders) \in Nat /\ Cardinality(OnChains) \in Nat /\ faults \in Nat
    BY Sizes, Domains DEF IInv, Bounded
  <2>2. faults' >= faults /\ faults' \in Int
    BY <2>1, Sizes DEF IInv
  <2>3. QED
    BY <1>1, <2>1, <2>2 DEF IInv, Bounded
<1>3. TypeOK'
  <2>1. faults' \in 0..setting'.faults
    BY Sizes DEF IInv
  <2>2. QED
    BY <2>1 DEF IInv, TypeOK
<1>4. \A n \in DOMAIN notes' : NoteSound(n)'
  BY DEF IInv, Grown, NoteSound
<1>5. (\A q \in Requests : RequestSound(q)') /\ (\A f \in DOMAIN flow' : FlowSound(f)')
  BY Framed
<1>6. QED
  BY <1>2, <1>3, <1>4, <1>5 DEF IInv
-----------------------------------------------------------------------------
(* The handlers of the API. *)
LEMMA IdleTyped ==
    /\ NewNote \in Note /\ NewNote.status = "IN_PROGRESS" /\ NewNote.issued = NoFile
    /\ NewNote.signing = 0
    /\ Idle \in RequestState /\ Idle.step = "idle" /\ Idle.note = 0
    /\ Idle.decision = "PENDING" /\ Idle.seen = "NEW" /\ Idle.read = NewNote
<1>1. (CHOOSE c \in Contents : TRUE) \in Contents
  BY DealDeskAssumption
<1>2. NewNote \in Note
  BY <1>1 DEF NewNote, Note, NoteStatus
<1>3. Idle \in RequestState
  BY <1>2 DEF Idle, RequestState, RequestSteps, Decision, DealStatus
<1>4. QED
  BY <1>2, <1>3 DEF Idle, NewNote

(* The guards that admit a handler leave room for one more. *)
LEMMA Admission ==
    /\ NotesAdmitted <=> Len(notes) + Cardinality(Creating) < setting.notes
    /\ FlowsAdmitted <=> Len(flow) + Cardinality(Issuing) < setting.flows
<1>1. NotesAdmitted <=> Len(notes) + Cardinality(Creating) < setting.notes
  BY DEF NotesAdmitted, Creating, Creates, At
<1>2. FlowsAdmitted <=> Len(flow) + Cardinality(Issuing) < setting.flows
  BY DEF FlowsAdmitted, Issuing, Issues
<1>3. QED
  BY <1>1, <1>2

(* A step of a handler that writes nothing but the note it has in hand. *)
LEMMA HandlerMoves ==
    ASSUME IInv, NEW q \in Requests, NEW r \in RequestState,
           request' = [request EXCEPT ![q] = r],
           r.note \in {0} \cup DOMAIN notes,
           r.step \notin {"idle", "write_decision", "create_note"} => r.note # 0,
           r.read.signing \in {0} \cup DOMAIN signings,
           Creates(r) => Creates(request[q]) \/ NotesAdmitted,
           Issues(r) => Issues(request[q]) \/ FlowsAdmitted,
           deal' \in [status : DealStatus, decision : Decision, note : {0} \cup NoteId,
                      link : {0} \cup SigningId],
           deal'.note \in {0} \cup DOMAIN notes, deal'.link = deal.link,
           deal'.status = "FUNDING_REQUESTED" => deal.status = "FUNDING_REQUESTED",
           \/ notes' = notes
           \/ \E n \in DOMAIN notes, new \in Note :
                 /\ notes' = [notes EXCEPT ![n] = new]
                 /\ new.signing \in {0} \cup DOMAIN signings
                 /\ notes[n].signing # 0 => new.signing # 0,
           made' \in [decisions : 0..setting.decisions, updates : 0..setting.updates,
                      asked : 0..setting.asked],
           faults' \in faults..setting.faults,
           UNCHANGED <<setting, signings, contract, flow, check, past>>
    PROVE  IInv'
<1>1. /\ notes \in Seq(Note) /\ Len(notes) \in Nat /\ DOMAIN notes = 1..Len(notes)
      /\ \A n \in DOMAIN notes : notes[n].signing \in {0} \cup DOMAIN signings
      /\ Len(flow) \in Nat
  BY Domains DEF IInv, TypeOK, NoteSound
<1>2. /\ notes' \in Seq(Note) /\ Len(notes') = Len(notes) /\ DOMAIN notes' = DOMAIN notes
      /\ \A n \in DOMAIN notes : notes[n].signing # 0 => notes'[n].signing # 0
      /\ \A n \in DOMAIN notes : notes'[n].signing \in {0} \cup DOMAIN signings
  <2>1. CASE notes' = notes
    BY <1>1, <2>1
  <2>2. ASSUME NEW n \in DOMAIN notes, NEW new \in Note,
               notes' = [notes EXCEPT ![n] = new],
               new.signing \in {0} \cup DOMAIN signings,
               notes[n].signing # 0 => new.signing # 0
        PROVE  <1>2!:
    <3>1. /\ notes' \in Seq(Note) /\ Len(notes') = Len(notes)
          /\ DOMAIN notes' = DOMAIN notes
          /\ notes'[n] = new /\ \A m \in DOMAIN notes : m # n => notes'[m] = notes[m]
      BY <1>1, <2>2
    <3>2. QED
      BY <1>1, <2>2, <3>1
  <2>3. QED
    BY <2>1, <2>2
<1>3. /\ Len(notes) + Cardinality(Creating) <= setting.notes
      /\ Len(flow) + Cardinality(Issuing) <= setting.flows
      /\ NotesAdmitted <=> Len(notes) + Cardinality(Creating) < setting.notes
      /\ FlowsAdmitted <=> Len(flow) + Cardinality(Issuing) < setting.flows
      /\ Cardinality(Creating) \in Nat /\ Cardinality(Issuing) \in Nat
      /\ setting.notes \in Nat /\ setting.flows \in Nat
  <2>1. /\ Len(notes) + Cardinality(Creating) <= setting.notes
        /\ Len(flow) + Cardinality(Issuing) <= setting.flows
    BY DEF IInv, Bounded
  <2>2. /\ Cardinality(Creating) \in Nat /\ Cardinality(Issuing) \in Nat
        /\ setting.notes \in Nat /\ setting.flows \in Nat
    BY Sizes DEF IInv
  <2>3. QED
    BY <2>1, <2>2, Admission
<1>4. Len(notes') + Cardinality(Creating') <= setting.notes
  <2>1. /\ Cardinality(Creating') \in Nat
        /\ (Creates(r) <=> Creates(request[q])) =>
              Cardinality(Creating') = Cardinality(Creating)
        /\ (Creates(r) /\ ~Creates(request[q])) =>
              Cardinality(Creating') = Cardinality(Creating) + 1
        /\ (~Creates(r) /\ Creates(request[q])) =>
              Cardinality(Creating') = Cardinality(Creating) - 1
    BY RequestCounts DEF IInv
  <2>2. CASE Creates(r) <=> Creates(request[q])
    BY <1>1, <1>2, <1>3, <2>1, <2>2
  <2>3. CASE Creates(r) /\ ~Creates(request[q])
    BY <1>1, <1>2, <1>3, <2>1, <2>3
  <2>4. CASE ~Creates(r) /\ Creates(request[q])
    BY <1>1, <1>2, <1>3, <2>1, <2>4
  <2>5. QED
    BY <2>2, <2>3, <2>4
<1>5. Len(flow) + Cardinality(Issuing') <= setting.flows
  <2>1. /\ Cardinality(Issuing') \in Nat
        /\ (Issues(r) <=> Issues(request[q])) =>
              Cardinality(Issuing') = Cardinality(Issuing)
        /\ (Issues(r) /\ ~Issues(request[q])) =>
              Cardinality(Issuing') = Cardinality(Issuing) + 1
        /\ (~Issues(r) /\ Issues(request[q])) =>
              Cardinality(Issuing') = Cardinality(Issuing) - 1
    BY RequestCounts DEF IInv
  <2>2. CASE Issues(r) <=> Issues(request[q])
    BY <1>1, <1>2, <1>3, <2>1, <2>2
  <2>3. CASE Issues(r) /\ ~Issues(request[q])
    BY <1>1, <1>2, <1>3, <2>1, <2>3
  <2>4. CASE ~Issues(r) /\ Issues(request[q])
    BY <1>1, <1>2, <1>3, <2>1, <2>4
  <2>5. QED
    BY <2>2, <2>3, <2>4
<1>6. QED
  BY <1>2, <1>4, <1>5, RequestMoves

(* One that writes nothing but where the handler is. *)
LEMMA HandlerGoes ==
    ASSUME IInv, NEW q \in Requests, NEW r \in RequestState,
           request' = [request EXCEPT ![q] = r],
           r.note \in {0} \cup DOMAIN notes,
           r.step \notin {"idle", "write_decision", "create_note"} => r.note # 0,
           r.read.signing \in {0} \cup DOMAIN signings,
           Creates(r) => Creates(request[q]) \/ NotesAdmitted,
           Issues(r) => Issues(request[q]) \/ FlowsAdmitted,
           UNCHANGED <<setting, deal, notes, signings, contract, flow, check, made, past, faults>>
    PROVE  IInv'
<1>1. /\ deal \in [status : DealStatus, decision : Decision, note : {0} \cup NoteId,
                   link : {0} \cup SigningId]
      /\ deal.note \in {0} \cup DOMAIN notes
      /\ made \in [decisions : 0..setting.decisions, updates : 0..setting.updates,
                   asked : 0..setting.asked]
  BY DEF IInv, TypeOK, DealSound
<1>2. faults \in faults..setting.faults
  BY Sizes DEF IInv
<1>3. QED
  BY <1>1, <1>2, HandlerMoves

LEMMA Counter ==
    ASSUME TypeOK,
           \/ made.decisions < setting.decisions /\ made' = [made EXCEPT !.decisions = @ + 1]
           \/ made.updates < setting.updates /\ made' = [made EXCEPT !.updates = @ + 1]
           \/ made.asked < setting.asked /\ made' = [made EXCEPT !.asked = @ + 1]
    PROVE  made' \in [decisions : 0..setting.decisions, updates : 0..setting.updates,
                      asked : 0..setting.asked]
<1>1. setting.decisions \in Nat /\ setting.updates \in Nat /\ setting.asked \in Nat
  BY Sizes, DealDeskAssumption
<1>2. /\ made \in [decisions : 0..setting.decisions, updates : 0..setting.updates,
                   asked : 0..setting.asked]
      /\ made.decisions \in Nat /\ made.updates \in Nat /\ made.asked \in Nat
  BY <1>1 DEF TypeOK
<1>3. /\ made.decisions < setting.decisions => made.decisions + 1 \in 0..setting.decisions
      /\ made.updates < setting.updates => made.updates + 1 \in 0..setting.updates
      /\ made.asked < setting.asked => made.asked + 1 \in 0..setting.asked
  BY <1>1, <1>2
<1>4. QED
  BY <1>2, <1>3
LEMMA RequestTyped ==
    ASSUME IInv, NEW q \in Requests
    PROVE  /\ request[q] \in RequestState
           /\ request[q].note \in {0} \cup DOMAIN notes
           /\ request[q].step \notin {"idle", "write_decision", "create_note"} =>
                 request[q].note # 0 /\ request[q].note \in DOMAIN notes /\ NoteOf(q) \in Note
                 /\ NoteOf(q).signing \in {0} \cup DOMAIN signings
           /\ request[q].read.signing \in {0} \cup DOMAIN signings
           /\ request[q].read \in Note
           /\ deal \in [status : DealStatus, decision : Decision, note : {0} \cup NoteId,
                        link : {0} \cup SigningId]
           /\ deal.note \in {0} \cup DOMAIN notes
           /\ made \in [decisions : 0..setting.decisions, updates : 0..setting.updates,
                        asked : 0..setting.asked]
           /\ faults \in faults..setting.faults
<1>1. /\ request[q] \in RequestState
      /\ request[q].note \in {0} \cup DOMAIN notes
      /\ request[q].step \notin {"idle", "write_decision", "create_note"} => request[q].note # 0
      /\ request[q].read.signing \in {0} \cup DOMAIN signings
  BY DEF IInv, TypeOK, RequestSound
<1>2. request[q].read \in Note
  BY <1>1 DEF RequestState
<1>3. \A n \in DOMAIN notes : notes[n] \in Note /\ notes[n].signing \in {0} \cup DOMAIN signings
  BY Domains DEF IInv, NoteSound
<1>4. /\ deal \in [status : DealStatus, decision : Decision, note : {0} \cup NoteId,
                   link : {0} \cup SigningId]
      /\ deal.note \in {0} \cup DOMAIN notes
      /\ made \in [decisions : 0..setting.decisions, updates : 0..setting.updates,
                   asked : 0..setting.asked]
  BY DEF IInv, TypeOK, DealSound
<1>5. faults \in faults..setting.faults
  BY Sizes DEF IInv
<1>6. QED
  BY <1>1, <1>2, <1>3, <1>4, <1>5 DEF NoteOf

(* Going to another step of the same handler. *)
LEMMA Stepped ==
    ASSUME IInv, NEW q \in Requests, NEW step \in RequestSteps, Go(q, step)
    PROVE  \E r \in RequestState :
             /\ request' = [request EXCEPT ![q] = r]
             /\ r.step = step /\ r.note = request[q].note /\ r.read = request[q].read
<1> DEFINE r == [request[q] EXCEPT !.step = step]
<1>1. request' = [request EXCEPT ![q] = r]
  BY DEF Go
<1>2. r \in RequestState /\ r.step = step /\ r.note = request[q].note /\ r.read = request[q].read
  BY RequestTyped DEF RequestState
<1>3. QED
  BY <1>1, <1>2

LEMMA GoesOn ==
    ASSUME IInv, NEW q \in Requests, NEW step \in RequestSteps, Go(q, step),
           step # "write_decision",
           step \notin {"idle", "create_note"} => request[q].note # 0,
           step = "create_note" => Creates(request[q]) \/ NotesAdmitted,
           Issues([step |-> step]) => Issues(request[q]) \/ FlowsAdmitted
    PROVE  \E r \in RequestState :
             /\ request' = [request EXCEPT ![q] = r]
             /\ r.note \in {0} \cup DOMAIN notes
             /\ r.step \notin {"idle", "write_decision", "create_note"} => r.note # 0
             /\ r.read.signing \in {0} \cup DOMAIN signings
             /\ Creates(r) => Creates(request[q]) \/ NotesAdmitted
             /\ Issues(r) => Issues(request[q]) \/ FlowsAdmitted
<1>1. PICK r \in RequestState :
        /\ request' = [request EXCEPT ![q] = r]
        /\ r.step = step /\ r.note = request[q].note /\ r.read = request[q].read
  BY Stepped
<1>2. Creates(r) => step = "create_note"
  BY <1>1 DEF Creates
<1>3. Issues(r) => Issues([step |-> step])
  BY <1>1 DEF Issues
<1>4. r.note \in {0} \cup DOMAIN notes /\ r.read.signing \in {0} \cup DOMAIN signings
  BY <1>1, RequestTyped
<1>5. QED
  BY <1>1, <1>2, <1>3, <1>4

(* A handler ends, or begins anew with another state that is not busy yet. *)
LEMMA Begins ==
    ASSUME IInv, NEW step \in RequestSteps, NEW n \in {0} \cup DOMAIN notes
    PROVE  LET r == [Idle EXCEPT !.step = step, !.note = n]
           IN  /\ r \in RequestState /\ r.step = step /\ r.note = n
               /\ r.read.signing = 0 /\ r.decision = "PENDING"
BY IdleTyped, Sizes DEF RequestState, IInv

LEMMA Ends ==
    ASSUME IInv, NEW q \in Requests, End(q)
    PROVE  /\ Idle \in RequestState
           /\ request' = [request EXCEPT ![q] = Idle]
           /\ Idle.note \in {0} \cup DOMAIN notes
           /\ Idle.step \in {"idle", "write_decision", "create_note"}
           /\ Idle.read.signing \in {0} \cup DOMAIN signings
           /\ ~Creates(Idle) /\ ~Issues(Idle)
BY IdleTyped DEF End, Creates, Issues

LEMMA DecisionOK ==
    ASSUME IInv, NEW q \in Requests,
           \/ \E d \in Decision : BeginDecision(q, d)
           \/ WriteDecision(q) \/ BeginPostNote(q) \/ LinkNote(q)
    PROVE  IInv'
<1>1. ASSUME NEW d \in Decision, BeginDecision(q, d) PROVE IInv'
  <2> DEFINE r == [Idle EXCEPT !.step = "write_decision", !.decision = d, !.seen = deal.status]
  <2>1. r \in RequestState /\ r.step = "write_decision" /\ r.note = 0 /\ r.read.signing = 0
        /\ r.decision = d
    BY IdleTyped, RequestTyped DEF RequestState, RequestSteps
  <2>2. (Creates(r) => NotesAdmitted) /\ ~Issues(r)
    BY <1>1, <2>1 DEF Creates, Issues, BeginDecision
  <2>3. request' = [request EXCEPT ![q] = r]
        /\ UNCHANGED <<setting, deal, notes, signings, contract, flow, check, past, faults>>
    BY <1>1 DEF BeginDecision, Elsewhere
  <2>4. made' \in [decisions : 0..setting.decisions, updates : 0..setting.updates,
                   asked : 0..setting.asked]
    BY <1>1, Counter DEF BeginDecision, IInv
  <2> HIDE DEF r
  <2>5. QED
    BY <2>1, <2>2, <2>3, <2>4, RequestTyped, HandlerMoves
<1>2. CASE WriteDecision(q)
  <2>1. /\ deal' \in [status : DealStatus, decision : Decision, note : {0} \cup NoteId,
                      link : {0} \cup SigningId]
        /\ deal'.note = deal.note /\ deal'.link = deal.link
        /\ deal'.status # "FUNDING_REQUESTED"
    BY <1>2, RequestTyped DEF WriteDecision, StatusFor, RequestState, Decision, DealStatus
  <2>2. UNCHANGED <<setting, notes, signings, contract, flow, check, made, past, faults>>
    BY <1>2 DEF WriteDecision, Elsewhere
  <2>3. CASE Go(q, "create_note") /\ request[q].decision = "APPROVED"
    <3>1. Creates(request[q])
      BY <1>2, <2>3 DEF WriteDecision, At, Creates
    <3>2. PICK r \in RequestState :
             /\ request' = [request EXCEPT ![q] = r]
             /\ r.note \in {0} \cup DOMAIN notes
             /\ r.step \notin {"idle", "write_decision", "create_note"} => r.note # 0
             /\ r.read.signing \in {0} \cup DOMAIN signings
             /\ Creates(r) => Creates(request[q]) \/ NotesAdmitted
             /\ Issues(r) => Issues(request[q]) \/ FlowsAdmitted
      BY <2>3, <3>1, GoesOn DEF RequestSteps, Issues
    <3>3. QED
      BY <2>1, <2>2, <3>2, RequestTyped, HandlerMoves
  <2>4. CASE End(q)
    BY <2>1, <2>2, <2>4, Ends, RequestTyped, HandlerMoves
  <2>5. QED
    <3>1. request[q].decision \in Decision
      BY RequestTyped DEF RequestState
    <3>2. StatusFor(request[q].decision) = "AWAITING_AGREEMENT" =>
            request[q].decision = "APPROVED"
      BY <3>1 DEF StatusFor, Decision
    <3>3. QED
      BY <1>2, <2>3, <2>4, <3>2 DEF WriteDecision
<1>3. CASE BeginPostNote(q)
  <2>1. UNCHANGED <<setting, deal, notes, signings, contract, flow, check, made, past, faults>>
    BY <1>3 DEF BeginPostNote, Elsewhere
  <2>2. PICK r \in RequestState :
           /\ request' = [request EXCEPT ![q] = r]
           /\ r.note \in {0} \cup DOMAIN notes
           /\ r.step \notin {"idle", "write_decision", "create_note"} => r.note # 0
           /\ r.read.signing \in {0} \cup DOMAIN signings
           /\ Creates(r) => Creates(request[q]) \/ NotesAdmitted
           /\ Issues(r) => Issues(request[q]) \/ FlowsAdmitted
    BY <1>3, GoesOn DEF BeginPostNote, RequestSteps, Issues
  <2>3. QED
    BY <2>1, <2>2, HandlerGoes
<1>4. CASE LinkNote(q)
  <2>1. UNCHANGED <<setting, notes, signings, contract, flow, check, made, past, faults>>
    BY <1>4 DEF LinkNote, Elsewhere
  <2>2. request[q].note \in NoteId
    BY <1>4, RequestTyped, Sizes DEF LinkNote, At, IInv
  <2>3. /\ deal' \in [status : DealStatus, decision : Decision, note : {0} \cup NoteId,
                      link : {0} \cup SigningId]
        /\ deal'.note = request[q].note /\ deal'.link = deal.link
        /\ deal'.status = deal.status
    BY <1>4, <2>2, RequestTyped DEF LinkNote
  <2>4. End(q)
    BY <1>4 DEF LinkNote
  <2>5. QED
    BY <2>1, <2>3, <2>4, Ends, RequestTyped, HandlerMoves
<1>5. QED
  BY <1>1, <1>2, <1>3, <1>4

LEMMA CreateNoteOK == ASSUME IInv, NEW q \in Requests, CreateNote(q) PROVE IInv'
<1> DEFINE r == [Idle EXCEPT !.step = "link_note", !.note = Len(notes) + 1]
<1>1. /\ request' = [request EXCEPT ![q] = r] /\ notes' = Append(notes, NewNote)
      /\ request[q].step = "create_note"
      /\ UNCHANGED <<setting, deal, signings, contract, flow, check, made, past, faults>>
  BY DEF CreateNote, Elsewhere, At
<1>2. /\ notes \in Seq(Note) /\ Len(notes) \in Nat /\ DOMAIN notes = 1..Len(notes)
      /\ notes' \in Seq(Note) /\ Len(notes') = Len(notes) + 1
      /\ DOMAIN notes' = 1..Len(notes) + 1
      /\ notes'[Len(notes) + 1] = NewNote
      /\ \A n \in DOMAIN notes : notes'[n] = notes[n]
  BY <1>1, IdleTyped, Domains, AppendProperties DEF IInv, TypeOK
<1>3. q \in Creating
  BY <1>1 DEF Creating, Creates
<1>4. Cardinality(Creating) >= 1
  <2>1. Cardinality(Creating) # 0
    BY <1>3, Sizes, FS_EmptySet DEF IInv
  <2>2. QED
    BY <2>1, Sizes DEF IInv
<1>5. Len(notes) + 1 \in NoteId
  <2>1. /\ setting.notes \in 0..MaxNotes /\ MaxNotes \in Nat
        /\ Cardinality(Creating) \in Nat
    BY Sizes DEF IInv
  <2>2. Len(notes) + Cardinality(Creating) <= setting.notes
    BY DEF IInv, Bounded
  <2>3. QED
    BY <1>2, <1>4, <2>1, <2>2 DEF NoteId
<1>6. /\ r \in RequestState /\ r.step = "link_note" /\ r.note = Len(notes) + 1
      /\ r.read.signing = 0
  BY <1>5, IdleTyped DEF RequestState, RequestSteps
<1>7. ~Creates(r) /\ Creates(request[q]) /\ ~Issues(r) /\ ~Issues(request[q])
  BY <1>1, <1>6 DEF Creates, Issues
<1> HIDE DEF r
<1>8. /\ Cardinality(Creating') = Cardinality(Creating) - 1
      /\ Cardinality(Issuing') = Cardinality(Issuing)
  BY <1>1, <1>6, <1>7, RequestCounts DEF IInv
<1>9. /\ Len(notes') + Cardinality(Creating') <= setting.notes
      /\ Len(flow) + Cardinality(Issuing') <= setting.flows
  <2>1. /\ Len(notes) + Cardinality(Creating) <= setting.notes
        /\ Len(flow) + Cardinality(Issuing) <= setting.flows
        /\ Cardinality(Creating) \in Nat
    BY Sizes DEF IInv, Bounded
  <2>2. QED
    BY <1>2, <1>8, <2>1
<1>10. \A n \in DOMAIN notes' : notes'[n].signing \in {0} \cup DOMAIN signings
  <2> TAKE n \in DOMAIN notes'
  <2>1. CASE n = Len(notes) + 1
    BY <1>2, <2>1, IdleTyped
  <2>2. CASE n # Len(notes) + 1
    <3>1. n \in DOMAIN notes
      BY <1>2, <2>2
    <3>2. QED
      BY <1>2, <3>1 DEF IInv, NoteSound
  <2>3. QED
    BY <2>1, <2>2
<1>11. DOMAIN notes \subseteq DOMAIN notes'
  BY <1>2
<1>12. /\ r.note \in {0} \cup DOMAIN notes' /\ r.note # 0
       /\ r.read.signing \in {0} \cup DOMAIN signings
  BY <1>2, <1>6
<1>13. QED
  BY <1>1, <1>2, <1>6, <1>9, <1>10, <1>11, <1>12, RequestTyped, RequestMoves

LEMMA UpdateOK ==
    ASSUME IInv, NEW q \in Requests,
           BeginUpdate(q) \/ ReadNote(q) \/ CheckNote(q) \/ WriteNote(q)
    PROVE  IInv'
<1>1. CASE BeginUpdate(q)
  <2> DEFINE r == [Idle EXCEPT !.step = "read_note", !.note = deal.note]
  <2>1. /\ request' = [request EXCEPT ![q] = r] /\ deal.note # 0
        /\ UNCHANGED <<setting, deal, notes, signings, contract, flow, check, past, faults>>
    BY <1>1 DEF BeginUpdate, Elsewhere
  <2>2. /\ r \in RequestState /\ r.step = "read_note" /\ r.note = deal.note
        /\ r.read.signing = 0
    <3>1. "read_note" \in RequestSteps /\ deal.note \in {0} \cup NoteId
      BY RequestTyped DEF RequestSteps
    <3>2. QED
      BY <3>1, IdleTyped DEF RequestState
  <2>3. ~Creates(r) /\ ~Issues(r)
    BY <2>2 DEF Creates, Issues
  <2>4. made' \in [decisions : 0..setting.decisions, updates : 0..setting.updates,
                   asked : 0..setting.asked]
    BY <1>1, Counter DEF BeginUpdate, IInv
  <2> HIDE DEF r
  <2>5. QED
    BY <2>1, <2>2, <2>3, <2>4, RequestTyped, HandlerMoves
<1>2. CASE ReadNote(q)
  <2> DEFINE r == [request[q] EXCEPT !.step = "check_note", !.read = NoteOf(q)]
  <2>1. /\ request' = [request EXCEPT ![q] = r] /\ request[q].step = "read_note"
        /\ UNCHANGED <<setting, deal, notes, signings, contract, flow, check, made, past, faults>>
    BY <1>2 DEF ReadNote, At, Elsewhere
  <2>2. /\ r \in RequestState /\ r.step = "check_note" /\ r.note = request[q].note
        /\ r.note \in DOMAIN notes /\ r.note # 0
        /\ r.read.signing \in {0} \cup DOMAIN signings
    BY <2>1, RequestTyped DEF RequestState, RequestSteps
  <2>3. ~Creates(r) /\ ~Issues(r)
    BY <2>2 DEF Creates, Issues
  <2> HIDE DEF r
  <2>4. QED
    BY <2>1, <2>2, <2>3, HandlerGoes
<1>3. CASE CheckNote(q)
  <2>1. /\ request[q].step = "check_note" /\ (Go(q, "write_note") \/ End(q))
        /\ UNCHANGED <<setting, deal, notes, signings, contract, flow, check, made, past, faults>>
    BY <1>3 DEF CheckNote, At, Elsewhere
  <2>2. CASE Go(q, "write_note")
    <3>1. request[q].note # 0
      BY <2>1, RequestTyped
    <3>2. PICK r \in RequestState :
             /\ request' = [request EXCEPT ![q] = r]
             /\ r.note \in {0} \cup DOMAIN notes
             /\ r.step \notin {"idle", "write_decision", "create_note"} => r.note # 0
             /\ r.read.signing \in {0} \cup DOMAIN signings
             /\ Creates(r) => Creates(request[q]) \/ NotesAdmitted
             /\ Issues(r) => Issues(request[q]) \/ FlowsAdmitted
      BY <2>2, <3>1, GoesOn DEF RequestSteps, Issues
    <3>3. QED
      BY <2>1, <3>2, HandlerGoes
  <2>3. CASE End(q)
    BY <2>1, <2>3, Ends, HandlerGoes
  <2>4. QED
    BY <2>1, <2>2, <2>3
<1>4. CASE WriteNote(q)
  <2> DEFINE read == request[q].read
  <2>1. PICK c \in Contents :
          SetNote(request[q].note,
             [status |-> read.status, content |-> c,
              issued |-> IF read.issued = NoFile THEN NoteOf(q).issued ELSE read.issued,
              signing |-> IF read.signing = 0 THEN NoteOf(q).signing ELSE read.signing])
    BY <1>4 DEF WriteNote
  <2> DEFINE n == request[q].note
             new == [status |-> read.status, content |-> c,
                     issued |-> IF read.issued = NoFile THEN NoteOf(q).issued ELSE read.issued,
                     signing |-> IF read.signing = 0 THEN NoteOf(q).signing ELSE read.signing]
  <2>2. notes' = [notes EXCEPT ![n] = new]
    BY <2>1 DEF SetNote
  <2>3. request[q].step = "write_note" /\ End(q)
        /\ UNCHANGED <<setting, deal, signings, contract, flow, check, made, past, faults>>
    BY <1>4 DEF WriteNote, At, Elsewhere
  <2>4. /\ n \in DOMAIN notes /\ notes[n] \in Note /\ read \in Note
        /\ notes[n].signing \in {0} \cup DOMAIN signings
        /\ read.signing \in {0} \cup DOMAIN signings
    BY <2>3, RequestTyped DEF NoteOf
  <2>5. new \in Note
    BY <2>4 DEF Note, NoteOf
  <2>6. /\ new.signing \in {0} \cup DOMAIN signings
        /\ notes[n].signing # 0 => new.signing # 0
    BY <2>4 DEF NoteOf
  <2> HIDE DEF new, n
  <2>7. QED
    BY <2>2, <2>3, <2>4, <2>5, <2>6, Ends, RequestTyped, HandlerMoves
<1>5. QED
  BY <1>1, <1>2, <1>3, <1>4

(* Writing the status of the note in hand. *)
LEMMA StatusWritten ==
    ASSUME IInv, NEW q \in Requests, NEW status \in NoteStatus, NEW step \in RequestSteps,
           request[q].step \in {"restore_status", "set_processing"},
           SetNote(request[q].note, [NoteOf(q) EXCEPT !.status = status]), Go(q, step),
           step \in {"ready", "add_flow"},
           UNCHANGED <<deal, made, Elsewhere>>
    PROVE  IInv'
<1> DEFINE n == request[q].note
           new == [notes[n] EXCEPT !.status = status]
<1>1. notes' = [notes EXCEPT ![n] = new]
  BY DEF SetNote, NoteOf
<1>2. /\ n \in DOMAIN notes /\ n # 0 /\ notes[n] \in Note
      /\ notes[n].signing \in {0} \cup DOMAIN signings
  BY RequestTyped DEF NoteOf
<1>3. new \in Note /\ new.signing = notes[n].signing
  BY <1>2 DEF Note
<1>4. Issues(request[q])
  BY DEF Issues
<1>5. PICK r \in RequestState :
         /\ request' = [request EXCEPT ![q] = r]
         /\ r.note \in {0} \cup DOMAIN notes
         /\ r.step \notin {"idle", "write_decision", "create_note"} => r.note # 0
         /\ r.read.signing \in {0} \cup DOMAIN signings
         /\ Creates(r) => Creates(request[q]) \/ NotesAdmitted
         /\ Issues(r) => Issues(request[q]) \/ FlowsAdmitted
  BY <1>2, <1>4, GoesOn
<1>6. UNCHANGED <<setting, deal, signings, contract, flow, check, made, past, faults>>
  BY DEF Elsewhere
<1> HIDE DEF new, n
<1>7. QED
  BY <1>1, <1>2, <1>3, <1>5, <1>6, RequestTyped, HandlerMoves

LEMMA IssueOK ==
    ASSUME IInv, NEW q \in Requests,
           \/ BeginIssue(q) \/ IssuableNote(q) \/ StoreFile(q) \/ RestoreStatus(q)
           \/ ReadyToIssue(q) \/ SetProcessing(q)
    PROVE  IInv'
<1>1. CASE BeginIssue(q)
  <2> DEFINE r == [Idle EXCEPT !.step = "issuable", !.note = deal.note]
  <2>1. /\ request' = [request EXCEPT ![q] = r] /\ deal.note # 0 /\ FlowsAdmitted
        /\ UNCHANGED <<setting, deal, notes, signings, contract, flow, check, made, past, faults>>
    BY <1>1 DEF BeginIssue, Elsewhere
  <2>2. /\ r \in RequestState /\ r.step = "issuable" /\ r.note = deal.note
        /\ r.read.signing = 0
    <3>1. "issuable" \in RequestSteps /\ deal.note \in {0} \cup NoteId
      BY RequestTyped DEF RequestSteps
    <3>2. QED
      BY <3>1, IdleTyped DEF RequestState
  <2>3. ~Creates(r)
    BY <2>2 DEF Creates
  <2> HIDE DEF r
  <2>4. QED
    BY <2>1, <2>2, <2>3, RequestTyped, HandlerGoes
<1>2. CASE IssuableNote(q) \/ ReadyToIssue(q)
  <2>1. PICK step \in {"store_file", "set_processing"} : Go(q, step) \/ End(q)
    BY <1>2 DEF IssuableNote, ReadyToIssue
  <2>2. /\ request[q].step \in {"issuable", "ready"}
        /\ UNCHANGED <<setting, deal, notes, signings, contract, flow, check, made, past, faults>>
    BY <1>2 DEF IssuableNote, ReadyToIssue, At, Elsewhere
  <2>3. CASE Go(q, step)
    <3>1. request[q].note # 0 /\ Issues(request[q]) /\ step \in RequestSteps
      BY <2>2, RequestTyped DEF Issues, RequestSteps
    <3>2. PICK r \in RequestState :
             /\ request' = [request EXCEPT ![q] = r]
             /\ r.note \in {0} \cup DOMAIN notes
             /\ r.step \notin {"idle", "write_decision", "create_note"} => r.note # 0
             /\ r.read.signing \in {0} \cup DOMAIN signings
             /\ Creates(r) => Creates(request[q]) \/ NotesAdmitted
             /\ Issues(r) => Issues(request[q]) \/ FlowsAdmitted
      BY <2>3, <3>1, GoesOn
    <3>3. QED
      BY <2>2, <3>2, HandlerGoes
  <2>4. CASE End(q)
    BY <2>2, <2>4, Ends, HandlerGoes
  <2>5. QED
    BY <2>1, <2>3, <2>4
<1>3. CASE StoreFile(q)
  <2> DEFINE r == [request[q] EXCEPT !.step = "restore_status", !.read = NoteOf(q)]
  <2>1. /\ request' = [request EXCEPT ![q] = r] /\ request[q].step = "store_file"
        /\ UNCHANGED <<setting, deal, notes, signings, contract, flow, check, made, past, faults>>
    BY <1>3 DEF StoreFile, At, Elsewhere
  <2>2. /\ r \in RequestState /\ r.step = "restore_status" /\ r.note = request[q].note
        /\ r.note \in DOMAIN notes /\ r.note # 0
        /\ r.read.signing \in {0} \cup DOMAIN signings
    BY <2>1, RequestTyped DEF RequestState, RequestSteps
  <2>3. ~Creates(r) /\ Issues(request[q])
    BY <2>1, <2>2 DEF Creates, Issues
  <2> HIDE DEF r
  <2>4. QED
    BY <2>1, <2>2, <2>3, HandlerGoes
<1>4. CASE RestoreStatus(q)
  <2>1. request[q].read.status \in NoteStatus /\ "ready" \in RequestSteps
    BY RequestTyped DEF Note, RequestSteps
  <2>2. QED
    BY <1>4, <2>1, StatusWritten DEF RestoreStatus, At
<1>5. CASE SetProcessing(q)
  <2>1. "PROCESSING" \in NoteStatus /\ "add_flow" \in RequestSteps
    BY DEF NoteStatus, RequestSteps
  <2>2. QED
    BY <1>5, <2>1, StatusWritten DEF SetProcessing, At
<1>6. QED
  BY <1>1, <1>2, <1>3, <1>4, <1>5

LEMMA EventOK ==
    ASSUME IInv, NEW q \in Requests,
           RequestFails(q) \/ \E n \in DOMAIN notes : BeginSigningEvent(q, n)
    PROVE  IInv'
<1>1. CASE RequestFails(q)
  <2>1. /\ End(q)
        /\ UNCHANGED <<setting, deal, notes, signings, contract, flow, check, made, past>>
    BY <1>1 DEF RequestFails
  <2>2. faults' \in faults..setting.faults
    <3>1. faults \in Nat /\ setting.faults \in Nat
      BY Sizes DEF IInv
    <3>2. QED
      BY <1>1, <3>1 DEF RequestFails
  <2>3. QED
    BY <2>1, <2>2, Ends, RequestTyped, HandlerMoves
<1>2. ASSUME NEW n \in DOMAIN notes, BeginSigningEvent(q, n) PROVE IInv'
  <2> DEFINE r == [Idle EXCEPT !.step = "add_event", !.note = n]
  <2>1. /\ request' = [request EXCEPT ![q] = r] /\ FlowsAdmitted
        /\ UNCHANGED <<setting, deal, notes, signings, contract, flow, check, past, faults>>
    BY <1>2 DEF BeginSigningEvent, Elsewhere
  <2>2. r \in RequestState /\ r.step = "add_event" /\ r.note = n /\ r.read.signing = 0
    <3>1. "add_event" \in RequestSteps /\ n \in {0} \cup DOMAIN notes
      BY DEF RequestSteps
    <3>2. QED
      BY <3>1, Begins, Zenon
  <2>3. ~Creates(r) /\ n # 0
    BY <2>2, Domains DEF Creates, IInv
  <2>4. made' \in [decisions : 0..setting.decisions, updates : 0..setting.updates,
                   asked : 0..setting.asked]
    BY <1>2, Counter DEF BeginSigningEvent, IInv
  <2> HIDE DEF r
  <2>5. QED
    BY <2>1, <2>2, <2>3, <2>4, RequestTyped, HandlerMoves
<1>3. QED
  BY <1>1, <1>2

(* Adding a flow takes the room its request was admitted with. *)
LEMMA AddOK ==
    ASSUME IInv, NEW q \in Requests, AddFlow(q) \/ AddSigningEvent(q)
    PROVE  /\ IInv'
           /\ \E new \in FlowState :
                /\ flow' = Append(flow, new) /\ new.note = request[q].note
                /\ new.step = "run" /\ new.stage \in {"issue", "off-chain"}
                /\ new.signing = 0 /\ new.contract = 0 /\ new.file = NoFile
                /\ AddFlow(q) => new.stage = "issue"
                /\ past' = IF Underway(new.note)
                           THEN [past EXCEPT !.overlapped = @ \cup {new.note}] ELSE past
<1> DEFINE n == request[q].note
<1>1. request[q].step \in {"add_flow", "add_event"} /\ n \in DOMAIN notes /\ n \in NoteId
  BY RequestTyped, Sizes DEF AddFlow, AddSigningEvent, At, IInv
<1>2. PICK new \in {NewFlow(n), [NewFlow(n) EXCEPT !.stage = "off-chain"]} :
         Add(q, new) /\ (AddFlow(q) => new = NewFlow(n))
  BY DEF AddFlow, AddSigningEvent, At
<1>3. /\ new \in FlowState /\ new.note = n /\ new.step = "run"
      /\ new.stage \in {"issue", "off-chain"} /\ new.signing = 0 /\ new.contract = 0
      /\ new.file = NoFile /\ new.attempts = 0
      /\ AddFlow(q) => new.stage = "issue"
  BY <1>1, <1>2, DealDeskAssumption DEF NewFlow, FlowState, Stages
<1>4. /\ flow' = Append(flow, new) /\ End(q)
      /\ past' = IF Underway(new.note)
                 THEN [past EXCEPT !.overlapped = @ \cup {new.note}] ELSE past
      /\ UNCHANGED <<setting, deal, notes, signings, contract, check, made, faults>>
  BY <1>2 DEF Add
<1> HIDE DEF n
<1>5. /\ Len(flow) \in Nat /\ DOMAIN flow = 1..Len(flow)
      /\ flow' \in Seq(FlowState) /\ Len(flow') = Len(flow) + 1
      /\ DOMAIN flow' = 1..Len(flow) + 1
      /\ flow'[Len(flow) + 1] = new /\ \A f \in DOMAIN flow : flow'[f] = flow[f]
  BY <1>3, <1>4, Domains, AppendProperties DEF IInv, TypeOK
<1>6. Grown
  BY <1>4 DEF Grown, Signed
<1>7. /\ request' \in [Requests -> RequestState]
      /\ request'[q] = Idle /\ \A p \in Requests : p # q => request'[p] = request[p]
      /\ Cardinality(Creating') = Cardinality(Creating)
      /\ Cardinality(Issuing') = Cardinality(Issuing) - 1
      /\ Cardinality(Creating) \in Nat /\ Cardinality(Issuing) \in Nat
  <2>1. ~Creates(request[q]) /\ Issues(request[q])
    BY <1>1 DEF Creates, Issues
  <2>2. Idle \in RequestState /\ request' = [request EXCEPT ![q] = Idle]
        /\ ~Creates(Idle) /\ ~Issues(Idle)
    BY <1>4, Ends
  <2>3. QED
    BY <2>1, <2>2, RequestCounts, Sizes DEF IInv
<1>8. Recorders' = Recorders /\ OnChains' = OnChains
  <2>1. \A f \in DOMAIN flow' : f \notin DOMAIN flow => ~Recorded(f)' /\ ~OnChain(f)'
    BY <1>3, <1>5 DEF Recorded, OnChain
  <2>2. \A f \in DOMAIN flow : f \in DOMAIN flow' /\ (Recorded(f)' <=> Recorded(f))
          /\ (OnChain(f)' <=> OnChain(f))
    BY <1>5 DEF Recorded, OnChain
  <2>3. QED
    BY <2>1, <2>2 DEF Recorders, OnChains
<1>9. Bounded'
  BY <1>4, <1>5, <1>7, <1>8 DEF IInv, Bounded
<1>10. TypeOK'
  <2>1. Len(flow) + Cardinality(Issuing) <= setting.flows /\ setting.flows \in 0..MaxFlows
    BY Sizes DEF IInv, Bounded
  <2>2. Cardinality(Issuing) >= 1
    <3>1. q \in Issuing
      BY <1>1 DEF Issuing, Issues
    <3>2. Cardinality(Issuing) # 0
      BY <3>1, Sizes, FS_EmptySet DEF IInv
    <3>3. QED
      BY <3>2, Sizes DEF IInv
  <2>3. Len(flow') <= MaxFlows
    BY <1>5, <1>7, <2>1, <2>2, DealDeskAssumption
  <2>4. past' \in [overlapped : SUBSET NoteId, asked : SUBSET SigningId]
    BY <1>1, <1>3, <1>4 DEF IInv, TypeOK
  <2>5. QED
    BY <1>4, <1>5, <1>7, <2>3, <2>4 DEF IInv, TypeOK
<1>11. \A f \in DOMAIN flow' : FlowSound(f)'
  <2> TAKE f \in DOMAIN flow'
  <2>1. CASE f \in DOMAIN flow
    BY <1>5, <1>6, <2>1, Framed
  <2>2. CASE f \notin DOMAIN flow
    <3>1. flow'[f] = new
      BY <1>5, <2>2
    <3>2. ~Named(f)' /\ flow'[f].attempts < MaxAttempts
      BY <1>3, <3>1, DealDeskAssumption DEF Named
    <3>3. QED
      BY <1>1, <1>3, <1>4, <3>1, <3>2 DEF FlowSound
  <2>3. QED
    BY <2>1, <2>2
<1>12. /\ \A m \in DOMAIN notes' : NoteSound(m)'
       /\ \A s \in DOMAIN signings' : SigningSound(s)'
  BY <1>4 DEF IInv, NoteSound, SigningSound
<1>13. \A p \in Requests : RequestSound(p)'
  <2> TAKE p \in Requests
  <2>1. CASE p = q
    BY <1>7, <2>1, IdleTyped DEF RequestSound
  <2>2. CASE p # q
    BY <1>6, <1>7, <2>2, Framed
  <2>3. QED
    BY <2>1, <2>2
<1>14. (\A k \in Checkers : CheckSound(k)') /\ DealSound'
  BY <1>4, <1>6, Framed
<1>15. IInv'
  BY <1>9, <1>10, <1>11, <1>12, <1>13, <1>14 DEF IInv
<1>16. QED
  BY <1>3, <1>4, <1>15 DEF n
-----------------------------------------------------------------------------
(* The jobs. *)
LEMMA FlowTyped ==
    ASSUME IInv, NEW f \in DOMAIN flow
    PROVE  /\ flow[f] \in FlowState /\ FlowSound(f)
           /\ flow[f].note \in DOMAIN notes /\ NoteIn(f) \in Note
           /\ NoteIn(f).signing \in {0} \cup DOMAIN signings
           /\ notes \in Seq(Note) /\ signings \in Seq(Signing)
           /\ contract \in Seq([status : ChainStatus, file : Contents])
           /\ \A n \in DOMAIN notes : NoteSound(n)
           /\ \A s \in DOMAIN signings : SigningSound(s)
           /\ faults \in 0..setting.faults /\ setting.faults \in Nat
           /\ Len(signings) <= Cardinality(Recorders) + faults
           /\ Len(contract) <= Cardinality(OnChains) + faults
           /\ Len(signings) \in Nat /\ Len(contract) \in Nat
           /\ Cardinality(Recorders) \in Nat /\ Cardinality(OnChains) \in Nat
<1>1. flow[f] \in FlowState /\ FlowSound(f) /\ flow[f].note \in DOMAIN notes
  BY Domains DEF IInv, FlowSound
<1>2. /\ NoteIn(f) \in Note
      /\ NoteIn(f).signing \in {0} \cup DOMAIN signings
  BY <1>1, Domains DEF IInv, NoteSound, NoteIn
<1>3. /\ notes \in Seq(Note) /\ signings \in Seq(Signing)
      /\ contract \in Seq([status : ChainStatus, file : Contents])
  BY DEF IInv, TypeOK
<1>4. /\ \A n \in DOMAIN notes : NoteSound(n)
      /\ \A s \in DOMAIN signings : SigningSound(s)
      /\ Len(signings) <= Cardinality(Recorders) + faults
      /\ Len(contract) <= Cardinality(OnChains) + faults
  BY DEF IInv, Bounded
<1>5. /\ faults \in 0..setting.faults /\ setting.faults \in Nat
      /\ Len(signings) \in Nat /\ Len(contract) \in Nat
      /\ Cardinality(Recorders) \in Nat /\ Cardinality(OnChains) \in Nat
  BY Sizes, Domains DEF IInv
<1>6. QED
  BY <1>1, <1>2, <1>3, <1>4, <1>5

(* A job that is attempted again or given up does not count what it has    *)
(* created in this stage any more.                                         *)
LEMMA Backs ==
    ASSUME IInv, NEW f \in DOMAIN flow, NEW g \in FlowState, flow' = [flow EXCEPT ![f] = g],
           g.note = flow[f].note, g.stage = flow[f].stage, g.signing = flow[f].signing,
           g.contract = flow[f].contract, g.step \in {"run", "failed"},
           g.step = "run" => g.attempts < MaxAttempts,
           \/ faults < setting.faults /\ faults' = faults + 1
           \/ flow[f].step = "run" /\ faults' = faults,
           UNCHANGED <<setting, deal, notes, signings, contract, request, check, made, past>>
    PROVE  IInv'
<1>1. /\ flow'[f] = g
      /\ (Recorded(f)' <=> Recorded(f)) => Cardinality(Recorders') = Cardinality(Recorders)
      /\ (~Recorded(f)' /\ Recorded(f)) =>
            Cardinality(Recorders') = Cardinality(Recorders) - 1
      /\ (OnChain(f)' <=> OnChain(f)) => Cardinality(OnChains') = Cardinality(OnChains)
      /\ (~OnChain(f)' /\ OnChain(f)) => Cardinality(OnChains') = Cardinality(OnChains) - 1
  BY FlowCounts DEF IInv
<1>2. FlowSound(f)'
  <2>1. FlowSound(f)
    BY FlowTyped
  <2>2. Named(f)' => Named(f)
    BY <1>1 DEF Named
  <2>3. Running(f)' => g.attempts < MaxAttempts
    BY <1>1 DEF Running
  <2>4. QED
    BY <1>1, <2>1, <2>2, <2>3 DEF FlowSound
<1>3. Grown
  BY DEF Grown, Signed
<1>4. (Recorded(f)' => Recorded(f)) /\ (OnChain(f)' => OnChain(f))
  BY <1>1 DEF Recorded, OnChain
<1>5. faults' \in 0..setting.faults /\ faults' \in {faults, faults + 1}
  BY FlowTyped
<1>6. flow[f].step = "run" => (Recorded(f)' <=> Recorded(f)) /\ (OnChain(f)' <=> OnChain(f))
  BY <1>1 DEF Recorded, OnChain
<1>7. Len(signings') <= Cardinality(Recorders') + faults'
  <2>1. Len(signings) <= Cardinality(Recorders) + faults /\ Len(signings) \in Nat
        /\ Cardinality(Recorders) \in Nat /\ faults \in Nat
    BY FlowTyped
  <2>2. CASE Recorded(f)' <=> Recorded(f)
    BY <1>1, <1>5, <2>1, <2>2
  <2>3. CASE ~Recorded(f)' /\ Recorded(f)
    BY <1>1, <1>6, <2>1, <2>3
  <2>4. QED
    BY <1>4, <2>2, <2>3
<1>8. Len(contract') <= Cardinality(OnChains') + faults'
  <2>1. Len(contract) <= Cardinality(OnChains) + faults /\ Len(contract) \in Nat
        /\ Cardinality(OnChains) \in Nat /\ faults \in Nat
    BY FlowTyped
  <2>2. CASE OnChain(f)' <=> OnChain(f)
    BY <1>1, <1>5, <2>1, <2>2
  <2>3. CASE ~OnChain(f)' /\ OnChain(f)
    BY <1>1, <1>6, <2>1, <2>3
  <2>4. QED
    BY <1>4, <2>2, <2>3
<1>9. /\ notes' \in Seq(Note) /\ Len(notes') = Len(notes)
      /\ signings' \in Seq(Signing)
      /\ contract' \in Seq([status : ChainStatus, file : Contents])
      /\ \A n \in DOMAIN notes' : NoteSound(n)'
      /\ \A s \in DOMAIN signings' : SigningSound(s)'
  BY FlowTyped DEF NoteSound, SigningSound
<1>10. QED
  BY <1>2, <1>3, <1>5, <1>7, <1>8, <1>9, FlowMoves

LEMMA Thrown ==
    ASSUME IInv, NEW f \in DOMAIN flow, Running(f), Throw(f)
    PROVE  \E g \in FlowState :
             /\ flow' = [flow EXCEPT ![f] = g]
             /\ g.note = flow[f].note /\ g.stage = flow[f].stage
             /\ g.signing = flow[f].signing /\ g.contract = flow[f].contract
             /\ g.step \in {"run", "failed"} /\ (g.step = "run" => g.attempts < MaxAttempts)
<1> DEFINE g == [flow[f] EXCEPT
                   !.attempts = flow[f].attempts + 1,
                   !.step = IF flow[f].attempts + 1 < MaxAttempts THEN "run" ELSE "failed"]
<1>1. flow' = [flow EXCEPT ![f] = g]
  BY FlowTyped DEF Throw
<1>2. flow[f] \in FlowState /\ flow[f].attempts < MaxAttempts
  BY FlowTyped DEF FlowSound
<1>3. flow[f].attempts + 1 \in 0..MaxAttempts
  BY <1>2, DealDeskAssumption DEF FlowState
<1>4. g \in FlowState /\ g.attempts = flow[f].attempts + 1
  BY <1>2, <1>3 DEF FlowState
<1>5. g.note = flow[f].note /\ g.stage = flow[f].stage
      /\ g.signing = flow[f].signing /\ g.contract = flow[f].contract
      /\ g.step \in {"run", "failed"}
      /\ (g.step = "run" => flow[f].attempts + 1 < MaxAttempts)
  BY <1>2 DEF FlowState
<1>6. QED
  BY <1>1, <1>4, <1>5

LEMMA FaultOK ==
    ASSUME IInv, NEW f \in DOMAIN flow, OperationFails(f) \/ ProcessDies(f)
    PROVE  IInv'
<1>1. CASE OperationFails(f)
  <2>1. PICK g \in FlowState :
           /\ flow' = [flow EXCEPT ![f] = g]
           /\ g.note = flow[f].note /\ g.stage = flow[f].stage
           /\ g.signing = flow[f].signing /\ g.contract = flow[f].contract
           /\ g.step \in {"run", "failed"} /\ (g.step = "run" => g.attempts < MaxAttempts)
    BY <1>1, Thrown DEF OperationFails
  <2>2. QED
    BY <1>1, <2>1, Backs DEF OperationFails
<1>2. CASE ProcessDies(f)
  <2>1. flow[f] \in FlowState /\ flow[f].attempts < MaxAttempts /\ MaxStalledCount \in Nat
    BY <1>2, FlowTyped, DealDeskAssumption DEF FlowSound, ProcessDies
  <2>2. CASE flow[f].stalls < MaxStalledCount
    <3> DEFINE g == [flow[f] EXCEPT !.step = "run", !.stalls = flow[f].stalls + 1]
    <3>1. flow' = [flow EXCEPT ![f] = g]
      BY <1>2, <2>2 DEF ProcessDies
    <3>2. flow[f].stalls + 1 \in 0..MaxStalledCount
      BY <2>1, <2>2 DEF FlowState
    <3>3. g \in FlowState /\ g.attempts = flow[f].attempts /\ g.step = "run"
          /\ g.note = flow[f].note /\ g.stage = flow[f].stage
          /\ g.signing = flow[f].signing /\ g.contract = flow[f].contract
      BY <2>1, <3>2 DEF FlowState
    <3> HIDE DEF g
    <3>4. QED
      BY <1>2, <2>1, <3>1, <3>3, Backs DEF ProcessDies
  <2>3. CASE ~(flow[f].stalls < MaxStalledCount)
    <3> DEFINE g == [flow[f] EXCEPT !.step = "failed"]
    <3>1. flow' = [flow EXCEPT ![f] = g]
      BY <1>2, <2>3 DEF ProcessDies
    <3>2. g \in FlowState /\ g.step = "failed"
          /\ g.note = flow[f].note /\ g.stage = flow[f].stage
          /\ g.signing = flow[f].signing /\ g.contract = flow[f].contract
      BY <2>1 DEF FlowState
    <3> HIDE DEF g
    <3>3. QED
      BY <1>2, <3>1, <3>2, Backs DEF ProcessDies
  <2>4. QED
    BY <2>2, <2>3
<1>3. QED
  BY <1>1, <1>2

LEMMA NoteSet ==
    ASSUME IInv, NEW n \in DOMAIN notes, NEW new \in Note,
           new.signing \in {0} \cup DOMAIN signings,
           notes[n].signing # 0 => new.signing # 0,
           SetNote(n, new), UNCHANGED <<signings, contract>>
    PROVE  /\ notes' \in Seq(Note) /\ Len(notes') = Len(notes)
           /\ DOMAIN notes' = DOMAIN notes
           /\ notes'[n] = new /\ \A m \in DOMAIN notes : m # n => notes'[m] = notes[m]
           /\ \A m \in DOMAIN notes' : NoteSound(m)'
           /\ \A s \in DOMAIN signings' : SigningSound(s)'
           /\ Grown
<1>1. /\ notes' \in Seq(Note) /\ Len(notes') = Len(notes)
      /\ DOMAIN notes' = DOMAIN notes
      /\ notes'[n] = new /\ \A m \in DOMAIN notes : m # n => notes'[m] = notes[m]
  BY Domains DEF IInv, TypeOK, SetNote
<1>2. \A m \in DOMAIN notes' : NoteSound(m)'
  <2> TAKE m \in DOMAIN notes'
  <2>1. NoteSound(m)
    BY <1>1 DEF IInv
  <2>2. QED
    BY <1>1, <2>1 DEF NoteSound
<1>3. \A s \in DOMAIN signings' : SigningSound(s)'
  BY <1>1 DEF IInv, SigningSound
<1>4. Grown
  BY <1>1 DEF Grown, Signed
<1>5. QED
  BY <1>1, <1>2, <1>3, <1>4

LEMMA SigningSet ==
    ASSUME IInv, NEW s \in DOMAIN signings, NEW new \in Signing,
           new.note = signings[s].note, new.contract \in {0} \cup DOMAIN contract,
           signings[s].contract # 0 => new.contract # 0,
           signings' = [signings EXCEPT ![s] = new], UNCHANGED <<notes, contract>>
    PROVE  /\ signings' \in Seq(Signing) /\ Len(signings') = Len(signings)
           /\ DOMAIN signings' = DOMAIN signings
           /\ signings'[s] = new
           /\ \A t \in DOMAIN signings : t # s => signings'[t] = signings[t]
           /\ \A n \in DOMAIN notes' : NoteSound(n)'
           /\ \A t \in DOMAIN signings' : SigningSound(t)'
           /\ Grown
<1>1. /\ signings' \in Seq(Signing) /\ Len(signings') = Len(signings)
      /\ DOMAIN signings' = DOMAIN signings
      /\ signings'[s] = new
      /\ \A t \in DOMAIN signings : t # s => signings'[t] = signings[t]
  BY Domains DEF IInv, TypeOK
<1>2. \A n \in DOMAIN notes' : NoteSound(n)'
  BY <1>1 DEF IInv, NoteSound
<1>3. \A t \in DOMAIN signings' : SigningSound(t)'
  <2> TAKE t \in DOMAIN signings'
  <2>1. SigningSound(s) /\ SigningSound(t)
    BY <1>1 DEF IInv
  <2>2. QED
    BY <1>1, <2>1 DEF SigningSound
<1>4. Grown
  BY <1>1 DEF Grown, Signed
<1>5. QED
  BY <1>1, <1>2, <1>3, <1>4

(* A step of a job that does not begin or end what is counted. *)
LEMMA SameCounts ==
    ASSUME IInv, NEW f \in DOMAIN flow, NEW g \in FlowState, flow' = [flow EXCEPT ![f] = g],
           Recorded(f)' <=> Recorded(f), OnChain(f)' <=> OnChain(f),
           Len(signings') = Len(signings), Len(contract') = Len(contract), faults' = faults
    PROVE  /\ Len(signings') <= Cardinality(Recorders') + faults'
           /\ Len(contract') <= Cardinality(OnChains') + faults'
           /\ faults' \in 0..setting.faults
<1>1. /\ Cardinality(Recorders') = Cardinality(Recorders)
      /\ Cardinality(OnChains') = Cardinality(OnChains)
  BY FlowCounts DEF IInv
<1>2. QED
  BY <1>1, FlowTyped

LEMMA NoteJobOK ==
    ASSUME IInv, NEW f \in DOMAIN flow, IssueNote(f) \/ NameRecord(f) PROVE IInv'
<1> DEFINE n == flow[f].note
           g == [flow[f] EXCEPT !.step = "return"]
<1>1. /\ flow' = [flow EXCEPT ![f] = g]
      /\ \/ flow[f].stage = "issue" /\ flow[f].step = "run"
         \/ flow[f].stage = "off-chain" /\ flow[f].step = "name_record" /\ flow[f].signing # 0
      /\ UNCHANGED <<setting, deal, signings, contract, request, check, made, past, faults>>
  BY FlowTyped DEF IssueNote, NameRecord, Does, Aside, FlowSound
<1>2. PICK new \in Note :
        /\ SetNote(n, new) /\ new.signing \in {0} \cup DOMAIN signings
        /\ notes[n].signing # 0 => new.signing # 0
        /\ flow[f].stage = "off-chain" => new.signing # 0
  <2>1. CASE IssueNote(f)
    <3> DEFINE new == [NoteIn(f) EXCEPT !.status = "ISSUED", !.issued = NoteIn(f).content]
    <3>1. NoteIn(f) \in Note /\ NoteIn(f).signing \in {0} \cup DOMAIN signings
      BY FlowTyped
    <3>2. new \in Note /\ new.signing = NoteIn(f).signing
      BY <3>1 DEF Note, NoteStatus
    <3>3. SetNote(n, new) /\ flow[f].stage = "issue"
      BY <2>1 DEF IssueNote, Does
    <3> HIDE DEF new
    <3>4. QED
      BY <3>1, <3>2, <3>3 DEF NoteIn
  <2>2. CASE NameRecord(f)
    <3> DEFINE new == [NoteIn(f) EXCEPT !.signing = flow[f].signing]
    <3>1. NoteIn(f) \in Note /\ flow[f].signing # 0 /\ flow[f].signing \in DOMAIN signings
          /\ flow[f].signing \in SigningId
      BY <2>2, FlowTyped, Sizes DEF NameRecord, FlowSound, IInv
    <3>2. new \in Note /\ new.signing = flow[f].signing
      BY <3>1 DEF Note
    <3>3. SetNote(n, new)
      BY <2>2 DEF NameRecord
    <3> HIDE DEF new
    <3>4. QED
      BY <3>1, <3>2, <3>3
  <2>3. QED
    BY <2>1, <2>2
<1>3. n \in DOMAIN notes /\ flow[f] \in FlowState /\ FlowSound(f)
  BY FlowTyped
<1>4. /\ notes' \in Seq(Note) /\ Len(notes') = Len(notes)
      /\ DOMAIN notes' = DOMAIN notes /\ notes'[n] = new
      /\ \A m \in DOMAIN notes' : NoteSound(m)'
      /\ \A s \in DOMAIN signings' : SigningSound(s)'
      /\ Grown
  BY <1>1, <1>2, <1>3, NoteSet
<1>5. g \in FlowState /\ flow'[f] = g /\ g.note = n /\ g.stage = flow[f].stage
      /\ g.step = "return" /\ g.signing = flow[f].signing /\ g.contract = flow[f].contract
      /\ g.attempts = flow[f].attempts
  BY <1>1, <1>3 DEF FlowState
<1> HIDE DEF g
<1>6. FlowSound(f)'
  <2>1. Running(f)' => flow'[f].attempts < MaxAttempts
    BY <1>1, <1>3, <1>5 DEF FlowSound, Running
  <2>2. Named(f)' => notes'[flow'[f].note].signing # 0
    BY <1>1, <1>2, <1>4, <1>5 DEF Named
  <2>3. QED
    BY <1>1, <1>3, <1>4, <1>5, <2>1, <2>2 DEF FlowSound
<1>7. (Recorded(f)' <=> Recorded(f)) /\ (OnChain(f)' <=> OnChain(f))
  BY <1>1, <1>5 DEF Recorded, OnChain
<1>8. /\ signings' \in Seq(Signing)
      /\ contract' \in Seq([status : ChainStatus, file : Contents])
  BY <1>1, FlowTyped
<1>9. /\ Len(signings') <= Cardinality(Recorders') + faults'
      /\ Len(contract') <= Cardinality(OnChains') + faults'
      /\ faults' \in 0..setting.faults
  BY <1>1, <1>5, <1>7, SameCounts
<1>10. QED
  BY <1>1, <1>4, <1>5, <1>6, <1>8, <1>9, FlowMoves

(* A job creates a signing record or a document on chain. *)
LEMMA CreateOK ==
    ASSUME IInv, NEW f \in DOMAIN flow, CreateRecord(f) \/ CreateOnChain(f) PROVE IInv'
<1>1. CASE CreateRecord(f)
  <2> DEFINE s == Len(signings) + 1
             g == [flow[f] EXCEPT !.signing = s, !.step = "name_record"]
             new == [status |-> "PENDING", contract |-> 0, note |-> flow[f].note]
  <2>1. /\ flow[f].stage = "off-chain" /\ flow[f].step = "run"
        /\ signings' = Append(signings, new)
        /\ flow' = [flow EXCEPT ![f] = g]
        /\ UNCHANGED <<setting, deal, notes, contract, request, check, made, past, faults>>
    BY <1>1 DEF CreateRecord, Does, Aside
  <2>2. /\ flow[f] \in FlowState /\ FlowSound(f) /\ flow[f].note \in DOMAIN notes
        /\ flow[f].note \in NoteId
    BY FlowTyped, Sizes DEF IInv
  <2>3. new \in Signing /\ new.note = flow[f].note /\ new.contract = 0
    BY <2>2 DEF Signing, SigningStatus
  <2> HIDE DEF new
  <2>4. /\ Len(signings) \in Nat /\ DOMAIN signings = 1..Len(signings)
        /\ signings' \in Seq(Signing) /\ Len(signings') = s /\ DOMAIN signings' = 1..s
        /\ signings'[s] = new /\ \A t \in DOMAIN signings : signings'[t] = signings[t]
    BY <2>1, <2>3, Domains, AppendProperties DEF IInv, TypeOK
  <2>5. Cardinality(Recorders) < MaxFlows
    <3>1. Recorders \subseteq 1..Len(flow) /\ f \notin Recorders /\ f \in 1..Len(flow)
          /\ Len(flow) \in Nat /\ Len(flow) <= MaxFlows
      BY <2>1, Domains DEF Recorders, Recorded, IInv, TypeOK
    <3>2. Cardinality(Recorders \cup {f}) = Cardinality(Recorders) + 1
      BY <3>1, Sizes, FS_AddElement DEF IInv
    <3>3. Cardinality(Recorders \cup {f}) \in 0..Len(flow)
      BY <3>1, SubsetCount
    <3>4. QED
      BY <3>1, <3>2, <3>3, Sizes DEF IInv
  <2>6. s \in SigningId
    <3>1. /\ Len(signings) <= Cardinality(Recorders) + faults /\ Len(signings) \in Nat
          /\ Cardinality(Recorders) \in Nat
      BY FlowTyped
    <3>2. faults \in Nat /\ faults <= MaxFaults /\ MaxFaults \in Nat /\ MaxFlows \in Nat
      BY Sizes DEF IInv
    <3>3. QED
      BY <2>5, <3>1, <3>2 DEF SigningId
  <2>7. g \in FlowState /\ g.note = flow[f].note /\ g.stage = "off-chain"
        /\ g.step = "name_record" /\ g.signing = s /\ g.contract = flow[f].contract
        /\ g.attempts = flow[f].attempts
    BY <2>1, <2>2, <2>6 DEF FlowState
  <2> HIDE DEF g
  <2>8. flow'[f] = g
    BY <2>1, <2>7, FlowCounts DEF IInv
  <2>9. Grown
    BY <2>1, <2>4 DEF Grown, Signed
  <2>10. FlowSound(f)'
    <3>1. Running(f) /\ ~Named(f)'
      BY <2>1, <2>7, <2>8 DEF Running, Named
    <3>2. QED
      BY <2>1, <2>2, <2>4, <2>7, <2>8, <3>1 DEF FlowSound
  <2>11. \A t \in DOMAIN signings' : SigningSound(t)'
    <3> TAKE t \in DOMAIN signings'
    <3>1. CASE t = s
      BY <2>1, <2>2, <2>3, <2>4, <3>1 DEF SigningSound
    <3>2. CASE t # s
      <4>1. t \in DOMAIN signings
        BY <2>4, <3>2
      <4>2. QED
        BY <2>1, <2>4, <4>1 DEF IInv, SigningSound
    <3>3. QED
      BY <3>1, <3>2
  <2>12. \A n \in DOMAIN notes' : NoteSound(n)'
    BY <2>1, <2>4 DEF IInv, NoteSound
  <2>13. /\ Len(signings') <= Cardinality(Recorders') + faults'
         /\ Len(contract') <= Cardinality(OnChains') + faults'
    <3>1. ~Recorded(f) /\ Recorded(f)' /\ ~OnChain(f) /\ ~OnChain(f)'
      BY <2>1, <2>7, <2>8 DEF Recorded, OnChain
    <3>2. /\ Cardinality(Recorders') = Cardinality(Recorders) + 1
          /\ Cardinality(OnChains') = Cardinality(OnChains)
      BY <2>1, <2>7, <3>1, FlowCounts DEF IInv
    <3>3. QED
      BY <2>1, <2>4, <3>2, FlowTyped
  <2>14. /\ notes' \in Seq(Note) /\ Len(notes') = Len(notes)
         /\ contract' \in Seq([status : ChainStatus, file : Contents])
         /\ faults' \in 0..setting.faults
    BY <2>1, FlowTyped
  <2>15. QED
    BY <2>1, <2>4, <2>7, <2>9, <2>10, <2>11, <2>12, <2>13, <2>14, FlowMoves
<1>2. CASE CreateOnChain(f)
  <2> DEFINE c == Len(contract) + 1
             g == [flow[f] EXCEPT !.contract = c, !.step = "save_contract"]
             new == [status |-> "PENDING", file |-> flow[f].file]
  <2>1. /\ flow[f].step = "create_on_chain"
        /\ contract' = Append(contract, new)
        /\ flow' = [flow EXCEPT ![f] = g]
        /\ UNCHANGED <<setting, deal, notes, signings, request, check, made, past, faults>>
    BY <1>2 DEF CreateOnChain, Aside
  <2>2. /\ flow[f] \in FlowState /\ FlowSound(f) /\ flow[f].stage = "on-chain"
        /\ flow[f].signing # 0 /\ flow[f].file # NoFile /\ flow[f].file \in Contents
    BY <2>1, FlowTyped DEF FlowSound, FlowState
  <2>3. new \in [status : ChainStatus, file : Contents]
    BY <2>2 DEF ChainStatus
  <2> HIDE DEF new
  <2>4. /\ Len(contract) \in Nat /\ DOMAIN contract = 1..Len(contract)
        /\ contract' \in Seq([status : ChainStatus, file : Contents])
        /\ Len(contract') = c /\ DOMAIN contract' = 1..c
        /\ \A t \in DOMAIN contract : contract'[t] = contract[t]
    BY <2>1, <2>3, Domains, AppendProperties DEF IInv, TypeOK
  <2>5. Cardinality(OnChains) < MaxFlows
    <3>1. OnChains \subseteq 1..Len(flow) /\ f \notin OnChains /\ f \in 1..Len(flow)
          /\ Len(flow) \in Nat /\ Len(flow) <= MaxFlows
      BY <2>1, <2>2, Domains DEF OnChains, OnChain, IInv, TypeOK
    <3>2. Cardinality(OnChains \cup {f}) = Cardinality(OnChains) + 1
      BY <3>1, Sizes, FS_AddElement DEF IInv
    <3>3. Cardinality(OnChains \cup {f}) \in 0..Len(flow)
      BY <3>1, SubsetCount
    <3>4. QED
      BY <3>1, <3>2, <3>3, Sizes DEF IInv
  <2>6. c \in SigningId
    <3>1. /\ Len(contract) <= Cardinality(OnChains) + faults /\ Len(contract) \in Nat
          /\ Cardinality(OnChains) \in Nat
      BY FlowTyped
    <3>2. faults \in Nat /\ faults <= MaxFaults /\ MaxFaults \in Nat /\ MaxFlows \in Nat
      BY Sizes DEF IInv
    <3>3. QED
      BY <2>5, <3>1, <3>2 DEF SigningId
  <2>7. g \in FlowState /\ g.note = flow[f].note /\ g.stage = "on-chain"
        /\ g.step = "save_contract" /\ g.signing = flow[f].signing /\ g.contract = c
        /\ g.attempts = flow[f].attempts
    BY <2>2, <2>6 DEF FlowState
  <2> HIDE DEF g
  <2>8. flow'[f] = g
    BY <2>1, <2>7, FlowCounts DEF IInv
  <2>9. Grown
    <3>1. Signed => Signed'
      BY <2>4 DEF Signed
    <3>2. QED
      BY <2>1, <2>4, <3>1 DEF Grown
  <2>10. FlowSound(f)'
    <3>1. Running(f) /\ Named(f)
      BY <2>1, <2>2 DEF Running, Named
    <3>2. QED
      BY <2>1, <2>2, <2>4, <2>7, <2>8, <3>1 DEF FlowSound
  <2>11. \A t \in DOMAIN signings' : SigningSound(t)'
    BY <2>1, <2>4 DEF IInv, SigningSound
  <2>12. \A n \in DOMAIN notes' : NoteSound(n)'
    BY <2>1 DEF IInv, NoteSound
  <2>13. /\ Len(signings') <= Cardinality(Recorders') + faults'
         /\ Len(contract') <= Cardinality(OnChains') + faults'
    <3>1. Recorded(f) /\ Recorded(f)' /\ ~OnChain(f) /\ OnChain(f)'
      BY <2>1, <2>2, <2>7, <2>8 DEF Recorded, OnChain
    <3>2. /\ Cardinality(Recorders') = Cardinality(Recorders)
          /\ Cardinality(OnChains') = Cardinality(OnChains) + 1
      BY <2>1, <2>7, <3>1, FlowCounts DEF IInv
    <3>3. QED
      BY <2>1, <2>4, <3>2, FlowTyped
  <2>14. /\ notes' \in Seq(Note) /\ Len(notes') = Len(notes)
         /\ signings' \in Seq(Signing)
         /\ faults' \in 0..setting.faults
    BY <2>1, FlowTyped
  <2>15. QED
    BY <2>1, <2>4, <2>7, <2>9, <2>10, <2>11, <2>12, <2>13, <2>14, FlowMoves
<1>3. QED
  BY <1>1, <1>2

(* A job reads what it works with, or throws. *)
LEMMA ReadOK ==
    ASSUME IInv, NEW f \in DOMAIN flow, ReadIssued(f) \/ ReadNamed(f) PROVE IInv'
<1>1. /\ flow[f].step = "run" /\ flow[f].stage \in {"on-chain", "finalise"}
      /\ UNCHANGED <<setting, deal, notes, signings, contract, request, check, made, past, faults>>
  BY DEF ReadIssued, ReadNamed, Does, Aside
<1>2. CASE Throw(f)
  <2>1. PICK g \in FlowState :
           /\ flow' = [flow EXCEPT ![f] = g]
           /\ g.note = flow[f].note /\ g.stage = flow[f].stage
           /\ g.signing = flow[f].signing /\ g.contract = flow[f].contract
           /\ g.step \in {"run", "failed"} /\ (g.step = "run" => g.attempts < MaxAttempts)
    BY <1>1, <1>2, Thrown DEF Running
  <2>2. QED
    BY <1>1, <2>1, Backs
<1>3. ASSUME NEW g \in FlowState, flow' = [flow EXCEPT ![f] = g],
             g.note = flow[f].note, g.stage = flow[f].stage,
             g.contract = flow[f].contract, g.attempts = flow[f].attempts,
             g.signing = NoteIn(f).signing,
             \/ g.stage = "on-chain" /\ g.step = "create_on_chain" /\ g.file # NoFile
             \/ g.stage = "finalise" /\ g.step = "set_ready"
      PROVE  IInv'
  <2>1. /\ flow[f] \in FlowState /\ FlowSound(f) /\ NoteIn(f).signing # 0
        /\ NoteIn(f).signing \in DOMAIN signings
    BY <1>1, FlowTyped DEF FlowSound, Named, NoteIn
  <2>2. flow'[f] = g
    BY <1>3, FlowCounts DEF IInv
  <2>3. Grown
    BY <1>1 DEF Grown, Signed
  <2>4. FlowSound(f)'
    <3>1. Running(f) /\ Named(f)
      BY <1>1 DEF Running, Named
    <3>2. QED
      BY <1>1, <1>3, <2>1, <2>2, <3>1 DEF FlowSound
  <2>5. (Recorded(f)' <=> Recorded(f)) /\ (OnChain(f)' <=> OnChain(f))
    BY <1>1, <1>3, <2>2 DEF Recorded, OnChain
  <2>6. /\ Len(signings') <= Cardinality(Recorders') + faults'
        /\ Len(contract') <= Cardinality(OnChains') + faults'
        /\ faults' \in 0..setting.faults
    BY <1>1, <1>3, <2>5, SameCounts
  <2>7. /\ notes' \in Seq(Note) /\ Len(notes') = Len(notes)
        /\ signings' \in Seq(Signing)
        /\ contract' \in Seq([status : ChainStatus, file : Contents])
        /\ \A n \in DOMAIN notes' : NoteSound(n)'
        /\ \A s \in DOMAIN signings' : SigningSound(s)'
    BY <1>1, FlowTyped DEF NoteSound, SigningSound
  <2>8. QED
    BY <1>1, <1>3, <2>3, <2>4, <2>6, <2>7, FlowMoves
<1>4. CASE ReadIssued(f) /\ ~Throw(f)
  <2> DEFINE g == [flow[f] EXCEPT !.signing = NoteIn(f).signing, !.file = NoteIn(f).issued,
                                  !.step = "create_on_chain"]
  <2>1. flow' = [flow EXCEPT ![f] = g] /\ NoteIn(f).issued # NoFile /\ flow[f].stage = "on-chain"
    BY <1>4 DEF ReadIssued, Does
  <2>2. flow[f] \in FlowState /\ NoteIn(f) \in Note
    BY FlowTyped
  <2>3. /\ g \in FlowState /\ g.note = flow[f].note /\ g.stage = flow[f].stage
        /\ g.contract = flow[f].contract /\ g.attempts = flow[f].attempts
        /\ g.signing = NoteIn(f).signing /\ g.step = "create_on_chain" /\ g.file # NoFile
    BY <2>1, <2>2 DEF FlowState, Note
  <2> HIDE DEF g
  <2>4. QED
    BY <1>3, <2>1, <2>3
<1>5. CASE ReadNamed(f) /\ ~Throw(f)
  <2> DEFINE g == [flow[f] EXCEPT !.signing = NoteIn(f).signing, !.step = "set_ready"]
  <2>1. flow' = [flow EXCEPT ![f] = g] /\ flow[f].stage = "finalise"
    BY <1>5 DEF ReadNamed, Does
  <2>2. flow[f] \in FlowState /\ NoteIn(f) \in Note
    BY FlowTyped
  <2>3. /\ g \in FlowState /\ g.note = flow[f].note /\ g.stage = flow[f].stage
        /\ g.contract = flow[f].contract /\ g.attempts = flow[f].attempts
        /\ g.signing = NoteIn(f).signing /\ g.step = "set_ready"
    BY <2>1, <2>2 DEF FlowState, Note
  <2> HIDE DEF g
  <2>4. QED
    BY <1>3, <2>1, <2>3
<1>6. QED
  BY <1>2, <1>4, <1>5

(* A job writes its signing record. *)
LEMMA SigningJobOK ==
    ASSUME IInv, NEW f \in DOMAIN flow, SaveContract(f) \/ SetReady(f)
    PROVE  /\ IInv'
           /\ flow[f].signing \in DOMAIN signings
           /\ DOMAIN signings' = DOMAIN signings
           /\ \A t \in DOMAIN signings : t # flow[f].signing => signings'[t] = signings[t]
           /\ SaveContract(f) =>
                 signings'[flow[f].signing] =
                    [signings[flow[f].signing] EXCEPT !.contract = flow[f].contract]
           /\ SetReady(f) =>
                 signings'[flow[f].signing] =
                    [signings[flow[f].signing] EXCEPT !.status = "IN_PROGRESS"]
<1> DEFINE s == flow[f].signing
           g == [flow[f] EXCEPT !.step = "return"]
<1>1. /\ flow[f].step \in {"save_contract", "set_ready"}
      /\ flow' = [flow EXCEPT ![f] = g]
      /\ UNCHANGED <<setting, deal, notes, contract, request, check, made, past, faults>>
  BY DEF SaveContract, SetReady, Aside
<1>2. /\ flow[f] \in FlowState /\ FlowSound(f) /\ s \in DOMAIN signings
      /\ signings[s] \in Signing /\ SigningSound(s)
      /\ flow[f].step = "save_contract" =>
            /\ flow[f].stage = "on-chain" /\ flow[f].contract # 0
            /\ flow[f].contract \in DOMAIN contract /\ flow[f].contract \in SigningId
      /\ flow[f].step = "set_ready" => flow[f].stage = "finalise"
  BY <1>1, FlowTyped, Domains, Sizes DEF FlowSound, IInv
<1>3. PICK new \in Signing :
        /\ signings' = [signings EXCEPT ![s] = new]
        /\ new.note = signings[s].note /\ new.contract \in {0} \cup DOMAIN contract
        /\ signings[s].contract # 0 => new.contract # 0
        /\ SaveContract(f) => new = [signings[s] EXCEPT !.contract = flow[f].contract]
        /\ SetReady(f) => new = [signings[s] EXCEPT !.status = "IN_PROGRESS"]
  <2>1. CASE SaveContract(f)
    <3> DEFINE new == [signings[s] EXCEPT !.contract = flow[f].contract]
    <3>1. signings' = [signings EXCEPT ![s] = new] /\ flow[f].step = "save_contract" /\ ~SetReady(f)
      BY <2>1 DEF SaveContract, SetReady
    <3>2. new \in Signing /\ new.note = signings[s].note /\ new.contract = flow[f].contract
      BY <1>2, <3>1 DEF Signing
    <3>3. QED
      BY <1>2, <3>1, <3>2
  <2>2. CASE SetReady(f)
    <3> DEFINE new == [signings[s] EXCEPT !.status = "IN_PROGRESS"]
    <3>1. signings' = [signings EXCEPT ![s] = new] /\ ~SaveContract(f)
      BY <2>2 DEF SaveContract, SetReady
    <3>2. new \in Signing /\ new.note = signings[s].note /\ new.contract = signings[s].contract
      BY <1>2 DEF Signing, SigningStatus
    <3>3. QED
      BY <1>2, <3>1, <3>2 DEF SigningSound
  <2>3. QED
    BY <2>1, <2>2
<1>4. /\ signings' \in Seq(Signing) /\ Len(signings') = Len(signings)
      /\ DOMAIN signings' = DOMAIN signings
      /\ signings'[s] = new
      /\ \A t \in DOMAIN signings : t # s => signings'[t] = signings[t]
      /\ \A n \in DOMAIN notes' : NoteSound(n)'
      /\ \A t \in DOMAIN signings' : SigningSound(t)'
      /\ Grown
  BY <1>1, <1>2, <1>3, SigningSet
<1>5. g \in FlowState /\ g.note = flow[f].note /\ g.stage = flow[f].stage
      /\ g.step = "return" /\ g.signing = flow[f].signing /\ g.contract = flow[f].contract
      /\ g.attempts = flow[f].attempts
  BY <1>2 DEF FlowState
<1> HIDE DEF g
<1>6. flow'[f] = g
  BY <1>1, <1>5, FlowCounts DEF IInv
<1>7. FlowSound(f)'
  <2>1. Running(f) /\ Named(f)
    BY <1>1, <1>2 DEF Running, Named
  <2>2. QED
    BY <1>1, <1>2, <1>4, <1>5, <1>6, <2>1 DEF FlowSound
<1>8. (Recorded(f)' <=> Recorded(f)) /\ (OnChain(f)' <=> OnChain(f))
  BY <1>1, <1>2, <1>5, <1>6 DEF Recorded, OnChain
<1>9. /\ Len(signings') <= Cardinality(Recorders') + faults'
      /\ Len(contract') <= Cardinality(OnChains') + faults'
      /\ faults' \in 0..setting.faults
  BY <1>1, <1>4, <1>5, <1>8, SameCounts
<1>10. /\ notes' \in Seq(Note) /\ Len(notes') = Len(notes)
       /\ contract' \in Seq([status : ChainStatus, file : Contents])
  BY <1>1, FlowTyped
<1>11. IInv'
  BY <1>1, <1>4, <1>5, <1>7, <1>9, <1>10, FlowMoves
<1>12. QED
  BY <1>2, <1>3, <1>4, <1>11

(* The next job begins: what this one has created stays counted. *)
LEMMA ReturnOK == ASSUME IInv, NEW f \in DOMAIN flow, Return(f) PROVE IInv'
<1> DEFINE g == IF flow[f].stage = "finalise" THEN [flow[f] EXCEPT !.step = "done"]
                ELSE [NewFlow(flow[f].note) EXCEPT !.stage = NextStage(flow[f].stage)]
<1>1. /\ flow[f].step = "return" /\ flow' = [flow EXCEPT ![f] = g]
      /\ UNCHANGED <<setting, deal, notes, signings, contract, request, check, made, past, faults>>
  BY DEF Return, Aside
<1>2. /\ flow[f] \in FlowState /\ FlowSound(f) /\ flow[f].note \in NoteId
      /\ MaxAttempts \in Nat \ {0} /\ MaxStalledCount \in Nat
  BY FlowTyped, Sizes, DealDeskAssumption DEF IInv
<1>3. /\ g \in FlowState /\ g.note = flow[f].note
      /\ \/ g.stage = "finalise" /\ flow[f].stage = "finalise" /\ g.step = "done"
            /\ g.signing = flow[f].signing /\ g.contract = flow[f].contract
         \/ /\ g.step = "run" /\ g.signing = 0 /\ g.contract = 0 /\ g.attempts = 0
            /\ \/ flow[f].stage = "issue" /\ g.stage = "off-chain"
               \/ flow[f].stage = "off-chain" /\ g.stage = "on-chain"
               \/ flow[f].stage = "on-chain" /\ g.stage = "finalise"
  <2>1. CASE flow[f].stage = "finalise"
    BY <1>2, <2>1 DEF FlowState
  <2>2. CASE flow[f].stage # "finalise"
    <3>1. /\ NewFlow(flow[f].note) \in FlowState
          /\ NewFlow(flow[f].note).note = flow[f].note /\ NewFlow(flow[f].note).step = "run"
          /\ NewFlow(flow[f].note).signing = 0 /\ NewFlow(flow[f].note).contract = 0
          /\ NewFlow(flow[f].note).attempts = 0
      BY <1>2 DEF NewFlow, FlowState, Stages
    <3>2. /\ NextStage(flow[f].stage) \in Stages
          /\ \/ flow[f].stage = "issue" /\ NextStage(flow[f].stage) = "off-chain"
             \/ flow[f].stage = "off-chain" /\ NextStage(flow[f].stage) = "on-chain"
             \/ flow[f].stage = "on-chain" /\ NextStage(flow[f].stage) = "finalise"
      BY <1>2, <2>2 DEF NextStage, FlowState, Stages
    <3>3. QED
      BY <2>2, <3>1, <3>2 DEF FlowState
  <2>3. QED
    BY <2>1, <2>2
<1> HIDE DEF g
<1>4. flow'[f] = g
  BY <1>1, <1>3, FlowCounts DEF IInv
<1>5. Grown
  BY <1>1 DEF Grown, Signed
<1>6. FlowSound(f)'
  <2>1. Named(f)' => Named(f)
    BY <1>1, <1>3, <1>4 DEF Named
  <2>2. Running(f)' => flow'[f].attempts < MaxAttempts
    BY <1>2, <1>3, <1>4 DEF Running
  <2>3. QED
    BY <1>1, <1>2, <1>3, <1>4, <2>1, <2>2 DEF FlowSound
<1>7. (Recorded(f)' <=> Recorded(f)) /\ (OnChain(f)' <=> OnChain(f))
  BY <1>1, <1>3, <1>4 DEF Recorded, OnChain
<1>8. /\ Len(signings') <= Cardinality(Recorders') + faults'
      /\ Len(contract') <= Cardinality(OnChains') + faults'
      /\ faults' \in 0..setting.faults
  BY <1>1, <1>3, <1>7, SameCounts
<1>9. /\ notes' \in Seq(Note) /\ Len(notes') = Len(notes)
      /\ signings' \in Seq(Signing)
      /\ contract' \in Seq([status : ChainStatus, file : Contents])
      /\ \A n \in DOMAIN notes' : NoteSound(n)'
      /\ \A s \in DOMAIN signings' : SigningSound(s)'
  BY <1>1, FlowTyped DEF NoteSound, SigningSound
<1>10. QED
  BY <1>1, <1>3, <1>5, <1>6, <1>8, <1>9, FlowMoves
-----------------------------------------------------------------------------
(* The chain, the hourly check and the rest. *)
LEMMA OthersTyped ==
    ASSUME IInv
    PROVE  /\ deal \in [status : DealStatus, decision : Decision, note : {0} \cup NoteId,
                        link : {0} \cup SigningId]
           /\ DealSound
           /\ signings \in Seq(Signing) /\ \A s \in DOMAIN signings : SigningSound(s)
           /\ \A s \in DOMAIN signings : signings[s] \in Signing
           /\ contract \in Seq([status : ChainStatus, file : Contents])
           /\ check \in [Checkers -> CheckState] /\ \A k \in Checkers : CheckSound(k)
           /\ made \in [decisions : 0..setting.decisions, updates : 0..setting.updates,
                        asked : 0..setting.asked]
           /\ past \in [overlapped : SUBSET NoteId, asked : SUBSET SigningId]
           /\ faults \in faults..setting.faults
<1>1. TypeOK /\ DealSound /\ (\A s \in DOMAIN signings : SigningSound(s))
      /\ (\A k \in Checkers : CheckSound(k))
  BY DEF IInv
<1>2. /\ signings \in Seq(Signing)
      /\ contract \in Seq([status : ChainStatus, file : Contents])
      /\ \A s \in DOMAIN signings : signings[s] \in Signing
  BY <1>1, Domains DEF TypeOK
<1>3. /\ deal \in [status : DealStatus, decision : Decision, note : {0} \cup NoteId,
                   link : {0} \cup SigningId]
      /\ check \in [Checkers -> CheckState]
      /\ made \in [decisions : 0..setting.decisions, updates : 0..setting.updates,
                   asked : 0..setting.asked]
      /\ past \in [overlapped : SUBSET NoteId, asked : SUBSET SigningId]
  BY <1>1 DEF TypeOK
<1>4. faults \in 0..setting.faults /\ setting.faults \in Nat
  BY <1>1, Sizes
<1>5. faults \in faults..setting.faults
  BY <1>4
<1>6. QED
  BY <1>1, <1>2, <1>3, <1>5

(* Only the status of a signing record is written. *)
LEMMA SigningStatusSet ==
    ASSUME IInv, NEW s \in DOMAIN signings, NEW status \in SigningStatus,
           signings' = [signings EXCEPT ![s].status = status], UNCHANGED <<notes, contract>>
    PROVE  /\ signings' \in Seq(Signing) /\ Len(signings') = Len(signings)
           /\ DOMAIN signings' = DOMAIN signings
           /\ signings'[s] = [signings[s] EXCEPT !.status = status]
           /\ \A t \in DOMAIN signings : t # s => signings'[t] = signings[t]
           /\ \A t \in DOMAIN signings' : SigningSound(t)'
           /\ Grown
<1> DEFINE new == [signings[s] EXCEPT !.status = status]
<1>1. signings' = [signings EXCEPT ![s] = new]
  OBVIOUS
<1>2. signings[s] \in Signing /\ SigningSound(s)
  BY OthersTyped
<1>3. new \in Signing /\ new.note = signings[s].note /\ new.contract = signings[s].contract
  BY <1>2 DEF Signing
<1> HIDE DEF new
<1>4. /\ signings' \in Seq(Signing) /\ Len(signings') = Len(signings)
      /\ DOMAIN signings' = DOMAIN signings
      /\ signings'[s] = new
      /\ \A t \in DOMAIN signings : t # s => signings'[t] = signings[t]
      /\ \A t \in DOMAIN signings' : SigningSound(t)'
      /\ Grown
  BY <1>1, <1>2, <1>3, SigningSet DEF SigningSound
<1>5. QED
  BY <1>4 DEF new

LEMMA StatusAskedOK ==
    ASSUME IInv, NEW s \in DOMAIN signings, NEW status \in SigningStatus,
           SetSigningStatus(s, status)
    PROVE  IInv'
<1>1. /\ signings' = [signings EXCEPT ![s].status = status]
      /\ UNCHANGED <<setting, deal, notes, contract, request, flow, check, faults>>
  BY DEF SetSigningStatus
<1>2. /\ signings' \in Seq(Signing) /\ Len(signings') = Len(signings)
      /\ \A t \in DOMAIN signings' : SigningSound(t)'
      /\ Grown
  BY <1>1, SigningStatusSet
<1>3. made' \in [decisions : 0..setting.decisions, updates : 0..setting.updates,
                 asked : 0..setting.asked]
  BY Counter DEF SetSigningStatus, IInv
<1>4. past' \in [overlapped : SUBSET NoteId, asked : SUBSET SigningId]
  <2>1. s \in SigningId
    BY Sizes DEF IInv
  <2>2. QED
    BY <2>1, OthersTyped DEF SetSigningStatus
<1>5. DealSound' /\ \A k \in Checkers : CheckSound(k)'
  BY <1>1, <1>2, Framed
<1>6. QED
  BY <1>1, <1>2, <1>3, <1>4, <1>5, OthersTyped, OthersMove

(* The chain settles a document once: what is signed stays signed. *)
LEMMA SettleOK ==
    ASSUME IInv, NEW c \in DOMAIN contract, NEW status \in ChainStatus, Settle(c, status)
    PROVE  /\ IInv'
           /\ DOMAIN contract' = DOMAIN contract
           /\ \A d \in DOMAIN contract : contract'[d].file = contract[d].file
<1> DEFINE new == [contract[c] EXCEPT !.status = status]
<1>1. /\ contract' = [contract EXCEPT ![c] = new] /\ contract[c].status = "PENDING"
      /\ UNCHANGED <<setting, deal, notes, signings, request, flow, check, made, past, faults>>
  BY DEF Settle
<1>2. contract[c] \in [status : ChainStatus, file : Contents]
  BY Domains DEF IInv
<1>3. new \in [status : ChainStatus, file : Contents] /\ new.file = contract[c].file
  BY <1>2
<1> HIDE DEF new
<1>4. /\ contract' \in Seq([status : ChainStatus, file : Contents])
      /\ Len(contract') = Len(contract) /\ DOMAIN contract' = DOMAIN contract
      /\ contract'[c] = new
      /\ \A d \in DOMAIN contract : d # c => contract'[d] = contract[d]
  BY <1>1, <1>3, Domains DEF IInv, TypeOK
<1>5. Signed => Signed'
  BY <1>1, <1>4 DEF Signed
<1>6. Grown
  BY <1>1, <1>4, <1>5 DEF Grown
<1>7. \A s \in DOMAIN signings' : SigningSound(s)'
  BY <1>1, <1>4 DEF IInv, SigningSound
<1>8. DealSound' /\ \A k \in Checkers : CheckSound(k)'
  BY <1>1, <1>6, Framed
<1>9. IInv'
  BY <1>1, <1>4, <1>6, <1>7, <1>8, OthersTyped, OthersMove
<1>10. QED
  BY <1>3, <1>4, <1>9

LEMMA LinkOK == ASSUME IInv, LinkSigning PROVE IInv'
<1>1. /\ deal' = [deal EXCEPT !.link = notes[deal.note].signing] /\ deal.note # 0
      /\ UNCHANGED <<setting, notes, signings, contract, request, flow, check, made, past, faults>>
  BY DEF LinkSigning
<1>2. deal.note \in DOMAIN notes /\ FundedMeansSigned
  BY <1>1, OthersTyped DEF DealSound
<1>3. /\ notes[deal.note].signing \in {0} \cup DOMAIN signings
      /\ notes[deal.note].signing \in {0} \cup SigningId
  BY <1>2, Sizes DEF IInv, NoteSound
<1>4. /\ deal' \in [status : DealStatus, decision : Decision, note : {0} \cup NoteId,
                    link : {0} \cup SigningId]
      /\ deal'.note = deal.note /\ deal'.link = notes[deal.note].signing
      /\ deal'.status = deal.status
  BY <1>1, <1>3, OthersTyped
<1>5. DealSound'
  BY <1>1, <1>2, <1>3, <1>4 DEF DealSound, FundedMeansSigned
<1>6. Grown
  BY <1>1 DEF Grown, Signed
<1>7. \A k \in Checkers : CheckSound(k)'
  BY <1>1, <1>6, Framed
<1>8. \A s \in DOMAIN signings' : SigningSound(s)'
  BY <1>1 DEF IInv, SigningSound
<1>9. QED
  BY <1>1, <1>4, <1>5, <1>6, <1>7, <1>8, OthersTyped, OthersMove

(* A check moves on: it goes by the contract it asked, and ends when it    *)
(* has written the deal.                                                   *)
LEMMA CheckMoves ==
    ASSUME IInv, NEW k \in Checkers, NEW c \in CheckState, check' = [check EXCEPT ![k] = c],
           UNCHANGED <<setting, deal, notes, signings, contract, request, flow, made, past>>,
           faults' \in faults..setting.faults,
           c.step # "idle" =>
              /\ c.signing \in DOMAIN signings
              /\ signings[c.signing].contract # 0
              /\ c.step # "ask_contract" /\ c.found = "SIGNED" => Signed
    PROVE  IInv'
<1>1. check' \in [Checkers -> CheckState] /\ check'[k] = c
      /\ \A j \in Checkers : j # k => check'[j] = check[j]
  BY OthersTyped
<1>2. Grown
  BY DEF Grown, Signed
<1>3. \A j \in Checkers : CheckSound(j)'
  <2> TAKE j \in Checkers
  <2>1. CASE j = k
    BY <1>1, <2>1 DEF CheckSound, Signed
  <2>2. CASE j # k
    BY <1>1, <1>2, <2>2, Framed
  <2>3. QED
    BY <2>1, <2>2
<1>4. DealSound'
  BY <1>2, Framed
<1>5. \A s \in DOMAIN signings' : SigningSound(s)'
  BY DEF IInv, SigningSound
<1>6. QED
  BY <1>1, <1>2, <1>3, <1>4, <1>5, OthersTyped, OthersMove

LEMMA CheckOK == ASSUME IInv, NEW k \in Checkers, CheckStep(k) \/ CheckFails(k) PROVE IInv'
<1>1. check[k] \in CheckState /\ CheckSound(k) /\ Rest \in CheckState /\ Rest.step = "idle"
  BY OthersTyped DEF Rest, CheckState, ChainStatus
<1>2. CASE BeginCheck(k)
  <2> DEFINE c == [Rest EXCEPT !.step = "ask_contract", !.signing = deal.link]
  <2>1. /\ check' = [check EXCEPT ![k] = c] /\ signings[deal.link].contract # 0
        /\ deal.link # 0
        /\ UNCHANGED <<setting, deal, notes, signings, contract, request, flow, made, past, faults>>
    BY <1>2 DEF BeginCheck, Apart
  <2>2. deal.link \in DOMAIN signings /\ deal.link \in SigningId
    BY <2>1, OthersTyped, Sizes DEF DealSound, IInv
  <2>3. c \in CheckState /\ c.step = "ask_contract" /\ c.signing = deal.link
    BY <2>2 DEF Rest, CheckState, ChainStatus
  <2> HIDE DEF c
  <2>4. QED
    BY <2>1, <2>2, <2>3, OthersTyped, CheckMoves
<1>3. CASE AskContract(k)
  <2> DEFINE status == contract[signings[check[k].signing].contract].status
             c == [check[k] EXCEPT !.step = "set_signing", !.found = status]
  <2>1. /\ check[k].step = "ask_contract"
        /\ \/ check' = [check EXCEPT ![k] = Rest]
           \/ check' = [check EXCEPT ![k] = c]
        /\ UNCHANGED <<setting, deal, notes, signings, contract, request, flow, made, past, faults>>
    BY <1>3 DEF AskContract, Apart
  <2>2. /\ check[k].signing \in DOMAIN signings /\ signings[check[k].signing].contract # 0
        /\ SigningSound(check[k].signing)
    BY <1>1, <2>1, OthersTyped DEF CheckSound
  <2>3. PICK d \in DOMAIN contract : d = signings[check[k].signing].contract
    BY <2>2 DEF SigningSound
  <2>4. status \in ChainStatus /\ (status = "SIGNED" => Signed)
    BY <2>3, Domains DEF IInv, Signed
  <2> HIDE DEF status
  <2>5. c \in CheckState /\ c.step = "set_signing" /\ c.signing = check[k].signing
        /\ c.found = status
    BY <1>1, <2>4 DEF CheckState
  <2> HIDE DEF c
  <2>6. CASE check' = [check EXCEPT ![k] = Rest]
    BY <1>1, <2>1, <2>6, OthersTyped, CheckMoves
  <2>7. CASE check' = [check EXCEPT ![k] = c]
    BY <2>1, <2>2, <2>4, <2>5, <2>7, OthersTyped, CheckMoves
  <2>8. QED
    BY <2>1, <2>6, <2>7
<1>4. CASE SetSigning(k)
  <2> DEFINE c == [check[k] EXCEPT !.step = "set_deal"]
             s == check[k].signing
  <2>1. /\ check[k].step = "set_signing" /\ check' = [check EXCEPT ![k] = c]
        /\ signings' = [signings EXCEPT ![s].status = check[k].found]
        /\ UNCHANGED <<setting, deal, notes, contract, request, flow, made, past, faults>>
    BY <1>4 DEF SetSigning, Apart
  <2>2. /\ s \in DOMAIN signings /\ signings[s].contract # 0
        /\ check[k].found = "SIGNED" => Signed
    BY <1>1, <2>1 DEF CheckSound
  <2>3. c \in CheckState /\ c.step = "set_deal" /\ c.signing = s /\ c.found = check[k].found
        /\ check[k].found \in SigningStatus
    BY <1>1 DEF CheckState, ChainStatus, SigningStatus
  <2> HIDE DEF c
  <2>4. /\ signings' \in Seq(Signing) /\ Len(signings') = Len(signings)
        /\ DOMAIN signings' = DOMAIN signings
        /\ \A t \in DOMAIN signings' : SigningSound(t)'
        /\ Grown
    BY <2>1, <2>2, <2>3, SigningStatusSet
  <2>5. check' \in [Checkers -> CheckState] /\ check'[k] = c
        /\ \A j \in Checkers : j # k => check'[j] = check[j]
    BY <2>1, <2>3, OthersTyped
  <2>6. \A j \in Checkers : CheckSound(j)'
    <3> TAKE j \in Checkers
    <3>1. CASE j = k
      BY <2>2, <2>3, <2>4, <2>5, <3>1 DEF CheckSound, Grown
    <3>2. CASE j # k
      BY <2>4, <2>5, <3>2, Framed
    <3>3. QED
      BY <3>1, <3>2
  <2>7. DealSound'
    BY <2>1, <2>4, Framed
  <2>8. QED
    BY <2>1, <2>4, <2>5, <2>6, <2>7, OthersTyped, OthersMove
<1>5. CASE SetDeal(k)
  <2>1. /\ check[k].step = "set_deal" /\ check' = [check EXCEPT ![k] = Rest]
        /\ deal' = [deal EXCEPT !.status =
              IF check[k].found = "SIGNED" THEN "FUNDING_REQUESTED" ELSE "EXPIRED"]
        /\ UNCHANGED <<setting, notes, signings, contract, request, flow, made, past, faults>>
    BY <1>5 DEF SetDeal, Apart
  <2>2. /\ deal' \in [status : DealStatus, decision : Decision, note : {0} \cup NoteId,
                      link : {0} \cup SigningId]
        /\ deal'.note = deal.note /\ deal'.link = deal.link
        /\ deal'.status = "FUNDING_REQUESTED" => check[k].found = "SIGNED"
    BY <2>1, OthersTyped DEF DealStatus
  <2>3. Grown
    BY <2>1 DEF Grown, Signed
  <2>4. deal'.status = "FUNDING_REQUESTED" => Signed'
    BY <1>1, <2>1, <2>2 DEF CheckSound, Signed
  <2>5. DealSound'
    BY <2>1, <2>2, <2>4, OthersTyped DEF DealSound, FundedMeansSigned, Signed
  <2>6. check' \in [Checkers -> CheckState] /\ check'[k] = Rest
        /\ \A j \in Checkers : j # k => check'[j] = check[j]
    BY <1>1, <2>1, OthersTyped
  <2>7. \A j \in Checkers : CheckSound(j)'
    <3> TAKE j \in Checkers
    <3>1. CASE j = k
      BY <1>1, <2>6, <3>1 DEF CheckSound
    <3>2. CASE j # k
      BY <2>3, <2>6, <3>2, Framed
    <3>3. QED
      BY <3>1, <3>2
  <2>8. \A s \in DOMAIN signings' : SigningSound(s)'
    BY <2>1 DEF IInv, SigningSound
  <2>9. QED
    BY <2>1, <2>2, <2>3, <2>5, <2>6, <2>7, <2>8, OthersTyped, OthersMove
<1>6. CASE CheckFails(k)
  <2>1. faults' \in faults..setting.faults
    <3>1. faults \in Nat /\ setting.faults \in Nat
      BY Sizes DEF IInv
    <3>2. QED
      BY <1>6, <3>1 DEF CheckFails
  <2>2. QED
    BY <1>1, <1>6, <2>1, CheckMoves DEF CheckFails
<1>7. QED
  BY <1>2, <1>3, <1>4, <1>5, <1>6 DEF CheckStep
-----------------------------------------------------------------------------
LEMMA InitOK == ASSUME Init PROVE IInv
<1>1. /\ setting \in Settings /\ faults = 0
      /\ setting.notes \in 0..MaxNotes /\ setting.flows \in 0..MaxFlows
      /\ setting.faults \in 0..MaxFaults
      /\ setting.decisions \in Nat /\ setting.updates \in Nat /\ setting.asked \in Nat
      /\ MaxNotes \in Nat /\ MaxFlows \in Nat /\ MaxFaults \in Nat
  BY DealDeskAssumption DEF Init
<1>2. /\ Len(notes) = 0 /\ Len(signings) = 0 /\ Len(contract) = 0 /\ Len(flow) = 0
      /\ DOMAIN notes = {} /\ DOMAIN signings = {} /\ DOMAIN contract = {} /\ DOMAIN flow = {}
  BY DEF Init
<1>3. Rest \in CheckState /\ Rest.step = "idle"
  BY DEF Rest, CheckState, ChainStatus
<1>4. TypeOK
  BY <1>1, <1>2, <1>3, IdleTyped DEF Init, TypeOK, DealStatus, Decision
<1>5. Bounded
  <2>1. Creating = {} /\ Issuing = {}
    BY IdleTyped DEF Init, Creating, Issuing, Creates, Issues
  <2>2. Cardinality(Creating) = 0 /\ Cardinality(Issuing) = 0
    BY <2>1, FS_EmptySet
  <2>3. Cardinality(Recorders) \in Nat /\ Cardinality(OnChains) \in Nat
    BY <1>4, Sizes
  <2>4. QED
    BY <1>1, <1>2, <2>2, <2>3 DEF Bounded
<1>6. \A q \in Requests : RequestSound(q)
  BY IdleTyped DEF Init, RequestSound
<1>7. \A k \in Checkers : CheckSound(k)
  BY <1>3 DEF Init, CheckSound
<1>8. DealSound
  BY DEF Init, DealSound, FundedMeansSigned
<1>9. QED
  BY <1>2, <1>4, <1>5, <1>6, <1>7, <1>8 DEF IInv

LEMMA StutterOK == ASSUME IInv, UNCHANGED vars PROVE IInv'
<1>1. Grown
  BY DEF Grown, Signed, vars
<1>2. DealSound' /\ (\A k \in Checkers : CheckSound(k)')
  BY <1>1, Framed DEF vars
<1>3. \A s \in DOMAIN signings' : SigningSound(s)'
  BY DEF IInv, SigningSound, vars
<1>4. QED
  BY <1>1, <1>2, <1>3, OthersTyped, OthersMove DEF vars

LEMMA StepOK == ASSUME IInv, [Next]_vars PROVE IInv'
<1>1. ASSUME NEW q \in Requests, Portal(q) \/ ApiStep(q) \/ RequestFails(q) PROVE IInv'
  BY <1>1, DecisionOK, CreateNoteOK, UpdateOK, IssueOK, EventOK, AddOK DEF Portal, ApiStep
<1>2. ASSUME NEW f \in DOMAIN flow, FlowStep(f) \/ OperationFails(f) \/ ProcessDies(f)
      PROVE  IInv'
  BY <1>2, NoteJobOK, CreateOK, ReadOK, SigningJobOK, ReturnOK, FaultOK DEF FlowStep
<1>3. ASSUME NEW k \in Checkers, CheckStep(k) \/ CheckFails(k) PROVE IInv'
  BY <1>3, CheckOK
<1>4. ASSUME NEW s \in DOMAIN signings, NEW status \in SigningStatus,
             SetSigningStatus(s, status)
      PROVE  IInv'
  BY <1>4, StatusAskedOK
<1>5. ASSUME NEW c \in DOMAIN contract, NEW s \in ChainStatus, Settle(c, s) PROVE IInv'
  BY <1>5, SettleOK
<1>6. CASE LinkSigning
  BY <1>6, LinkOK
<1>7. CASE UNCHANGED vars
  BY <1>7, StutterOK
<1>8. QED
  BY <1>1, <1>2, <1>3, <1>4, <1>5, <1>6, <1>7 DEF Next

(* However requests, jobs and checks interleave and whatever fails, nobody *)
(* refers to a note, record or document that is not there, the bounds of   *)
(* the admitted work are kept, and a check writes what the chain holds.    *)
THEOREM InvariantHolds == Spec => []IInv
<1>1. Init => IInv
  BY InitOK
<1>2. IInv /\ [Next]_vars => IInv'
  BY StepOK
<1>3. QED
  BY <1>1, <1>2, PTL DEF Spec

(* The deal, its notes, records and documents, handlers, jobs and checks   *)
(* stay in their types: jobs are attempted at most as often as allowed,    *)
(* and every flow makes one record and one document unless it fails.       *)
THEOREM TypeCorrect == Spec => []TypeOK
<1>1. IInv => TypeOK
  BY DEF IInv
<1>2. QED
  BY InvariantHolds, <1>1, PTL

(* A deal is on its way to its funds only if some document of it was       *)
(* signed on chain: checkDocumentSigningStatus writes the deal long after  *)
(* it asked the chain, and the chain does not take a signature back.       *)
THEOREM FundedOnlySigned == Spec => []FundedMeansSigned
<1>1. IInv => FundedMeansSigned
  BY DEF IInv, DealSound
<1>2. QED
  BY InvariantHolds, <1>1, PTL
-----------------------------------------------------------------------------
(* One request at a time: the note of the agreement. *)

(* Steps of the others. *)
LEMMA AgreementKept ==
    ASSUME AgreementSound, deal'.note = deal.note, deal'.decision = deal.decision,
           deal'.status = "AWAITING_AGREEMENT" => deal.status = "AWAITING_AGREEMENT",
           request' = request, Len(notes') = Len(notes), faults' = 0 => faults = 0
    PROVE  AgreementSound'
BY DEF AgreementSound, Linked

LEMMA OthersKeepAgreement ==
    ASSUME IInv, AgreementSound,
           \/ \E f \in DOMAIN flow : FlowStep(f) \/ OperationFails(f) \/ ProcessDies(f)
           \/ \E k \in Checkers : CheckStep(k) \/ CheckFails(k)
           \/ \E s \in DOMAIN signings, status \in SigningStatus : SetSigningStatus(s, status)
           \/ \E c \in DOMAIN contract, s \in ChainStatus : Settle(c, s)
           \/ LinkSigning
    PROVE  AgreementSound'
<1>1. faults \in Nat
  BY Sizes DEF IInv
<1>2. ASSUME NEW f \in DOMAIN flow, FlowStep(f) \/ OperationFails(f) \/ ProcessDies(f)
      PROVE  AgreementSound'
  <2>1. deal' = deal /\ request' = request /\ faults' \in {faults, faults + 1}
    BY <1>2 DEF FlowStep, IssueNote, CreateRecord, NameRecord, ReadIssued, CreateOnChain,
          SaveContract, ReadNamed, SetReady, Return, OperationFails, ProcessDies, Aside
  <2>2. notes' = notes \/ \E n \in DOMAIN notes, new \in Note : notes' = [notes EXCEPT ![n] = new]
    <3>1. CASE IssueNote(f)
      <4> DEFINE new == [NoteIn(f) EXCEPT !.status = "ISSUED", !.issued = NoteIn(f).content]
      <4>1. flow[f].note \in DOMAIN notes /\ NoteIn(f) \in Note
        BY FlowTyped
      <4>2. new \in Note
        BY <4>1 DEF Note, NoteStatus
      <4>3. QED
        BY <3>1, <4>1, <4>2 DEF IssueNote, SetNote
    <3>2. CASE NameRecord(f)
      <4> DEFINE new == [NoteIn(f) EXCEPT !.signing = flow[f].signing]
      <4>1. flow[f].note \in DOMAIN notes /\ NoteIn(f) \in Note /\ flow[f] \in FlowState
        BY FlowTyped
      <4>2. new \in Note
        BY <4>1 DEF Note, FlowState
      <4>3. QED
        BY <3>2, <4>1, <4>2 DEF NameRecord, SetNote
    <3>3. QED
      BY <1>2, <3>1, <3>2 DEF FlowStep, CreateRecord, ReadIssued, CreateOnChain,
          SaveContract, ReadNamed, SetReady, Return, OperationFails, ProcessDies
  <2>3. Len(notes') = Len(notes)
    BY <2>2, FlowTyped
  <2>4. QED
    BY <1>1, <2>1, <2>3, AgreementKept
<1>3. ASSUME NEW k \in Checkers, CheckStep(k) \/ CheckFails(k) PROVE AgreementSound'
  <2>1. notes' = notes /\ request' = request /\ faults' \in {faults, faults + 1}
    BY <1>3 DEF CheckStep, BeginCheck, AskContract, SetSigning, SetDeal, CheckFails, Apart
  <2>2. /\ deal'.note = deal.note /\ deal'.decision = deal.decision
        /\ deal'.status = "AWAITING_AGREEMENT" => deal.status = "AWAITING_AGREEMENT"
    <3>1. CASE SetDeal(k)
      BY <3>1, OthersTyped DEF SetDeal
    <3>2. QED
      BY <1>3, <3>1 DEF CheckStep, BeginCheck, AskContract, SetSigning, CheckFails
  <2>3. QED
    BY <1>1, <2>1, <2>2, AgreementKept
<1>4. ASSUME NEW s \in DOMAIN signings, NEW status \in SigningStatus,
             SetSigningStatus(s, status)
      PROVE  AgreementSound'
  BY <1>4, AgreementKept DEF SetSigningStatus
<1>5. ASSUME NEW c \in DOMAIN contract, NEW s \in ChainStatus, Settle(c, s)
      PROVE  AgreementSound'
  BY <1>5, AgreementKept DEF Settle
<1>6. CASE LinkSigning
  <2>1. deal'.note = deal.note /\ deal'.decision = deal.decision /\ deal'.status = deal.status
    BY <1>6, OthersTyped DEF LinkSigning
  <2>2. QED
    BY <1>6, <2>1, AgreementKept DEF LinkSigning
<1>7. QED
  BY <1>2, <1>3, <1>4, <1>5, <1>6

(* The decision creates the note unless the deal awaited its agreement     *)
(* when it was read, and then had one.                                     *)
LEMMA AgreementStep ==
    ASSUME IInv, AgreementSound, NEW only, Requests = {only}, [Next]_vars
    PROVE  AgreementSound'
<1> DEFINE r == request[only]
           s == request'[only]
<1>1. /\ only \in Requests /\ r \in RequestState /\ faults \in Nat
      /\ Len(notes) \in Nat
      /\ request \in [Requests -> RequestState]
      /\ deal \in [status : DealStatus, decision : Decision, note : {0} \cup NoteId,
                   link : {0} \cup SigningId]
  BY RequestTyped, Sizes, Domains DEF IInv, TypeOK
<1>2. /\ deal.status = "AWAITING_AGREEMENT" => deal.decision = "APPROVED"
      /\ faults = 0 =>
           /\ r.step \notin {"create_note", "link_note"} => (deal.decision = "APPROVED" => Linked)
           /\ r.step = "write_decision" /\ r.seen = "AWAITING_AGREEMENT" => Linked
           /\ r.step = "link_note" => r.note = Len(notes)
  BY <1>1 DEF AgreementSound
<1>3. ASSUME deal'.status = "AWAITING_AGREEMENT" => deal'.decision = "APPROVED",
             faults' = 0 =>
               /\ s.step \notin {"create_note", "link_note"} =>
                    (deal'.decision = "APPROVED" => Linked')
               /\ s.step = "write_decision" /\ s.seen = "AWAITING_AGREEMENT" => Linked'
               /\ s.step = "link_note" => s.note = Len(notes')
      PROVE  AgreementSound'
  BY <1>3 DEF AgreementSound
<1>4. ASSUME NEW d \in Decision, BeginDecision(only, d) PROVE AgreementSound'
  <2> DEFINE t == [Idle EXCEPT !.step = "write_decision", !.decision = d, !.seen = deal.status]
  <2>1. /\ request' = [request EXCEPT ![only] = t] /\ r.step = "idle"
        /\ UNCHANGED <<deal, notes, faults>>
    BY <1>4 DEF BeginDecision, At, Elsewhere
  <2>2. t.step = "write_decision" /\ t.seen = deal.status
    BY IdleTyped DEF RequestState
  <2> HIDE DEF t
  <2>3. s = t
    BY <1>1, <2>1
  <2>4. Linked' <=> Linked
    BY <2>1 DEF Linked
  <2>5. QED
    BY <1>2, <1>3, <2>1, <2>2, <2>3, <2>4
<1>5. CASE WriteDecision(only)
  <2>1. /\ r.step = "write_decision"
        /\ deal' = [deal EXCEPT !.decision = r.decision, !.status = StatusFor(r.decision)]
        /\ UNCHANGED <<notes, faults>>
        /\ IF StatusFor(r.decision) # r.seen /\ StatusFor(r.decision) = "AWAITING_AGREEMENT"
           THEN Go(only, "create_note") ELSE End(only)
    BY <1>5 DEF WriteDecision, At, Elsewhere
  <2>2. StatusFor(r.decision) = "AWAITING_AGREEMENT" <=> r.decision = "APPROVED"
    BY <1>1 DEF StatusFor, RequestState, Decision
  <2>3. /\ deal'.decision = r.decision /\ deal'.status = StatusFor(r.decision)
        /\ deal'.note = deal.note
    BY <1>1, <2>1
  <2>4. CASE Go(only, "create_note")
    <3>1. s.step = "create_note"
      BY <1>1, <2>4 DEF Go, RequestState
    <3>2. QED
      BY <1>3, <2>2, <2>3, <3>1
  <2>5. CASE End(only) /\ (r.decision = "APPROVED" => r.seen = "AWAITING_AGREEMENT")
    <3>1. s.step = "idle"
      BY <1>1, <2>5, IdleTyped DEF End
    <3>2. Linked' <=> Linked
      BY <2>1, <2>3 DEF Linked
    <3>3. QED
      BY <1>2, <1>3, <2>1, <2>2, <2>3, <2>5, <3>1, <3>2
  <2>6. QED
    BY <2>1, <2>2, <2>4, <2>5
<1>6. CASE BeginPostNote(only)
  <2>1. s.step = "create_note"
    BY <1>1, <1>6 DEF BeginPostNote, Go, RequestState
  <2>2. QED
    BY <1>2, <1>3, <1>6, <2>1 DEF BeginPostNote
<1>7. CASE CreateNote(only)
  <2> DEFINE t == [Idle EXCEPT !.step = "link_note", !.note = Len(notes) + 1]
  <2>1. /\ request' = [request EXCEPT ![only] = t] /\ UNCHANGED <<deal, faults>>
        /\ notes' = Append(notes, NewNote)
    BY <1>7 DEF CreateNote, Elsewhere
  <2>2. t.step = "link_note" /\ t.note = Len(notes) + 1
    BY IdleTyped DEF RequestState
  <2> HIDE DEF t
  <2>3. s = t
    BY <1>1, <2>1
  <2>4. Len(notes') = Len(notes) + 1
    BY <2>1, IdleTyped, AppendProperties DEF IInv, TypeOK
  <2>5. QED
    BY <1>2, <1>3, <2>1, <2>2, <2>3, <2>4
<1>8. CASE LinkNote(only)
  <2>1. /\ r.step = "link_note" /\ deal' = [deal EXCEPT !.note = r.note] /\ s = Idle
        /\ UNCHANGED <<notes, faults>>
    BY <1>1, <1>8 DEF LinkNote, At, End, Elsewhere
  <2>2. deal'.note = r.note /\ deal'.decision = deal.decision /\ deal'.status = deal.status
    BY <1>1, <2>1
  <2>3. r.note # 0
    BY <1>1, <2>1, RequestTyped
  <2>4. faults = 0 => Linked'
    BY <1>2, <2>1, <2>2, <2>3 DEF Linked
  <2>5. QED
    BY <1>2, <1>3, <2>1, <2>2, <2>4, IdleTyped
<1>9. CASE /\ Portal(only) \/ ApiStep(only)
           /\ ~BeginPostNote(only) /\ ~WriteDecision(only) /\ ~CreateNote(only)
           /\ ~LinkNote(only) /\ \A d \in Decision : ~BeginDecision(only, d)
  <2>1. /\ deal' = deal /\ faults' = faults
        /\ r.step \notin {"create_note", "link_note"}
    BY <1>9 DEF Portal, ApiStep, BeginUpdate, BeginIssue, BeginSigningEvent, ReadNote, CheckNote,
          WriteNote, IssuableNote, StoreFile, RestoreStatus, ReadyToIssue, SetProcessing,
          AddFlow, AddSigningEvent, Add, At, Elsewhere
  <2>2. DOMAIN notes' = DOMAIN notes
    BY <1>9 DEF Portal, ApiStep, BeginUpdate, BeginIssue, BeginSigningEvent, ReadNote, CheckNote,
          WriteNote, IssuableNote, StoreFile, RestoreStatus, ReadyToIssue, SetProcessing,
          AddFlow, AddSigningEvent, Add, SetNote, Elsewhere
  <2>3. Len(notes') = Len(notes)
    <3>1. notes' \in Seq(Note) /\ notes \in Seq(Note)
      BY StepOK, <1>9 DEF IInv, TypeOK, Next
    <3>2. 1..Len(notes') = 1..Len(notes) /\ Len(notes') \in Nat /\ Len(notes) \in Nat
      BY <2>2, <3>1, LenProperties
    <3>3. QED
      BY <3>2
  <2>4. s.step \notin {"create_note", "link_note", "write_decision"}
    <3>1. CASE End(only)
      BY <1>1, <3>1, IdleTyped DEF End
    <3>2. ASSUME NEW step \in RequestSteps \ {"create_note", "link_note", "write_decision"},
                 Go(only, step)
          PROVE  s.step \notin {"create_note", "link_note", "write_decision"}
      BY <1>1, <3>2 DEF Go, RequestState
    <3>3. CASE BeginUpdate(only) \/ BeginIssue(only)
               \/ \E n \in DOMAIN notes : BeginSigningEvent(only, n)
      <4>1. ASSUME NEW step, NEW n,
                   request' = [request EXCEPT ![only] = [Idle EXCEPT !.step = step, !.note = n]]
            PROVE  s.step = step
        BY <1>1, <4>1, IdleTyped DEF RequestState
      <4>2. ASSUME BeginUpdate(only) PROVE s.step = "read_note"
        BY <4>1, <4>2 DEF BeginUpdate
      <4>3. ASSUME BeginIssue(only) PROVE s.step = "issuable"
        BY <4>1, <4>3 DEF BeginIssue
      <4>4. ASSUME NEW n \in DOMAIN notes, BeginSigningEvent(only, n)
            PROVE  s.step = "add_event"
        BY <4>1, <4>4 DEF BeginSigningEvent
      <4>5. QED
        BY <3>3, <4>2, <4>3, <4>4
    <3>4. CASE ReadNote(only) \/ StoreFile(only)
      <4>1. PICK step \in {"check_note", "restore_status"} :
              request' = [request EXCEPT ![only].step = step, ![only].read = NoteOf(only)]
        BY <3>4 DEF ReadNote, StoreFile
      <4>2. s.step = step
        BY <1>1, <4>1 DEF RequestState
      <4>3. QED
        BY <4>1, <4>2
    <3>5. CASE \/ CheckNote(only) \/ IssuableNote(only) \/ RestoreStatus(only)
               \/ ReadyToIssue(only) \/ SetProcessing(only)
      BY <3>1, <3>2, <3>5 DEF CheckNote, IssuableNote, RestoreStatus, ReadyToIssue,
            SetProcessing, RequestSteps
    <3>6. CASE WriteNote(only) \/ AddFlow(only) \/ AddSigningEvent(only)
      BY <3>1, <3>6 DEF WriteNote, AddFlow, AddSigningEvent, Add
    <3>7. QED
      BY <1>9, <3>3, <3>4, <3>5, <3>6 DEF Portal, ApiStep
  <2>5. Linked' <=> Linked
    BY <2>1, <2>3 DEF Linked
  <2>6. QED
    BY <1>2, <1>3, <2>1, <2>4, <2>5
<1>10. CASE RequestFails(only)
  <2>1. deal' = deal /\ faults' # 0
    BY <1>1, <1>10 DEF RequestFails
  <2>2. QED
    BY <1>2, <1>3, <2>1
<1>11. CASE UNCHANGED vars
  BY <1>11, AgreementKept DEF vars
<1>12. QED
  BY <1>1, <1>4, <1>5, <1>6, <1>7, <1>8, <1>9, <1>10, <1>11, OthersKeepAgreement
     DEF Next, Portal, ApiStep

(* With one request at a time and no failure, an approved deal has a       *)
(* promissory note and names the latest that was created, however often    *)
(* updateFundingDecision and createPromissoryNote are called.              *)
THEOREM AgreementNamesNote ==
    ASSUME NEW only, Requests = {only}
    PROVE  Spec => []AgreementHasNote
<1>1. Init => AgreementSound
  BY IdleTyped DEF Init, AgreementSound
<1>2. IInv /\ AgreementSound /\ [Next]_vars => AgreementSound'
  BY AgreementStep
<1>3. IInv /\ AgreementSound => AgreementHasNote
  <2> SUFFICES ASSUME IInv, AgreementSound, faults = 0, Quiet, deal.decision = "APPROVED"
               PROVE  notes # <<>> /\ deal.note = Len(notes)
    BY DEF AgreementHasNote
  <2>1. only \in Requests /\ request[only].step = "idle"
    BY DEF Quiet, At
  <2>2. Linked
    BY <2>1 DEF AgreementSound
  <2>3. QED
    BY <2>2 DEF Linked
<1>4. QED
  BY InvariantHolds, <1>1, <1>2, <1>3, PTL DEF Spec
-----------------------------------------------------------------------------
(* One request at a time: what the parties sign.                           *)

(* What no step undoes, as far as the flows and records go by it.          *)
Kept ==
    /\ DOMAIN notes \subseteq DOMAIN notes'
    /\ \A n \in DOMAIN notes :
          notes[n].status # "IN_PROGRESS" => notes'[n].status # "IN_PROGRESS"
    /\ \A n \in DOMAIN notes :
          notes[n].status = "ISSUED" =>
              notes'[n].status = "ISSUED" /\ notes'[n].issued = notes[n].issued
    /\ DOMAIN signings \subseteq DOMAIN signings'
    /\ \A s \in DOMAIN signings : signings'[s].note = signings[s].note
    /\ \A s \in DOMAIN signings : signings[s].contract # 0 => signings'[s].contract # 0
    /\ DOMAIN contract \subseteq DOMAIN contract'
    /\ \A c \in DOMAIN contract : contract'[c].file = contract[c].file
    /\ past.overlapped \subseteq past'.overlapped
    /\ past.asked \subseteq past'.asked

LEMMA FlowFrame ==
    ASSUME IInv, Alone, Kept, NEW f \in DOMAIN flow, flow'[f] = flow[f],
           Running(f) /\ flow[f].note \notin past'.overlapped =>
              /\ notes'[flow[f].note].signing = notes[flow[f].note].signing
              /\ \A g \in DOMAIN flow' : Running(g)' /\ flow'[g].note = flow[f].note => g = f
    PROVE  FlowAlone(f)'
<1> DEFINE n == flow[f].note
           s == flow[f].signing
<1>1. /\ flow[f] \in FlowState /\ FlowSound(f) /\ n \in DOMAIN notes /\ FlowAlone(f)
      /\ notes[n].signing \in {0} \cup DOMAIN signings
  BY FlowTyped DEF Alone, NoteIn
<1>2. (Running(f)' <=> Running(f)) /\ (OnChain(f)' <=> OnChain(f))
  BY DEF Running, OnChain
<1>3. /\ NoteIn(f)' = notes'[n] /\ NoteIn(f) = notes[n]
  BY DEF NoteIn
<1>4. /\ notes'[n].status # "IN_PROGRESS"
      /\ flow[f].stage # "issue" \/ flow[f].step = "return" =>
            notes[n].status = "ISSUED" /\ notes'[n].status = "ISSUED"
            /\ notes'[n].issued = notes[n].issued
  BY <1>1, <1>3 DEF FlowAlone, Kept
<1>5. flow[f].step \in {"name_record", "create_on_chain", "save_contract", "set_ready"} =>
         signings'[s].note = n
  BY <1>1 DEF FlowAlone, FlowSound, Kept
<1>6. flow[f].step = "create_on_chain" => flow[f].file = notes'[n].issued
  <2> SUFFICES ASSUME flow[f].step = "create_on_chain"
               PROVE  flow[f].file = notes'[n].issued
    OBVIOUS
  <2>1. flow[f].stage # "issue" /\ flow[f].file = notes[n].issued
    BY <1>1, <1>3 DEF FlowAlone, FlowSound
  <2>2. QED
    BY <1>4, <2>1
<1>7. flow[f].step = "save_contract" => contract'[flow[f].contract].file = notes'[n].issued
  <2> SUFFICES ASSUME flow[f].step = "save_contract"
               PROVE  contract'[flow[f].contract].file = notes'[n].issued
    OBVIOUS
  <2>1. /\ flow[f].stage # "issue" /\ flow[f].contract \in DOMAIN contract
        /\ contract[flow[f].contract].file = notes[n].issued
    BY <1>1, <1>3 DEF FlowAlone, FlowSound
  <2>2. QED
    BY <1>4, <2>1 DEF Kept
<1>8. ASSUME Running(f), n \notin past'.overlapped
      PROVE  /\ \A g \in DOMAIN flow' : Running(g)' /\ flow'[g].note = n => g = f
             /\ flow[f].step \in {"create_on_chain", "save_contract", "set_ready"} =>
                   s = notes'[n].signing
             /\ OnChain(f) /\ flow[f].step # "save_contract" =>
                   signings'[notes'[n].signing].contract # 0
  <2>1. n \notin past.overlapped
    BY <1>8 DEF Kept
  <2>2. /\ notes'[n].signing = notes[n].signing
        /\ \A g \in DOMAIN flow' : Running(g)' /\ flow'[g].note = n => g = f
    BY <1>8
  <2>3. /\ flow[f].step \in {"create_on_chain", "save_contract", "set_ready"} =>
              s = notes[n].signing
        /\ OnChain(f) /\ flow[f].step # "save_contract" =>
              signings[notes[n].signing].contract # 0
    BY <1>1, <1>3, <1>8, <2>1 DEF FlowAlone
  <2>4. OnChain(f) => notes[n].signing \in DOMAIN signings
    BY <1>1 DEF OnChain, Named, FlowSound
  <2>5. QED
    BY <2>2, <2>3, <2>4 DEF Kept
<1>9. QED
  BY <1>2, <1>3, <1>4, <1>5, <1>6, <1>7, <1>8 DEF FlowAlone

LEMMA SigningFrame ==
    ASSUME IInv, Alone, Kept, NEW s \in DOMAIN signings,
           signings'[s].contract = signings[s].contract,
           signings'[s].status = "IN_PROGRESS" /\ s \notin past'.asked =>
              signings[s].status = "IN_PROGRESS"
    PROVE  SigningAlone(s)'
<1> DEFINE n == signings[s].note
<1>1. /\ n \in DOMAIN notes /\ SigningAlone(s)
      /\ signings[s].contract \in {0} \cup DOMAIN contract
  BY DEF IInv, SigningSound, Alone
<1>2. /\ signings'[s].note = n /\ notes'[n].status = "ISSUED"
      /\ notes'[n].issued = notes[n].issued
  BY <1>1 DEF Kept, SigningAlone
<1>3. signings[s].contract # 0 => contract'[signings[s].contract].file = notes'[n].issued
  BY <1>1, <1>2 DEF Kept, SigningAlone
<1>4. signings'[s].status = "IN_PROGRESS" /\ s \notin past'.asked /\ n \notin past'.overlapped
        => signings[s].contract # 0
  <2>1. s \notin past'.asked => s \notin past.asked
    BY DEF Kept
  <2>2. n \notin past'.overlapped => n \notin past.overlapped
    BY DEF Kept
  <2>3. QED
    BY <1>1, <2>1, <2>2 DEF SigningAlone
<1>5. QED
  BY <1>2, <1>3, <1>4 DEF SigningAlone

(* Steps that leave notes and flows alone.                                 *)
LEMMA SameNotes ==
    ASSUME IInv, Alone, UNCHANGED <<notes, flow>>,
           DOMAIN signings' = DOMAIN signings, DOMAIN contract' = DOMAIN contract,
           \A s \in DOMAIN signings :
              /\ signings'[s].note = signings[s].note
              /\ signings'[s].contract = signings[s].contract
              /\ signings'[s].status = "IN_PROGRESS" /\ s \notin past'.asked =>
                    signings[s].status = "IN_PROGRESS",
           \A c \in DOMAIN contract : contract'[c].file = contract[c].file,
           past'.overlapped = past.overlapped, past.asked \subseteq past'.asked,
           \A q \in Requests : RequestAlone(q)'
    PROVE  Alone'
<1>1. Kept
  BY DEF Kept
<1>2. \A n \in DOMAIN notes' : NoteAlone(n)'
  <2> TAKE n \in DOMAIN notes'
  <2>1. NoteAlone(n) /\ NoteSound(n)
    BY DEF Alone, IInv
  <2>2. Untouched(n) => Untouched(n)'
    BY DEF Untouched
  <2>3. QED
    BY <2>1, <2>2 DEF NoteAlone, NoteSound
<1>3. \A s \in DOMAIN signings' : SigningAlone(s)'
  BY <1>1, SigningFrame
<1>4. \A f \in DOMAIN flow' : FlowAlone(f)'
  <2> TAKE f \in DOMAIN flow'
  <2>1. FlowAlone(f)
    BY DEF Alone
  <2>2. \A g \in DOMAIN flow : Running(g)' <=> Running(g)
    BY DEF Running
  <2>3. QED
    BY <1>1, <2>1, <2>2, FlowFrame DEF FlowAlone
<1>5. QED
  BY <1>2, <1>3, <1>4 DEF Alone

(* Another flow of the note that is not overlapped does not come up. *)
LEMMA StillOnly ==
    ASSUME Alone, NEW f \in DOMAIN flow, Running(f), DOMAIN flow' = DOMAIN flow,
           \A h \in DOMAIN flow : h # f => flow'[h] = flow[h], past' = past,
           flow[f].note \notin past.overlapped
    PROVE  \A g \in DOMAIN flow' : Running(g)' /\ flow'[g].note = flow[f].note => g = f
<1> SUFFICES ASSUME NEW g \in DOMAIN flow, Running(g)', flow'[g].note = flow[f].note, g # f
             PROVE  FALSE
  OBVIOUS
<1>1. flow'[g] = flow[g] /\ Running(g)
  BY DEF Running
<1>2. FlowAlone(f)
  BY DEF Alone
<1>3. QED
  BY <1>1, <1>2 DEF FlowAlone

(* A step of a job that may write its note, add a record for it or write   *)
(* one, and the chain.                                                     *)
LEMMA FlowAloneMoves ==
    ASSUME IInv, Alone, Kept, NEW f \in DOMAIN flow, Running(f),
           DOMAIN flow' = DOMAIN flow, \A h \in DOMAIN flow : h # f => flow'[h] = flow[h],
           flow'[f].note = flow[f].note,
           DOMAIN notes' = DOMAIN notes,
           \A m \in DOMAIN notes : m # flow[f].note => notes'[m] = notes[m],
           \A s \in DOMAIN signings' \ DOMAIN signings : signings'[s].note = flow[f].note,
           request' = request, past' = past,
           NoteAlone(flow[f].note)', FlowAlone(f)',
           \A s \in DOMAIN signings' : SigningAlone(s)'
    PROVE  Alone'
<1> DEFINE n == flow[f].note
<1>1. n \in DOMAIN notes /\ notes[n].status # "IN_PROGRESS"
  BY FlowTyped DEF Alone, FlowAlone, NoteIn
<1>2. \A m \in DOMAIN notes : m # n /\ Untouched(m) => Untouched(m)'
  BY DEF Untouched, Kept
<1>3. \A m \in DOMAIN notes' : NoteAlone(m)'
  <2> SUFFICES ASSUME NEW m \in DOMAIN notes, m # n PROVE NoteAlone(m)'
    OBVIOUS
  <2>1. NoteAlone(m) /\ NoteSound(m) /\ notes'[m] = notes[m]
    BY DEF Alone, IInv
  <2>2. notes[m].signing # 0 => signings'[notes[m].signing].note = m
    BY <2>1 DEF NoteAlone, NoteSound, Kept
  <2>3. QED
    BY <1>2, <2>1, <2>2 DEF NoteAlone
<1>4. \A q \in Requests : RequestAlone(q)'
  <2> TAKE q \in Requests
  <2> DEFINE m == request[q].note
  <2>1. RequestAlone(q) /\ request'[q] = request[q] /\ NoteOf(q) = notes[m]
        /\ NoteOf(q)' = notes'[m]
        /\ (request[q].step \notin {"idle", "write_decision", "create_note"} =>
              m \in DOMAIN notes)
    BY RequestTyped DEF Alone, NoteOf
  <2>2. CASE m = n
    <3>1. /\ request[q].step \notin {"write_note", "store_file", "restore_status",
                                     "set_processing", "add_flow"}
      BY <1>1, <2>1, <2>2 DEF RequestAlone, Untouched
    <3>2. notes'[n].status # "IN_PROGRESS"
      BY <1>1 DEF Kept
    <3>3. request[q].step = "add_event" => notes'[n].issued # NoFile
      <4>1. request[q].step = "add_event" => notes[n].issued # NoFile
        BY <2>1, <2>2 DEF RequestAlone
      <4>2. notes[n].issued # NoFile => notes[n].status = "ISSUED"
        BY <1>1 DEF Alone, NoteAlone
      <4>3. QED
        BY <1>1, <4>1, <4>2 DEF Kept
    <3>4. QED
      BY <2>1, <2>2, <3>1, <3>2, <3>3 DEF RequestAlone
  <2>3. CASE m # n
    BY <1>2, <2>1, <2>3 DEF RequestAlone
  <2>4. QED
    BY <2>2, <2>3
<1>5. \A h \in DOMAIN flow' : FlowAlone(h)'
  <2> SUFFICES ASSUME NEW h \in DOMAIN flow, h # f PROVE FlowAlone(h)'
    OBVIOUS
  <2>1. FlowAlone(h) /\ flow'[h] = flow[h] /\ flow[h].note \in DOMAIN notes
    BY FlowTyped DEF Alone
  <2>2. ASSUME Running(h), flow[h].note \notin past'.overlapped
        PROVE  /\ notes'[flow[h].note].signing = notes[flow[h].note].signing
               /\ \A g \in DOMAIN flow' : Running(g)' /\ flow'[g].note = flow[h].note => g = h
    <3>1. \A g \in DOMAIN flow : Running(g) /\ flow[g].note = flow[h].note => g = h
      BY <2>1, <2>2 DEF FlowAlone
    <3>2. flow[h].note # n
      BY <3>1
    <3>3. \A g \in DOMAIN flow : g # f => (Running(g)' <=> Running(g))
      BY DEF Running
    <3>4. QED
      BY <2>1, <3>1, <3>2, <3>3
  <2>3. QED
    BY <2>1, <2>2, FlowFrame
<1>6. QED
  BY <1>3, <1>4, <1>5 DEF Alone

(* A step of a job that writes nothing but where the flow is. *)
LEMMA FlowAloneGoes ==
    ASSUME IInv, Alone, NEW f \in DOMAIN flow, Running(f),
           NEW g \in FlowState, flow' = [flow EXCEPT ![f] = g], g.note = flow[f].note,
           UNCHANGED <<notes, signings, contract, request, past>>,
           g.stage # "issue" \/ g.step = "return" => NoteIn(f).status = "ISSUED",
           g.step \in {"name_record", "create_on_chain", "save_contract", "set_ready"} =>
              g.signing = NoteIn(f).signing /\ NoteIn(f).signing # 0,
           g.step = "create_on_chain" => g.file = NoteIn(f).issued,
           g.step # "save_contract",
           g.stage = "finalise" \/ (g.stage = "on-chain" /\ g.step = "return") =>
              (OnChain(f) /\ flow[f].step # "save_contract") \/ g.step \in {"done", "failed"}
    PROVE  Alone'
<1> DEFINE n == flow[f].note
<1>1. /\ flow[f] \in FlowState /\ n \in DOMAIN notes /\ FlowAlone(f) /\ NoteIn(f) = notes[n]
      /\ notes[n].signing \in {0} \cup DOMAIN signings /\ NoteAlone(n)
  BY FlowTyped DEF Alone, NoteIn
<1>2. /\ DOMAIN flow' = DOMAIN flow /\ flow'[f] = g
      /\ \A h \in DOMAIN flow : h # f => flow'[h] = flow[h]
  BY FlowCounts DEF IInv
<1>3. Kept
  BY DEF Kept
<1>4. \A s \in DOMAIN signings' : SigningAlone(s)'
  BY <1>3, SigningFrame
<1>5. NoteAlone(n)'
  <2>1. notes[n].status # "IN_PROGRESS"
    BY <1>1 DEF FlowAlone
  <2>2. QED
    BY <1>1, <2>1 DEF NoteAlone
<1>6. FlowAlone(f)'
  <2>1. NoteIn(f)' = notes[n] /\ notes[n].status # "IN_PROGRESS"
    BY <1>1, <1>2 DEF NoteIn, FlowAlone
  <2>2. g.step \in {"name_record", "create_on_chain", "save_contract", "set_ready"} =>
           signings[g.signing].note = n
    BY <1>1 DEF NoteAlone
  <2>3. n \notin past.overlapped =>
          \A h \in DOMAIN flow' : Running(h)' /\ flow'[h].note = flow[f].note => h = f
    BY <1>2, StillOnly
  <2>4. ASSUME Running(f)', OnChain(f)', n \notin past.overlapped
        PROVE  signings[notes[n].signing].contract # 0
    <3>1. /\ g.step \notin {"done", "failed"}
          /\ g.stage = "finalise" \/ (g.stage = "on-chain" /\ g.step = "return")
      <4>1. flow'[f].step \notin {"done", "failed"}
        BY <2>4 DEF Running
      <4>2. \/ flow'[f].stage = "finalise"
            \/ flow'[f].stage = "on-chain" /\ flow'[f].step \in {"save_contract", "return"}
        BY <2>4 DEF OnChain
      <4>3. QED
        BY <1>2, <4>1, <4>2
    <3>2. OnChain(f) /\ flow[f].step # "save_contract"
      BY <3>1
    <3>3. QED
      BY <1>1, <2>4, <3>2 DEF FlowAlone
  <2>5. QED
    BY <1>1, <1>2, <2>1, <2>2, <2>3, <2>4 DEF FlowAlone
<1>7. QED
  BY <1>1, <1>2, <1>3, <1>4, <1>5, <1>6, FlowAloneMoves

LEMMA BacksAlone ==
    ASSUME IInv, Alone, NEW f \in DOMAIN flow, Running(f),
           UNCHANGED <<notes, signings, contract, request, past>>,
           NEW g \in FlowState, flow' = [flow EXCEPT ![f] = g], g.note = flow[f].note,
           g.stage = flow[f].stage, g.step \in {"run", "failed"}
    PROVE  Alone'
<1>1. g.stage # "issue" => NoteIn(f).status = "ISSUED"
  BY DEF Alone, FlowAlone
<1>2. flow[f].stage = "finalise" => OnChain(f) /\ flow[f].step # "save_contract"
  BY FlowTyped DEF OnChain, FlowSound
<1>3. QED
  BY <1>1, <1>2, FlowAloneGoes

LEMMA FaultAlone ==
    ASSUME IInv, Alone, NEW f \in DOMAIN flow,
           \/ OperationFails(f) \/ ProcessDies(f)
           \/ Throw(f) /\ Running(f) /\ UNCHANGED <<notes, signings, contract, Aside>>
    PROVE  Alone'
<1>1. Running(f) /\ UNCHANGED <<notes, signings, contract, request, past>>
  BY DEF OperationFails, ProcessDies, Aside
<1>2. CASE Throw(f)
  <2>1. PICK g \in FlowState :
           /\ flow' = [flow EXCEPT ![f] = g]
           /\ g.note = flow[f].note /\ g.stage = flow[f].stage
           /\ g.step \in {"run", "failed"}
    BY <1>1, <1>2, Thrown
  <2>2. QED
    BY <1>1, <2>1, BacksAlone
<1>3. CASE ProcessDies(f)
  <2>1. flow[f] \in FlowState /\ MaxStalledCount \in Nat
    BY FlowTyped, DealDeskAssumption
  <2>2. CASE flow[f].stalls < MaxStalledCount
    <3> DEFINE g == [flow[f] EXCEPT !.step = "run", !.stalls = flow[f].stalls + 1]
    <3>1. flow' = [flow EXCEPT ![f] = g]
      BY <1>3, <2>2 DEF ProcessDies
    <3>2. flow[f].stalls + 1 \in 0..MaxStalledCount
      BY <2>1, <2>2 DEF FlowState
    <3>3. g \in FlowState /\ g.step = "run" /\ g.note = flow[f].note /\ g.stage = flow[f].stage
      BY <2>1, <3>2 DEF FlowState
    <3> HIDE DEF g
    <3>4. QED
      BY <1>1, <3>1, <3>3, BacksAlone
  <2>3. CASE ~(flow[f].stalls < MaxStalledCount)
    <3> DEFINE g == [flow[f] EXCEPT !.step = "failed"]
    <3>1. flow' = [flow EXCEPT ![f] = g]
      BY <1>3, <2>3 DEF ProcessDies
    <3>2. g \in FlowState /\ g.step = "failed" /\ g.note = flow[f].note
          /\ g.stage = flow[f].stage
      BY <2>1 DEF FlowState
    <3> HIDE DEF g
    <3>3. QED
      BY <1>1, <3>1, <3>2, BacksAlone
  <2>4. QED
    BY <2>2, <2>3
<1>4. QED
  BY <1>2, <1>3 DEF OperationFails

LEMMA ReadAlone ==
    ASSUME IInv, Alone, NEW f \in DOMAIN flow, ReadIssued(f) \/ ReadNamed(f) \/ Return(f)
    PROVE  Alone'
<1>1. /\ Running(f) /\ UNCHANGED <<notes, signings, contract, Aside>>
      /\ UNCHANGED <<notes, signings, contract, request, past>>
  BY DEF ReadIssued, ReadNamed, Return, Does, Running, Aside
<1>2. /\ flow[f] \in FlowState /\ FlowSound(f) /\ FlowAlone(f) /\ NoteIn(f) \in Note
      /\ Named(f) => NoteIn(f).signing # 0
      /\ flow[f].stage # "issue" \/ flow[f].step = "return" => NoteIn(f).status = "ISSUED"
  BY FlowTyped DEF Alone, FlowAlone, FlowSound, NoteIn
<1>3. CASE Throw(f)
  BY <1>1, <1>3, FaultAlone
<1>4. CASE ReadIssued(f) /\ ~Throw(f)
  <2> DEFINE g == [flow[f] EXCEPT !.signing = NoteIn(f).signing, !.file = NoteIn(f).issued,
                                  !.step = "create_on_chain"]
  <2>1. flow' = [flow EXCEPT ![f] = g] /\ NoteIn(f).status = "ISSUED" /\ flow[f].stage = "on-chain"
    BY <1>4 DEF ReadIssued, Does
  <2>2. /\ g \in FlowState /\ g.note = flow[f].note /\ g.stage = flow[f].stage
        /\ g.signing = NoteIn(f).signing /\ g.step = "create_on_chain"
        /\ g.file = NoteIn(f).issued
    BY <1>2 DEF FlowState, Note
  <2>3. NoteIn(f).signing # 0
    BY <1>2, <2>1 DEF Named
  <2> HIDE DEF g
  <2>4. QED
    BY <1>1, <2>1, <2>2, <2>3, FlowAloneGoes
<1>5. CASE ReadNamed(f) /\ ~Throw(f)
  <2> DEFINE g == [flow[f] EXCEPT !.signing = NoteIn(f).signing, !.step = "set_ready"]
  <2>1. /\ flow' = [flow EXCEPT ![f] = g] /\ flow[f].stage = "finalise" /\ flow[f].step = "run"
        /\ NoteIn(f).signing # 0
    BY <1>5 DEF ReadNamed, Does
  <2>2. /\ g \in FlowState /\ g.note = flow[f].note /\ g.stage = flow[f].stage
        /\ g.signing = NoteIn(f).signing /\ g.step = "set_ready"
    BY <1>2 DEF FlowState, Note
  <2>3. OnChain(f) /\ NoteIn(f).status = "ISSUED"
    BY <1>2, <2>1 DEF OnChain
  <2> HIDE DEF g
  <2>4. QED
    BY <1>1, <2>1, <2>2, <2>3, FlowAloneGoes
<1>6. CASE Return(f)
  <2> DEFINE g == IF flow[f].stage = "finalise" THEN [flow[f] EXCEPT !.step = "done"]
                  ELSE [NewFlow(flow[f].note) EXCEPT !.stage = NextStage(flow[f].stage)]
  <2>1. flow' = [flow EXCEPT ![f] = g] /\ flow[f].step = "return"
    BY <1>6 DEF Return
  <2>2. flow'[f] = g /\ flow'[f] \in FlowState /\ flow'[f].note = flow[f].note
    <3>1. IInv'
      BY <1>6, ReturnOK
    <3>2. DOMAIN flow' = DOMAIN flow /\ flow'[f] = g
      BY <2>1
    <3>3. flow' \in Seq(FlowState)
      BY <3>1 DEF IInv, TypeOK
    <3>4. flow'[f] \in FlowState
      BY <3>2, <3>3, ElementOfSeq, LenProperties
    <3>5. g.note = flow[f].note
      BY <1>2 DEF FlowState, NewFlow
    <3>6. QED
      BY <3>2, <3>4, <3>5
  <2>3. \/ flow[f].stage = "finalise" /\ g.step = "done"
        \/ /\ g.step = "run"
           /\ flow[f].stage # "on-chain" => g.stage # "finalise"
    BY <1>2 DEF FlowState, NewFlow, NextStage, Stages
  <2>4. NoteIn(f).status = "ISSUED"
    BY <1>2, <2>1
  <2>5. flow[f].stage = "on-chain" => OnChain(f)
    BY <2>1 DEF OnChain
  <2> HIDE DEF g
  <2>6. QED
    BY <1>1, <2>1, <2>2, <2>3, <2>4, <2>5, FlowAloneGoes
<1>7. QED
  BY <1>3, <1>4, <1>5, <1>6

(* The issued file shows the content the note has. *)
LEMMA IssueNoteAlone == ASSUME IInv, Alone, NEW f \in DOMAIN flow, IssueNote(f) PROVE Alone'
<1> DEFINE n == flow[f].note
           new == [NoteIn(f) EXCEPT !.status = "ISSUED", !.issued = NoteIn(f).content]
           g == [flow[f] EXCEPT !.step = "return"]
<1>1. /\ flow[f].stage = "issue" /\ flow[f].step = "run" /\ Running(f)
      /\ SetNote(n, new) /\ flow' = [flow EXCEPT ![f] = g]
      /\ UNCHANGED <<signings, contract, request, past>>
  BY DEF IssueNote, Does, Running, Aside
<1>2. /\ flow[f] \in FlowState /\ n \in DOMAIN notes /\ NoteIn(f) = notes[n] /\ notes[n] \in Note
      /\ notes[n].signing \in {0} \cup DOMAIN signings /\ NoteAlone(n) /\ FlowAlone(f)
  BY FlowTyped DEF Alone, NoteIn
<1>3. /\ new \in Note /\ new.status = "ISSUED" /\ new.issued = new.content
      /\ new.issued = notes[n].content /\ new.signing = notes[n].signing
  BY <1>2 DEF Note, NoteStatus
<1>4. g \in FlowState /\ g.note = n /\ g.stage = "issue" /\ g.step = "return"
  BY <1>1, <1>2 DEF FlowState
<1> HIDE DEF new, g
<1>5. /\ DOMAIN notes' = DOMAIN notes /\ notes'[n] = new
      /\ \A m \in DOMAIN notes : m # n => notes'[m] = notes[m]
  BY <1>1, <1>2, <1>3, NoteSet
<1>6. /\ DOMAIN flow' = DOMAIN flow /\ flow'[f] = g
      /\ \A h \in DOMAIN flow : h # f => flow'[h] = flow[h]
  BY <1>1, <1>4, FlowCounts DEF IInv
<1>7. Kept
  <2>1. notes[n].status = "ISSUED" => new.issued = notes[n].issued
    BY <1>2, <1>3 DEF NoteAlone
  <2>2. \A m \in DOMAIN notes :
          /\ notes[m].status # "IN_PROGRESS" => notes'[m].status # "IN_PROGRESS"
          /\ notes[m].status = "ISSUED" =>
                notes'[m].status = "ISSUED" /\ notes'[m].issued = notes[m].issued
    BY <1>3, <1>5, <2>1
  <2>3. QED
    BY <1>1, <1>5, <2>2 DEF Kept
<1>8. NoteAlone(n)'
  BY <1>1, <1>2, <1>3, <1>4, <1>5, <1>6 DEF NoteAlone
<1>9. \A s \in DOMAIN signings' : SigningAlone(s)'
  BY <1>1, <1>7, SigningFrame
<1>10. FlowAlone(f)'
  <2>1. NoteIn(f)' = new /\ flow'[f].note = n
    BY <1>4, <1>5, <1>6 DEF NoteIn
  <2>2. n \notin past.overlapped =>
          \A h \in DOMAIN flow' : Running(h)' /\ flow'[h].note = n => h = f
    BY <1>1, <1>6, StillOnly
  <2>3. ~OnChain(f)'
    BY <1>4, <1>6 DEF OnChain
  <2>4. QED
    BY <1>1, <1>3, <1>4, <1>6, <2>1, <2>2, <2>3 DEF FlowAlone
<1>11. QED
  BY <1>1, <1>4, <1>5, <1>6, <1>7, <1>8, <1>9, <1>10, FlowAloneMoves

(* The new record is pending and without contract; the flow works for it. *)
LEMMA CreateRecordAlone ==
    ASSUME IInv, Alone, NEW f \in DOMAIN flow, CreateRecord(f) PROVE Alone'
<1> DEFINE n == flow[f].note
           s == Len(signings) + 1
           g == [flow[f] EXCEPT !.signing = s, !.step = "name_record"]
           new == [status |-> "PENDING", contract |-> 0, note |-> n]
<1>1. /\ flow[f].stage = "off-chain" /\ flow[f].step = "run" /\ Running(f)
      /\ signings' = Append(signings, new) /\ flow' = [flow EXCEPT ![f] = g]
      /\ UNCHANGED <<notes, contract, request, past>>
  BY DEF CreateRecord, Does, Running, Aside
<1>2. /\ flow[f] \in FlowState /\ n \in DOMAIN notes /\ n \in NoteId
      /\ notes[n].signing \in {0} \cup DOMAIN signings /\ NoteAlone(n) /\ FlowAlone(f)
      /\ NoteIn(f) = notes[n] /\ notes[n].status = "ISSUED"
  BY <1>1, FlowTyped, Sizes DEF Alone, FlowAlone, NoteIn, IInv
<1>3. new \in Signing /\ new.note = n /\ new.contract = 0 /\ new.status = "PENDING"
  BY <1>2 DEF Signing, SigningStatus
<1> HIDE DEF new
<1>4. /\ DOMAIN signings' = DOMAIN signings \cup {s}
      /\ signings'[s] = new /\ \A t \in DOMAIN signings : signings'[t] = signings[t]
  BY <1>1, <1>3, Domains, AppendProperties DEF IInv, TypeOK
<1>5. /\ DOMAIN flow' = DOMAIN flow /\ flow'[f] = g
      /\ \A h \in DOMAIN flow : h # f => flow'[h] = flow[h]
  BY <1>1
<1>6. /\ flow'[f].note = n /\ flow'[f].stage = "off-chain" /\ flow'[f].step = "name_record"
      /\ flow'[f].signing = s
  BY <1>1, <1>2, <1>5 DEF FlowState
<1> HIDE DEF g, s
<1>7. Kept
  BY <1>1, <1>4 DEF Kept
<1>8. NoteAlone(n)'
  <2>1. notes[n].signing # 0 => signings'[notes[n].signing].note = n
    BY <1>2, <1>4 DEF NoteAlone
  <2>2. QED
    BY <1>1, <1>2, <1>6, <2>1 DEF NoteAlone
<1>9. \A t \in DOMAIN signings' : SigningAlone(t)'
  <2> TAKE t \in DOMAIN signings'
  <2>1. CASE t = s
    BY <1>1, <1>2, <1>3, <1>4, <2>1 DEF SigningAlone
  <2>2. CASE t \in DOMAIN signings
    BY <1>4, <1>7, <2>2, SigningFrame, <1>1
  <2>3. QED
    BY <1>4, <2>1, <2>2
<1>10. FlowAlone(f)'
  <2>1. NoteIn(f)' = notes[n]
    BY <1>1, <1>6 DEF NoteIn
  <2>2. n \notin past.overlapped =>
          \A h \in DOMAIN flow' : Running(h)' /\ flow'[h].note = n => h = f
    BY <1>1, <1>5, StillOnly
  <2>3. ~OnChain(f)'
    BY <1>6 DEF OnChain
  <2>4. QED
    BY <1>1, <1>2, <1>3, <1>4, <1>6, <2>1, <2>2, <2>3 DEF FlowAlone
<1>11. \A t \in DOMAIN signings' \ DOMAIN signings : signings'[t].note = flow[f].note
  BY <1>3, <1>4
<1>12. QED
  BY <1>1, <1>5, <1>6, <1>7, <1>8, <1>9, <1>10, <1>11, FlowAloneMoves

(* The note names the record its flow works for. *)
LEMMA NameRecordAlone == ASSUME IInv, Alone, NEW f \in DOMAIN flow, NameRecord(f) PROVE Alone'
<1> DEFINE n == flow[f].note
           new == [NoteIn(f) EXCEPT !.signing = flow[f].signing]
           g == [flow[f] EXCEPT !.step = "return"]
<1>1. /\ flow[f].step = "name_record" /\ Running(f)
      /\ SetNote(n, new) /\ flow' = [flow EXCEPT ![f] = g]
      /\ UNCHANGED <<signings, contract, request, past>>
  BY DEF NameRecord, Running, Aside
<1>2. /\ flow[f] \in FlowState /\ n \in DOMAIN notes /\ NoteIn(f) = notes[n] /\ notes[n] \in Note
      /\ NoteAlone(n) /\ FlowAlone(f) /\ flow[f].stage = "off-chain"
      /\ flow[f].signing \in {0} \cup DOMAIN signings /\ flow[f].signing # 0
      /\ notes[n].status = "ISSUED" /\ signings[flow[f].signing].note = n
  BY <1>1, FlowTyped DEF Alone, NoteIn, FlowSound, FlowAlone
<1>3. /\ new \in Note /\ new.status = "ISSUED" /\ new.issued = notes[n].issued
      /\ new.content = notes[n].content /\ new.signing = flow[f].signing
  BY <1>2 DEF Note, FlowState
<1>4. g \in FlowState /\ g.note = n /\ g.stage = "off-chain" /\ g.step = "return"
  BY <1>1, <1>2 DEF FlowState
<1> HIDE DEF new, g
<1>5. /\ DOMAIN notes' = DOMAIN notes /\ notes'[n] = new
      /\ \A m \in DOMAIN notes : m # n => notes'[m] = notes[m]
  BY <1>1, <1>2, <1>3, NoteSet
<1>6. /\ DOMAIN flow' = DOMAIN flow /\ flow'[f] = g
      /\ \A h \in DOMAIN flow : h # f => flow'[h] = flow[h]
  BY <1>1, <1>4, FlowCounts DEF IInv
<1>7. Kept
  <2>1. \A m \in DOMAIN notes :
          /\ notes[m].status # "IN_PROGRESS" => notes'[m].status # "IN_PROGRESS"
          /\ notes[m].status = "ISSUED" =>
                notes'[m].status = "ISSUED" /\ notes'[m].issued = notes[m].issued
    BY <1>3, <1>5
  <2>2. QED
    BY <1>1, <1>5, <2>1 DEF Kept
<1>8. NoteAlone(n)'
  BY <1>1, <1>2, <1>3, <1>4, <1>5, <1>6 DEF NoteAlone
<1>9. \A s \in DOMAIN signings' : SigningAlone(s)'
  BY <1>1, <1>7, SigningFrame
<1>10. FlowAlone(f)'
  <2>1. NoteIn(f)' = new /\ flow'[f].note = n
    BY <1>4, <1>5, <1>6 DEF NoteIn
  <2>2. n \notin past.overlapped =>
          \A h \in DOMAIN flow' : Running(h)' /\ flow'[h].note = n => h = f
    BY <1>1, <1>6, StillOnly
  <2>3. ~OnChain(f)'
    BY <1>4, <1>6 DEF OnChain
  <2>4. QED
    BY <1>1, <1>3, <1>4, <1>6, <2>1, <2>2, <2>3 DEF FlowAlone
<1>11. QED
  BY <1>1, <1>4, <1>5, <1>6, <1>7, <1>8, <1>9, <1>10, FlowAloneMoves

(* What is created on chain is the issued file of the note. *)
LEMMA CreateOnChainAlone ==
    ASSUME IInv, Alone, NEW f \in DOMAIN flow, CreateOnChain(f) PROVE Alone'
<1> DEFINE n == flow[f].note
           c == Len(contract) + 1
           g == [flow[f] EXCEPT !.contract = c, !.step = "save_contract"]
           new == [status |-> "PENDING", file |-> flow[f].file]
<1>1. /\ flow[f].step = "create_on_chain" /\ Running(f)
      /\ contract' = Append(contract, new) /\ flow' = [flow EXCEPT ![f] = g]
      /\ UNCHANGED <<notes, signings, request, past>>
  BY DEF CreateOnChain, Running, Aside
<1>2. /\ flow[f] \in FlowState /\ n \in DOMAIN notes /\ NoteAlone(n) /\ FlowAlone(f)
      /\ NoteIn(f) = notes[n] /\ flow[f].stage = "on-chain" /\ notes[n].status = "ISSUED"
      /\ flow[f].file = notes[n].issued /\ flow[f].file \in Contents
      /\ flow[f].signing # 0 /\ signings[flow[f].signing].note = n
  BY <1>1, FlowTyped DEF Alone, FlowAlone, NoteIn, FlowSound, FlowState
<1>3. new \in [status : ChainStatus, file : Contents] /\ new.file = notes[n].issued
  BY <1>2 DEF ChainStatus
<1> HIDE DEF new
<1>4. /\ DOMAIN contract' = DOMAIN contract \cup {c}
      /\ contract'[c] = new /\ \A d \in DOMAIN contract : contract'[d] = contract[d]
  BY <1>1, <1>3, Domains, AppendProperties DEF IInv, TypeOK
<1>5. /\ DOMAIN flow' = DOMAIN flow /\ flow'[f] = g
      /\ \A h \in DOMAIN flow : h # f => flow'[h] = flow[h]
  BY <1>1
<1>6. /\ flow'[f].note = n /\ flow'[f].stage = "on-chain" /\ flow'[f].step = "save_contract"
      /\ flow'[f].signing = flow[f].signing /\ flow'[f].contract = c
  BY <1>1, <1>2, <1>5 DEF FlowState
<1> HIDE DEF g, c
<1>7. Kept
  BY <1>1, <1>4 DEF Kept
<1>8. NoteAlone(n)'
  BY <1>1, <1>2, <1>6 DEF NoteAlone
<1>9. \A s \in DOMAIN signings' : SigningAlone(s)'
  BY <1>1, <1>7, SigningFrame
<1>10. FlowAlone(f)'
  <2>1. NoteIn(f)' = notes[n]
    BY <1>1, <1>6 DEF NoteIn
  <2>2. n \notin past.overlapped =>
          /\ \A h \in DOMAIN flow' : Running(h)' /\ flow'[h].note = n => h = f
          /\ flow[f].signing = notes[n].signing
    <3>1. n \notin past.overlapped =>
            \A h \in DOMAIN flow' : Running(h)' /\ flow'[h].note = n => h = f
      BY <1>1, <1>5, StillOnly
    <3>2. n \notin past.overlapped => flow[f].signing = notes[n].signing
      BY <1>1, <1>2 DEF FlowAlone
    <3>3. QED
      BY <3>1, <3>2
  <2>3. QED
    BY <1>1, <1>2, <1>3, <1>4, <1>6, <2>1, <2>2 DEF FlowAlone
<1>11. QED
  BY <1>1, <1>5, <1>6, <1>7, <1>8, <1>9, <1>10, FlowAloneMoves

(* A contract is saved in a record of the note whose file it shows, and a  *)
(* record is opened when the one the note names has a contract.            *)
LEMMA SigningJobAlone ==
    ASSUME IInv, Alone, NEW f \in DOMAIN flow, SaveContract(f) \/ SetReady(f) PROVE Alone'
<1> DEFINE n == flow[f].note
           s == flow[f].signing
           g == [flow[f] EXCEPT !.step = "return"]
<1>1. /\ flow[f].step \in {"save_contract", "set_ready"} /\ Running(f)
      /\ flow' = [flow EXCEPT ![f] = g]
      /\ UNCHANGED <<notes, contract, request, past>>
  BY DEF SaveContract, SetReady, Running, Aside
<1>2. /\ flow[f] \in FlowState /\ n \in DOMAIN notes /\ NoteAlone(n) /\ FlowAlone(f)
      /\ NoteIn(f) = notes[n] /\ flow[f].stage \in {"on-chain", "finalise"}
      /\ notes[n].status = "ISSUED" /\ signings[s].note = n
      /\ notes[n].signing \in {0} \cup DOMAIN signings
      /\ flow[f].step = "save_contract" =>
            flow[f].contract # 0 /\ contract[flow[f].contract].file = notes[n].issued
      /\ flow[f].step = "set_ready" => flow[f].stage = "finalise"
  BY <1>1, FlowTyped DEF Alone, FlowAlone, NoteIn, FlowSound, FlowState
<1>3. /\ s \in DOMAIN signings /\ signings[s] \in Signing /\ DOMAIN signings' = DOMAIN signings
      /\ \A t \in DOMAIN signings : t # s => signings'[t] = signings[t]
      /\ SaveContract(f) => signings'[s] = [signings[s] EXCEPT !.contract = flow[f].contract]
      /\ SetReady(f) => signings'[s] = [signings[s] EXCEPT !.status = "IN_PROGRESS"]
      /\ SaveContract(f) <=> flow[f].step = "save_contract"
      /\ SetReady(f) <=> flow[f].step = "set_ready"
  BY SigningJobOK, OthersTyped DEF SaveContract, SetReady
<1>4. /\ signings'[s].note = n
      /\ flow[f].step = "save_contract" =>
            /\ signings'[s].contract = flow[f].contract
            /\ signings'[s].status = signings[s].status
      /\ flow[f].step = "set_ready" => signings'[s].contract = signings[s].contract
  BY <1>2, <1>3 DEF Signing
<1>5. /\ DOMAIN flow' = DOMAIN flow /\ flow'[f] = g
      /\ \A h \in DOMAIN flow : h # f => flow'[h] = flow[h]
  BY <1>1
<1>6. /\ flow'[f].note = n /\ flow'[f].stage = flow[f].stage /\ flow'[f].step = "return"
      /\ flow'[f].signing = s
  BY <1>1, <1>2, <1>5 DEF FlowState
<1> HIDE DEF g
<1>7. Kept
  <2>1. \A t \in DOMAIN signings :
          /\ signings'[t].note = signings[t].note
          /\ signings[t].contract # 0 => signings'[t].contract # 0
    <3> SUFFICES signings[s].contract # 0 => signings'[s].contract # 0
      BY <1>2, <1>3, <1>4
    <3>1. QED
      BY <1>1, <1>2, <1>4
  <2>2. QED
    BY <1>1, <1>3, <2>1 DEF Kept
<1>8. NoteAlone(n)'
  <2>1. notes[n].signing # 0 => signings'[notes[n].signing].note = n
    BY <1>2, <1>7 DEF NoteAlone, Kept
  <2>2. QED
    BY <1>1, <1>2, <1>6, <2>1 DEF NoteAlone
<1>9. n \notin past.overlapped =>
        /\ s = notes[n].signing
        /\ flow[f].step = "set_ready" => signings[s].contract # 0
  <2> SUFFICES ASSUME n \notin past.overlapped
               PROVE  /\ s = notes[n].signing
                      /\ flow[f].step = "set_ready" => signings[s].contract # 0
    OBVIOUS
  <2>1. s = notes[n].signing
    BY <1>1, <1>2 DEF FlowAlone
  <2>2. flow[f].step = "set_ready" => OnChain(f) /\ flow[f].step # "save_contract"
    BY <1>2 DEF OnChain
  <2>3. OnChain(f) /\ flow[f].step # "save_contract" => signings[notes[n].signing].contract # 0
    BY <1>1, <1>2 DEF FlowAlone
  <2>4. QED
    BY <2>1, <2>2, <2>3
<1>10. \A t \in DOMAIN signings' : SigningAlone(t)'
  <2> TAKE t \in DOMAIN signings'
  <2>1. CASE t # s
    BY <1>1, <1>3, <1>7, <2>1, SigningFrame
  <2>2. CASE t = s /\ flow[f].step = "save_contract"
    <3>1. signings'[t].contract # 0 /\ contract'[signings'[t].contract].file = notes'[n].issued
      BY <1>1, <1>2, <1>4, <2>2
    <3>2. signings'[t].note = n /\ notes'[n].status = "ISSUED"
      BY <1>1, <1>2, <1>4, <2>2
    <3>3. QED
      BY <3>1, <3>2 DEF SigningAlone
  <2>3. CASE t = s /\ flow[f].step = "set_ready"
    <3>1. signings'[t].note = n /\ notes'[n].status = "ISSUED"
          /\ signings'[t].contract = signings[s].contract
      BY <1>1, <1>2, <1>4, <2>3
    <3>2. signings[s].contract # 0 => contract'[signings[s].contract].file = notes'[n].issued
      <4>1. SigningAlone(s)
        BY <1>3 DEF Alone
      <4>2. QED
        BY <1>1, <1>2, <4>1 DEF SigningAlone
    <3>3. n \notin past'.overlapped => signings[s].contract # 0
      BY <1>1, <1>9, <2>3
    <3>4. QED
      BY <3>1, <3>2, <3>3 DEF SigningAlone
  <2>4. QED
    BY <1>1, <2>1, <2>2, <2>3
<1>11. FlowAlone(f)'
  <2>1. NoteIn(f)' = notes[n]
    BY <1>1, <1>6 DEF NoteIn
  <2>2. n \notin past.overlapped =>
          \A h \in DOMAIN flow' : Running(h)' /\ flow'[h].note = n => h = f
    BY <1>1, <1>5, StillOnly
  <2>3. n \notin past.overlapped => signings'[notes[n].signing].contract # 0
    BY <1>1, <1>2, <1>4, <1>9
  <2>4. QED
    BY <1>1, <1>2, <1>6, <2>1, <2>2, <2>3 DEF FlowAlone
<1>12. QED
  BY <1>1, <1>3, <1>5, <1>6, <1>7, <1>8, <1>10, <1>11, FlowAloneMoves

(* The flows, by one of their steps. *)
LEMMA FlowStepAlone ==
    ASSUME IInv, Alone, NEW f \in DOMAIN flow, FlowStep(f) \/ OperationFails(f) \/ ProcessDies(f)
    PROVE  Alone'
BY IssueNoteAlone, CreateRecordAlone, NameRecordAlone, CreateOnChainAlone, SigningJobAlone,
   ReadAlone, FaultAlone DEF FlowStep

LEMMA RequestStays ==
    ASSUME Alone, NEW q \in Requests, request'[q] = request[q], UNCHANGED <<notes, flow>>,
           DOMAIN signings' = DOMAIN signings,
           \A s \in DOMAIN signings : signings'[s].note = signings[s].note
    PROVE  RequestAlone(q)'
<1>1. RequestAlone(q) /\ NoteOf(q)' = NoteOf(q)
  BY DEF Alone, NoteOf
<1>2. Untouched(request[q].note) => Untouched(request[q].note)'
  BY DEF Untouched
<1>3. QED
  BY <1>1, <1>2 DEF RequestAlone

(* The hourly check, the signing API, the parties, and the link. *)
LEMMA OthersAlone ==
    ASSUME IInv, Alone,
           \/ \E k \in Checkers : CheckStep(k) \/ CheckFails(k)
           \/ \E s \in DOMAIN signings, status \in SigningStatus : SetSigningStatus(s, status)
           \/ \E c \in DOMAIN contract, s \in ChainStatus : Settle(c, s)
           \/ LinkSigning
    PROVE  Alone'
<1>1. UNCHANGED <<notes, flow, request>> /\ past'.overlapped = past.overlapped
      /\ past.asked \subseteq past'.asked
  <2>1. ASSUME NEW s \in DOMAIN signings, NEW status \in SigningStatus,
               SetSigningStatus(s, status)
        PROVE  past'.overlapped = past.overlapped /\ past.asked \subseteq past'.asked
    BY <2>1, OthersTyped DEF SetSigningStatus
  <2>2. QED
    BY <2>1 DEF CheckStep, BeginCheck, AskContract, SetSigning, SetDeal, CheckFails, Apart,
          SetSigningStatus, Settle, LinkSigning
<1>2. /\ DOMAIN signings' = DOMAIN signings
      /\ \A t \in DOMAIN signings :
            /\ signings'[t].note = signings[t].note
            /\ signings'[t].contract = signings[t].contract
            /\ signings'[t].status = "IN_PROGRESS" /\ t \notin past'.asked =>
                  signings[t].status = "IN_PROGRESS"
  <2>1. ASSUME NEW s \in DOMAIN signings, NEW status \in SigningStatus,
               signings' = [signings EXCEPT ![s].status = status], UNCHANGED <<notes, contract>>,
               status # "IN_PROGRESS" \/ s \in past'.asked
        PROVE  /\ DOMAIN signings' = DOMAIN signings
               /\ \A t \in DOMAIN signings :
                     /\ signings'[t].note = signings[t].note
                     /\ signings'[t].contract = signings[t].contract
                     /\ signings'[t].status = "IN_PROGRESS" /\ t \notin past'.asked =>
                           signings[t].status = "IN_PROGRESS"
    <3>1. /\ DOMAIN signings' = DOMAIN signings
          /\ signings'[s] = [signings[s] EXCEPT !.status = status]
          /\ \A t \in DOMAIN signings : t # s => signings'[t] = signings[t]
      BY <2>1, SigningStatusSet
    <3>2. signings[s] \in Signing
      BY OthersTyped
    <3>3. /\ signings'[s].note = signings[s].note
          /\ signings'[s].contract = signings[s].contract /\ signings'[s].status = status
      BY <3>1, <3>2 DEF Signing
    <3>4. QED
      BY <2>1, <3>1, <3>3
  <2>2. ASSUME NEW s \in DOMAIN signings, NEW status \in SigningStatus,
               SetSigningStatus(s, status)
        PROVE  s \in past'.asked
    BY <2>2, OthersTyped DEF SetSigningStatus
  <2>3. ASSUME NEW k \in Checkers, SetSigning(k)
        PROVE  /\ check[k].signing \in DOMAIN signings
               /\ check[k].found \in SigningStatus /\ check[k].found # "IN_PROGRESS"
    BY <2>3, OthersTyped DEF SetSigning, CheckSound, CheckState, ChainStatus, SigningStatus
  <2>4. \/ signings' = signings
        \/ \E k \in Checkers : SetSigning(k)
        \/ \E s \in DOMAIN signings, status \in SigningStatus : SetSigningStatus(s, status)
    BY DEF CheckStep, BeginCheck, AskContract, SetDeal, CheckFails, Settle, LinkSigning
  <2>5. CASE \E k \in Checkers : SetSigning(k)
    <3>1. PICK k \in Checkers : SetSigning(k)
      BY <2>5
    <3>2. QED
      BY <2>1, <2>3, <3>1 DEF SetSigning, Apart
  <2>6. CASE \E s \in DOMAIN signings, status \in SigningStatus : SetSigningStatus(s, status)
    BY <2>1, <2>2, <2>6 DEF SetSigningStatus
  <2>7. QED
    BY <2>4, <2>5, <2>6
<1>3. DOMAIN contract' = DOMAIN contract
      /\ \A c \in DOMAIN contract : contract'[c].file = contract[c].file
  <2>1. contract' = contract \/ \E c \in DOMAIN contract, s \in ChainStatus : Settle(c, s)
    BY DEF CheckStep, BeginCheck, AskContract, SetSigning, SetDeal, CheckFails, Apart,
          SetSigningStatus, LinkSigning
  <2>2. QED
    BY <2>1, SettleOK
<1>4. \A q \in Requests : RequestAlone(q)'
  BY <1>1, <1>2, RequestStays
<1>5. QED
  BY <1>1, <1>2, <1>3, <1>4, SameNotes

(* A handler that only goes on. *)
LEMMA RequestAloneGoes ==
    ASSUME IInv, Alone, NEW only, Requests = {only},
           UNCHANGED <<notes, signings, contract, flow, past>>, RequestAlone(only)'
    PROVE  Alone'
BY SameNotes

LEMMA HandlerAlone ==
    ASSUME IInv, Alone, NEW only, Requests = {only},
           \/ \E d \in Decision : BeginDecision(only, d)
           \/ WriteDecision(only) \/ BeginPostNote(only) \/ LinkNote(only)
           \/ BeginUpdate(only) \/ ReadNote(only) \/ CheckNote(only)
           \/ BeginIssue(only) \/ IssuableNote(only) \/ StoreFile(only) \/ ReadyToIssue(only)
           \/ \E n \in DOMAIN notes : BeginSigningEvent(only, n)
           \/ RequestFails(only)
    PROVE  Alone'
<1> DEFINE r == request[only]
           s == request'[only]
<1>1. /\ only \in Requests /\ r \in RequestState /\ request \in [Requests -> RequestState]
      /\ RequestAlone(only)
  BY RequestTyped DEF IInv, TypeOK, Alone
<1>2. UNCHANGED <<notes, signings, contract, flow, past>>
  BY DEF BeginDecision, WriteDecision, BeginPostNote, LinkNote, BeginUpdate, ReadNote, CheckNote,
     BeginIssue, IssuableNote, StoreFile, ReadyToIssue, BeginSigningEvent, RequestFails,
     Elsewhere
<1>3. s.step \in {"idle", "write_decision", "create_note", "link_note", "read_note", "issuable",
                  "ready"} => Alone'
  <2> SUFFICES ASSUME s.step \in {"idle", "write_decision", "create_note", "link_note",
                                  "read_note", "issuable", "ready"}
               PROVE  Alone'
    OBVIOUS
  <2>1. RequestAlone(only)'
    BY DEF RequestAlone
  <2>2. QED
    BY <1>2, <2>1, RequestAloneGoes
<1>4. End(only) => Alone'
  BY <1>1, <1>3, IdleTyped DEF End
<1>5. ASSUME NEW step \in RequestSteps, Go(only, step)
      PROVE  s.step = step /\ s.note = r.note /\ s.read = r.read
  BY <1>1, <1>5 DEF Go, RequestState
<1>6. ASSUME NEW step \in RequestSteps, NEW n,
             request' = [request EXCEPT ![only] = [Idle EXCEPT !.step = step, !.note = n]]
      PROVE  s.step = step /\ s.note = n
  BY <1>1, <1>6, IdleTyped DEF RequestState
<1>7. CASE \E d \in Decision : BeginDecision(only, d)
  <2>1. PICK d \in Decision : BeginDecision(only, d)
    BY <1>7
  <2>2. s.step = "write_decision"
    BY <1>1, <2>1, IdleTyped DEF BeginDecision, RequestState
  <2>3. QED
    BY <1>3, <2>2
<1>8. CASE WriteDecision(only)
  BY <1>3, <1>4, <1>5, <1>8 DEF WriteDecision, RequestSteps
<1>9. CASE BeginPostNote(only)
  BY <1>3, <1>5, <1>9 DEF BeginPostNote, RequestSteps
<1>10. CASE LinkNote(only) \/ RequestFails(only)
  BY <1>4, <1>10 DEF LinkNote, RequestFails
<1>11. CASE BeginUpdate(only)
  BY <1>3, <1>6, <1>11 DEF BeginUpdate, RequestSteps
<1>12. CASE BeginIssue(only)
  BY <1>3, <1>6, <1>12 DEF BeginIssue, RequestSteps
<1>13. CASE ReadNote(only) \/ StoreFile(only)
  <2>1. PICK step \in {"check_note", "restore_status"} :
          /\ request' = [request EXCEPT ![only].step = step, ![only].read = NoteOf(only)]
          /\ step = "restore_status" => r.step = "store_file"
          /\ r.step \in {"read_note", "store_file"}
    BY <1>13 DEF ReadNote, StoreFile, At
  <2>2. s.step = step /\ s.note = r.note /\ s.read = NoteOf(only)
    BY <1>1, <2>1 DEF RequestState
  <2>3. NoteOf(only)' = NoteOf(only)
    BY <1>2, <2>2 DEF NoteOf
  <2>4. NoteOf(only).status = "IN_PROGRESS" => NoteOf(only).issued = NoFile
                                               /\ NoteOf(only).signing = 0
    <3>1. r.note \in DOMAIN notes
      BY <1>1, <2>1, RequestTyped
    <3>2. QED
      BY <3>1 DEF Alone, NoteAlone, Untouched, NoteOf
  <2>5. step = "restore_status" => NoteOf(only).status = "IN_PROGRESS"
    BY <1>1, <2>1 DEF RequestAlone
  <2>6. RequestAlone(only)'
    BY <2>1, <2>2, <2>3, <2>4, <2>5 DEF RequestAlone
  <2>7. QED
    BY <1>2, <2>6, RequestAloneGoes
<1>14. CASE CheckNote(only)
  <2>1. CASE Go(only, "write_note") /\ NoteOf(only).status = "IN_PROGRESS"
    <3>1. s.step = "write_note" /\ s.note = r.note /\ s.read = r.read
      BY <1>5, <2>1 DEF RequestSteps
    <3>2. NoteOf(only)' = NoteOf(only)
      BY <1>2, <3>1 DEF NoteOf
    <3>3. /\ NoteOf(only).status = "IN_PROGRESS" => r.read.status = "IN_PROGRESS"
          /\ r.read.status = "IN_PROGRESS" => r.read.issued = NoFile /\ r.read.signing = 0
      BY <1>1, <1>14 DEF RequestAlone, CheckNote, At
    <3>4. RequestAlone(only)'
      BY <2>1, <3>1, <3>2, <3>3 DEF RequestAlone
    <3>5. QED
      BY <1>2, <3>4, RequestAloneGoes
  <2>2. QED
    BY <1>4, <1>14, <2>1 DEF CheckNote
<1>15. CASE IssuableNote(only) \/ ReadyToIssue(only)
  <2>1. ASSUME NEW step \in {"store_file", "set_processing"}, Go(only, step),
               NoteOf(only).status = "IN_PROGRESS"
        PROVE  Alone'
    <3>1. s.step = step /\ s.note = r.note
      BY <1>5, <2>1 DEF RequestSteps
    <3>2. NoteOf(only)' = NoteOf(only)
      BY <1>2, <3>1 DEF NoteOf
    <3>3. RequestAlone(only)'
      BY <2>1, <3>1, <3>2 DEF RequestAlone
    <3>4. QED
      BY <1>2, <3>3, RequestAloneGoes
  <2>2. QED
    BY <1>4, <1>15, <2>1 DEF IssuableNote, ReadyToIssue
<1>16. CASE \E n \in DOMAIN notes : BeginSigningEvent(only, n)
  <2>1. PICK n \in DOMAIN notes : BeginSigningEvent(only, n)
    BY <1>16
  <2>2. s.step = "add_event" /\ s.note = n /\ notes[n].issued # NoFile
    BY <1>6, <2>1 DEF BeginSigningEvent, RequestSteps
  <2>3. NoteOf(only)' = notes[n]
    BY <1>2, <2>2 DEF NoteOf
  <2>4. RequestAlone(only)'
    BY <2>2, <2>3 DEF RequestAlone
  <2>5. QED
    BY <1>2, <2>4, RequestAloneGoes
<1>17. QED
  BY <1>7, <1>8, <1>9, <1>10, <1>11, <1>12, <1>13, <1>14, <1>15, <1>16

(* A note in progress is written while nothing was made for it. *)
LEMMA HandAlone ==
    ASSUME IInv, Alone, NEW only, Requests = {only}, NEW n \in DOMAIN notes,
           notes[n].status = "IN_PROGRESS", NEW new \in Note,
           new.status \in {"IN_PROGRESS", "PROCESSING"}, new.issued = NoFile, new.signing = 0,
           SetNote(n, new), UNCHANGED <<signings, contract, flow, past>>,
           Untouched(n)' => RequestAlone(only)'
    PROVE  Alone'
<1>1. Untouched(n)
  BY DEF Alone, NoteAlone
<1>2. /\ DOMAIN notes' = DOMAIN notes /\ notes'[n] = new
      /\ \A m \in DOMAIN notes : m # n => notes'[m] = notes[m]
  BY <1>1, NoteSet DEF Untouched
<1>3. Untouched(n)' /\ \A m \in DOMAIN notes : m # n => (Untouched(m)' <=> Untouched(m))
  BY <1>1, <1>2 DEF Untouched
<1>4. Kept
  <2>1. \A m \in DOMAIN notes :
          /\ notes[m].status # "IN_PROGRESS" => notes'[m].status # "IN_PROGRESS"
          /\ notes[m].status = "ISSUED" =>
                notes'[m].status = "ISSUED" /\ notes'[m].issued = notes[m].issued
    BY <1>2
  <2>2. QED
    BY <1>2, <2>1 DEF Kept
<1>5. \A m \in DOMAIN notes' : NoteAlone(m)'
  <2> TAKE m \in DOMAIN notes'
  <2>1. CASE m = n
    BY <1>2, <1>3, <2>1 DEF NoteAlone
  <2>2. CASE m # n
    <3>1. NoteAlone(m) /\ notes'[m] = notes[m]
      BY <1>2, <2>2 DEF Alone
    <3>2. QED
      BY <1>2, <1>3, <2>2, <3>1 DEF NoteAlone
  <2>3. QED
    BY <2>1, <2>2
<1>6. \A s \in DOMAIN signings' : SigningAlone(s)'
  BY <1>4, SigningFrame
<1>7. \A f \in DOMAIN flow' : FlowAlone(f)'
  <2> TAKE f \in DOMAIN flow'
  <2>1. FlowAlone(f) /\ flow[f].note \in DOMAIN notes /\ flow[f].note # n
    BY <1>1, FlowTyped DEF Alone, Untouched
  <2>2. \A g \in DOMAIN flow : Running(g)' <=> Running(g)
    BY DEF Running
  <2>3. QED
    BY <1>2, <1>4, <2>1, <2>2, FlowFrame DEF FlowAlone
<1>8. QED
  BY <1>3, <1>5, <1>6, <1>7 DEF Alone

LEMMA WriteAlone ==
    ASSUME IInv, Alone, NEW only, Requests = {only},
           WriteNote(only) \/ RestoreStatus(only) \/ SetProcessing(only)
    PROVE  Alone'
<1> DEFINE r == request[only]
           n == r.note
<1>1. /\ only \in Requests /\ r \in RequestState /\ request \in [Requests -> RequestState]
      /\ r.step \in {"write_note", "restore_status", "set_processing"}
      /\ RequestAlone(only) /\ n \in DOMAIN notes /\ NoteOf(only) = notes[n]
      /\ notes[n] \in Note /\ r.read \in Note
      /\ UNCHANGED <<signings, contract, flow, past>>
  BY RequestTyped DEF IInv, TypeOK, Alone, WriteNote, RestoreStatus, SetProcessing, At,
     Elsewhere, NoteOf
<1>2. notes[n].status = "IN_PROGRESS" /\ notes[n].issued = NoFile /\ notes[n].signing = 0
  <2>1. notes[n].status = "IN_PROGRESS"
    BY <1>1 DEF RequestAlone
  <2>2. QED
    BY <1>1, <2>1 DEF Alone, NoteAlone, Untouched
<1>3. CASE WriteNote(only)
  <2>1. /\ r.read.status = "IN_PROGRESS" /\ r.read.issued = NoFile /\ r.read.signing = 0
        /\ End(only)
    BY <1>1, <1>2, <1>3 DEF WriteNote, At, RequestAlone
  <2>2. PICK c \in Contents :
          SetNote(n, [status |-> r.read.status, content |-> c,
             issued |-> IF r.read.issued = NoFile THEN NoteOf(only).issued ELSE r.read.issued,
             signing |-> IF r.read.signing = 0 THEN NoteOf(only).signing ELSE r.read.signing])
    BY <1>3 DEF WriteNote
  <2> DEFINE new == [status |-> "IN_PROGRESS", content |-> c, issued |-> NoFile, signing |-> 0]
  <2>3. SetNote(n, new)
    BY <1>1, <1>2, <2>1, <2>2
  <2>4. new \in Note /\ new.status = "IN_PROGRESS" /\ new.issued = NoFile /\ new.signing = 0
    BY DEF Note, NoteStatus
  <2>5. RequestAlone(only)'
    <3>1. request'[only].step = "idle"
      BY <1>1, <2>1, IdleTyped DEF End
    <3>2. QED
      BY <3>1 DEF RequestAlone
  <2> HIDE DEF new
  <2>6. QED
    BY <1>1, <1>2, <2>3, <2>4, <2>5, HandAlone
<1>4. CASE RestoreStatus(only)
  <2> DEFINE new == [notes[n] EXCEPT !.status = "IN_PROGRESS"]
  <2>1. SetNote(n, new) /\ Go(only, "ready")
    BY <1>1, <1>4 DEF RestoreStatus, At, RequestAlone
  <2>2. new \in Note /\ new.status = "IN_PROGRESS" /\ new.issued = NoFile /\ new.signing = 0
    BY <1>1, <1>2 DEF Note, NoteStatus
  <2>3. RequestAlone(only)'
    <3>1. request'[only].step = "ready"
      BY <1>1, <2>1 DEF Go, RequestState
    <3>2. QED
      BY <3>1 DEF RequestAlone
  <2> HIDE DEF new
  <2>4. QED
    BY <1>1, <1>2, <2>1, <2>2, <2>3, HandAlone
<1>5. CASE SetProcessing(only)
  <2> DEFINE new == [notes[n] EXCEPT !.status = "PROCESSING"]
  <2>1. SetNote(n, new) /\ Go(only, "add_flow")
    BY <1>1, <1>5 DEF SetProcessing
  <2>2. new \in Note /\ new.status = "PROCESSING" /\ new.issued = NoFile /\ new.signing = 0
    BY <1>1, <1>2 DEF Note, NoteStatus
  <2>3. request'[only].step = "add_flow" /\ request'[only].note = n
    BY <1>1, <2>1 DEF Go, RequestState
  <2>4. NoteOf(only)'.status = "PROCESSING"
    BY <1>1, <2>1, <2>2, <2>3, NoteSet DEF SetNote, NoteOf
  <2> HIDE DEF new, n
  <2>5. ASSUME NEW m, m = n, Untouched(m)' PROVE RequestAlone(only)'
    <3>1. Untouched(request[only].note)'
      BY <2>3, <2>5 DEF Untouched
    <3>2. QED
      BY <2>3, <2>4, <3>1 DEF RequestAlone
  <2>6. PICK m \in DOMAIN notes : m = n
    BY <1>1
  <2>7. QED
    BY <1>1, <1>2, <2>1, <2>2, <2>5, <2>6, HandAlone
<1>6. QED
  BY <1>3, <1>4, <1>5

(* Nothing refers to the note that is created. *)
LEMMA CreateNoteAlone ==
    ASSUME IInv, Alone, NEW only, Requests = {only}, CreateNote(only)
    PROVE  Alone'
<1> DEFINE new == Len(notes) + 1
<1>1. /\ only \in Requests /\ request \in [Requests -> RequestState]
      /\ notes' = Append(notes, NewNote)
      /\ request' = [request EXCEPT ![only] = [Idle EXCEPT !.step = "link_note", !.note = new]]
      /\ UNCHANGED <<signings, contract, flow, past>>
  BY RequestTyped DEF IInv, TypeOK, CreateNote, Elsewhere
<1>2. request'[only].step = "link_note"
  BY <1>1, IdleTyped DEF RequestState
<1>3. /\ DOMAIN notes' = DOMAIN notes \cup {new} /\ new \notin DOMAIN notes
      /\ notes'[new] = NewNote /\ \A m \in DOMAIN notes : notes'[m] = notes[m]
  BY <1>1, IdleTyped, Domains, AppendProperties DEF IInv, TypeOK
<1>4. Kept
  BY <1>1, <1>3 DEF Kept
<1> HIDE DEF new
<1>5. \A m \in DOMAIN notes' : NoteAlone(m)'
  <2> TAKE m \in DOMAIN notes'
  <2>1. CASE m = new
    <3>1. \A f \in DOMAIN flow : flow[f].note # m
      BY <1>3, <2>1, FlowTyped
    <3>2. \A s \in DOMAIN signings : signings[s].note # m
      BY <1>3, <2>1, OthersTyped DEF SigningSound
    <3>3. Untouched(m)'
      BY <1>1, <1>3, <2>1, <3>1, <3>2, IdleTyped DEF Untouched
    <3>4. QED
      BY <1>3, <2>1, <3>3, IdleTyped DEF NoteAlone
  <2>2. CASE m \in DOMAIN notes
    <3>1. NoteAlone(m) /\ notes'[m] = notes[m]
      BY <1>3, <2>2 DEF Alone
    <3>2. Untouched(m) => Untouched(m)'
      BY <1>1, <3>1 DEF Untouched
    <3>3. QED
      BY <1>1, <3>1, <3>2 DEF NoteAlone
  <2>3. QED
    BY <1>3, <2>1, <2>2
<1>6. \A s \in DOMAIN signings' : SigningAlone(s)'
  BY <1>1, <1>4, SigningFrame
<1>7. \A f \in DOMAIN flow' : FlowAlone(f)'
  <2> TAKE f \in DOMAIN flow'
  <2>1. FlowAlone(f) /\ flow[f].note \in DOMAIN notes
    BY <1>1, FlowTyped DEF Alone
  <2>2. \A g \in DOMAIN flow : Running(g)' <=> Running(g)
    BY <1>1 DEF Running
  <2>3. QED
    BY <1>1, <1>3, <1>4, <2>1, <2>2, FlowFrame DEF FlowAlone
<1>8. RequestAlone(only)'
  BY <1>2 DEF RequestAlone
<1>9. QED
  BY <1>5, <1>6, <1>7, <1>8 DEF Alone

(* A flow that is added is the only one of its note, or the note's flows   *)
(* overlap.                                                                *)
LEMMA AddAlone ==
    ASSUME IInv, Alone, NEW only, Requests = {only}, AddFlow(only) \/ AddSigningEvent(only)
    PROVE  Alone'
<1> DEFINE n == request[only].note
<1>1. /\ only \in Requests /\ request \in [Requests -> RequestState] /\ n \in DOMAIN notes
      /\ notes[n] \in Note /\ NoteOf(only) = notes[n] /\ RequestAlone(only) /\ NoteAlone(n)
      /\ AddFlow(only) => request[only].step = "add_flow"
      /\ ~AddFlow(only) => request[only].step = "add_event"
      /\ End(only) /\ UNCHANGED <<notes, signings, contract>>
      /\ past \in [overlapped : SUBSET NoteId, asked : SUBSET SigningId]
  BY RequestTyped, OthersTyped DEF IInv, TypeOK, AddFlow, AddSigningEvent, Add, At, Alone, NoteOf
<1>2. notes[n].status # "IN_PROGRESS" /\ (~AddFlow(only) => notes[n].status = "ISSUED")
  BY <1>1 DEF RequestAlone, NoteAlone
<1>3. PICK new \in FlowState :
        /\ flow' = Append(flow, new) /\ new.note = n
        /\ new.step = "run" /\ new.stage \in {"issue", "off-chain"}
        /\ AddFlow(only) => new.stage = "issue"
        /\ past' = IF Underway(new.note)
                   THEN [past EXCEPT !.overlapped = @ \cup {new.note}] ELSE past
  BY <1>1, AddOK
<1> DEFINE a == Len(flow) + 1
<1>4. /\ DOMAIN flow' = DOMAIN flow \cup {a} /\ a \notin DOMAIN flow
      /\ flow'[a] = new /\ \A f \in DOMAIN flow : flow'[f] = flow[f]
  BY <1>3, Domains, AppendProperties DEF IInv, TypeOK
<1> HIDE DEF a, n
<1>5. /\ past.overlapped \subseteq past'.overlapped /\ past'.asked = past.asked
      /\ n \notin past'.overlapped => ~Underway(n)
  BY <1>1, <1>3
<1>6. Kept
  BY <1>1, <1>5 DEF Kept
<1>7. \A f \in DOMAIN flow : Running(f)' <=> Running(f)
  BY <1>4 DEF Running
<1>8. \A m \in DOMAIN notes' : NoteAlone(m)'
  <2> TAKE m \in DOMAIN notes'
  <2>1. NoteAlone(m) /\ notes'[m] = notes[m]
    BY <1>1 DEF Alone
  <2>2. m # n /\ Untouched(m) => Untouched(m)'
    BY <1>1, <1>3, <1>4 DEF Untouched
  <2>3. QED
    BY <1>1, <1>2, <2>1, <2>2 DEF NoteAlone
<1>9. \A s \in DOMAIN signings' : SigningAlone(s)'
  BY <1>1, <1>6, SigningFrame
<1>10. \A f \in DOMAIN flow' : FlowAlone(f)'
  <2> TAKE f \in DOMAIN flow'
  <2>1. CASE f \in DOMAIN flow
    <3>1. FlowAlone(f) /\ flow'[f] = flow[f]
      BY <1>4, <2>1 DEF Alone
    <3>2. ASSUME Running(f), flow[f].note \notin past'.overlapped
          PROVE  \A g \in DOMAIN flow' : Running(g)' /\ flow'[g].note = flow[f].note => g = f
      <4>1. flow[f].note # n
        <5> SUFFICES ASSUME flow[f].note = n PROVE FALSE
          OBVIOUS
        <5>1. Underway(n)
          BY <2>1, <3>2 DEF Underway, Running
        <5>2. QED
          BY <1>5, <3>2, <5>1
      <4>2. \A g \in DOMAIN flow : Running(g) /\ flow[g].note = flow[f].note => g = f
        BY <1>5, <3>1, <3>2 DEF FlowAlone
      <4>3. QED
        BY <1>3, <1>4, <1>7, <4>1, <4>2
    <3>3. QED
      BY <1>1, <1>6, <2>1, <3>1, <3>2, FlowFrame
  <2>2. CASE f = a
    <3>1. flow'[f] = new /\ NoteIn(f)' = notes[n] /\ ~OnChain(f)'
      BY <1>1, <1>3, <1>4, <2>2 DEF NoteIn, OnChain
    <3>2. n \notin past'.overlapped =>
             \A g \in DOMAIN flow' : Running(g)' /\ flow'[g].note = n => g = f
      <4> SUFFICES ASSUME n \notin past'.overlapped, NEW g \in DOMAIN flow, Running(g),
                          flow[g].note = n
                   PROVE  FALSE
        BY <1>4, <1>7, <2>2
      <4>1. QED
        BY <1>5 DEF Underway, Running
    <3>3. QED
      BY <1>2, <1>3, <3>1, <3>2 DEF FlowAlone
  <2>3. QED
    BY <1>4, <2>1, <2>2
<1>11. RequestAlone(only)'
  <2>1. request'[only].step = "idle"
    BY <1>1, IdleTyped DEF End
  <2>2. QED
    BY <2>1 DEF RequestAlone
<1>12. QED
  BY <1>8, <1>9, <1>10, <1>11 DEF Alone

LEMMA AloneStep ==
    ASSUME IInv, Alone, NEW only, Requests = {only}, [Next]_vars
    PROVE  Alone'
<1>1. CASE UNCHANGED vars
  <2>1. \A q \in Requests : RequestAlone(q)'
    BY <1>1, RequestStays DEF vars
  <2>2. UNCHANGED <<notes, signings, contract, flow, past>>
    BY <1>1 DEF vars
  <2>3. QED
    BY <2>1, <2>2, SameNotes
<1>2. CASE Next
  BY <1>2, FlowStepAlone, OthersAlone, HandlerAlone, WriteAlone, CreateNoteAlone, AddAlone
     DEF Next, Portal, ApiStep
<1>3. QED
  BY <1>1, <1>2

(* With one request at a time, whatever fails, is retried or dies: a       *)
(* signing record that finalise has opened, of a note whose flows did not  *)
(* overlap, has a contract, and what is signed there is the issued file    *)
(* of its note, whose content has not changed since.                       *)
THEOREM SignableIsCoherent ==
    ASSUME NEW only, Requests = {only}
    PROVE  Spec => []SignableCoherent
<1>1. Init => Alone
  <2> SUFFICES ASSUME Init PROVE Alone
    OBVIOUS
  <2>1. DOMAIN notes = {} /\ DOMAIN signings = {} /\ DOMAIN flow = {}
    BY DEF Init
  <2>2. \A q \in Requests : RequestAlone(q)
    BY IdleTyped DEF Init, RequestAlone
  <2>3. QED
    BY <2>1, <2>2 DEF Alone
<1>2. IInv /\ Alone /\ [Next]_vars => Alone'
  BY AloneStep
<1>3. IInv /\ Alone => SignableCoherent
  <2> SUFFICES ASSUME IInv, Alone, NEW s \in DOMAIN signings \ past.asked,
                      signings[s].status = "IN_PROGRESS",
                      signings[s].note \notin past.overlapped
               PROVE  /\ signings[s].contract # 0
                      /\ notes[signings[s].note].status = "ISSUED"
                      /\ notes[signings[s].note].issued = notes[signings[s].note].content
                      /\ contract[signings[s].contract].file = notes[signings[s].note].issued
    BY DEF SignableCoherent
  <2>1. SigningAlone(s) /\ signings[s].note \in DOMAIN notes
    BY OthersTyped DEF Alone, SigningSound
  <2>2. NoteAlone(signings[s].note)
    BY <2>1 DEF Alone
  <2>3. QED
    BY <2>1, <2>2 DEF SigningAlone, NoteAlone
<1>4. QED
  BY InvariantHolds, <1>1, <1>2, <1>3, PTL DEF Spec
=============================================================================
