-------------------------- MODULE Documents_proofs --------------------------
(* Trade documents, for any number of documents, calls, links and faults.  *)
EXTENDS Documents, FiniteSetTheorems, SequenceTheorems, TLAPS

(* What a call keeps between its steps: it has a plan, of which some steps *)
(* are left.                                                               *)
Ops == {"none", "create", "create_from_file", "upload", "update", "delete", "issue",
        "share", "access", "unshare"}
CallState == [op : Ops, doc : Docs \cup {NoDoc}, link : 0..MaxLinks,
              email : Address \cup {NoAddress}, file : File, status : Status,
              todo : Seq(Steps)]

FilePlan ==
    <<Simple("insert"), Simple("exists"), Simple("store"), Simple("replace"),
      Simple("set"), Simple("restore")>>
IssuePlan ==
    <<Simple("processing"), At("exists", "issued"), At("store", "issued"),
      At("replace", "issued"), At("set", "issued"), At("restore", "issued"),
      At("exists", "tradeTrust"), At("store", "tradeTrust"), At("replace", "tradeTrust"),
      At("set", "tradeTrust"), At("restore", "tradeTrust"), Simple("issued")>>
Plans(op) ==
    CASE op = "create" -> {<<Simple("insert")>>}
      [] op = "create_from_file" -> {FilePlan}
      [] op = "upload" -> {UploadSteps("original")}
      [] op = "update" -> {<<Simple("update")>>}
      [] op = "delete" -> {<<Simple("delete")>>}
      [] op = "issue" -> {IssuePlan}
      [] op = "share" -> {<<Simple("share")>>}
      [] op = "access" ->
            {<<Simple("count"), At("serve", v)>> : v \in Variant} \cup {<<Simple("mark")>>}
      [] OTHER -> {<<Simple("unshare")>>}
TodoSound(c) == \E p \in Plans(c.op), i \in 1..12 :
                    i <= Len(p) /\ c.todo = SubSeq(p, i, Len(p))

CallSound(c) ==
    /\ c \in CallState
    /\ c.op = "none" => c = Idle
    /\ c.op # "none" => c.doc \in Docs /\ TodoSound(c)
    /\ c.link # 0 <=> c.op \in {"access", "unshare"}

Memory == [served : [1..MaxLinks -> Nat], unserved : [1..MaxLinks -> Nat],
           torn : SUBSET Docs, left : SUBSET File, issued : SUBSET Docs,
           overlapped : SUBSET Docs]
Busy(s) == call[s].op # "none"

Base ==
    /\ setting.group \in Groups /\ {setting.alone, setting.inStore} \subseteq BOOLEAN
    /\ doc \in [Docs -> Document]
    /\ disk \subseteq File \ {0} /\ erasing \subseteq File \ {0}
    /\ links \in Seq(Link) /\ Len(links) <= MaxLinks
    /\ call \in [Slots -> CallState]
    /\ \A s \in Slots : CallSound(call[s]) /\ call[s].link <= Len(links)
    /\ begun \in 0..MaxCalls /\ stored \in File /\ faults \in 0..MaxFaults
    /\ past \in Memory

(* A call stores two files at most, and the number of steps that are left  *)
(* says how many it has yet to store.                                      *)
StoresOne(c) ==
    \/ c.op \in {"upload", "create_from_file"} /\ Len(c.todo) >= 4
    \/ c.op = "issue" /\ Len(c.todo) >= 5
StoresTwo(c) == c.op = "issue" /\ Len(c.todo) >= 10
One == {s \in Slots : StoresOne(call[s])}
Two == {s \in Slots : StoresTwo(call[s])}
StoresBounded == stored + Cardinality(One) + Cardinality(Two) <= 1 + 2 * begun

(* An access is counted once.                                              *)
Counting(l) == {s \in Slots : call[s].link = l /\ Doing(s, "count")}
Serving(l) == {s \in Slots : call[s].link = l /\ Doing(s, "serve")}
CountSound(l) == links[l].accessCount + Cardinality(Counting(l)) <= begun
Accounted(l) ==
    Found(l) => links[l].accessCount =
                    past.served[l] + past.unserved[l] + Cardinality(Serving(l))
LinksSound ==
    /\ \A l \in DOMAIN links : CountSound(l) /\ Accounted(l)
    /\ \A l \in 1..MaxLinks : l > Len(links) => past.served[l] = 0 /\ past.unserved[l] = 0

(* A file is in the record of one document at most, under one variant, or  *)
(* was stored by one call that has yet to name it; it is deleted only when *)
(* a call goes on to name another in its place.                            *)
Pending(s) == Doing(s, "replace") \/ Doing(s, "set")
Setting(s, d, v) == call[s].doc = d /\ Doing(s, "set") /\ VariantOf(s) = v
Kept == disk \ erasing
FilesSound ==
    /\ disk \subseteq 1..stored /\ erasing \subseteq 1..stored
    /\ \A d \in Docs, v \in Variant :
          /\ doc[d].file[v] \in 0..stored
          /\ ~Present(d) => doc[d].file[v] = 0
          /\ \/ doc[d].file[v] = 0 \/ doc[d].file[v] \in Kept
             \/ d \in past.torn \/ \E s \in Slots : Setting(s, d, v)
    /\ \A d, e \in Docs : \A v, w \in Variant :
          doc[d].file[v] = doc[e].file[w] /\ doc[d].file[v] # 0 => d = e /\ v = w
    /\ \A s \in Slots : Pending(s) =>
          /\ call[s].file \in Kept
          /\ \A d \in Docs, v \in Variant : doc[d].file[v] # call[s].file
          /\ \A r \in Slots : Pending(r) /\ call[r].file = call[s].file => r = s

(* Where calls are made one at a time, no file is out of sight.            *)
Named == {f \in File : f # 0 /\ \E d \in Docs, v \in Variant : doc[d].file[v] = f}
StoreSound ==
    /\ \A f \in past.left : f # 0 =>
          /\ f <= stored
          /\ \A d \in Docs, v \in Variant : doc[d].file[v] # f
          /\ \A s \in Slots : Pending(s) => call[s].file # f
    /\ faults = 0 => past.torn = {}
    /\ setting.alone =>
          /\ \A r, s \in Slots : Busy(r) /\ Busy(s) => r = s
          /\ \A s \in Slots : Doing(s, "store") \/ Pending(s) => Present(call[s].doc)
    /\ setting.alone /\ setting.inStore /\ faults = 0 =>
          /\ \A s \in Slots :
                Doing(s, "set") => doc[call[s].doc].file[VariantOf(s)] \notin Kept
          /\ past.left \ {0} \subseteq Kept
          /\ \A f \in Kept : \/ f \in Named \/ f \in past.left
                             \/ \E s \in Slots : Pending(s) /\ call[s].file = f

(* Where no call on a document overlaps another, the record is as the call *)
(* that is on it found it.                                                 *)
CallKeeps(s) ==
    LET d == call[s].doc IN
    /\ Doing(s, "insert") => doc[d].status = "absent"
    /\ call[s].op \in {"update", "delete"} => doc[d].status = "In_Progress"
    /\ call[s].op = "issue" =>
          /\ HasContent(d)
          /\ doc[d].status = IF Doing(s, "processing") THEN "In_Progress" ELSE "Processing"
    /\ Doing(s, "restore") => call[s].status = doc[d].status
DocSound(d) ==
    /\ \A r, s \in Slots :
          Busy(r) /\ Busy(s) /\ call[r].doc = d /\ call[s].doc = d => r = s
    /\ d \in past.issued => doc[d].status = "Issued" /\ HasContent(d)
    /\ \A s \in Slots : Busy(s) /\ call[s].doc = d => CallKeeps(s)
IssuedSound == \A d \in Docs \ past.overlapped : DocSound(d)

IInv == Base /\ StoresBounded /\ LinksSound /\ FilesSound /\ StoreSound /\ IssuedSound
-----------------------------------------------------------------------------
(* The plans.                                                              *)

(* The step h of a call op when n steps of its plan are left.              *)
Fits(op, h, n) ==
    /\ h.do = "insert" => (op = "create" /\ n = 1) \/ (op = "create_from_file" /\ n = 6)
    /\ h.do \in {"exists", "store", "replace", "set", "restore"} =>
          op \in {"create_from_file", "upload", "issue"}
    /\ h.do = "store" => \/ op \in {"create_from_file", "upload"} /\ n = 4
                         \/ op = "issue" /\ n \in {5, 10}
    /\ h.do \in {"update", "delete", "share", "unshare"} => op = h.do
    /\ h.do \in {"count", "serve", "mark"} => op = "access"
    /\ h.do \in {"processing", "issued"} => op = "issue"
    /\ op = "issue" => (h.do = "processing" <=> n = 12)
    /\ op = "update" => h.do = "update"
    /\ op = "delete" => h.do = "delete"
    /\ h.do \in {"update", "delete", "share", "unshare", "serve", "mark", "issued"} => n = 1
    /\ h.do \in {"exists", "store", "replace", "set", "count", "processing"} => n # 1

(* The steps h and g come one after the other in the plan of a call op.    *)
Follows(op, h, g) ==
    \/ h.do = "insert" /\ g.do = "exists"
    \/ h.do = "exists" /\ g.do = "store"
    \/ h.do = "store" /\ g.do = "replace"
    \/ h.do = "replace" /\ g.do = "set" /\ g.variant = h.variant
    \/ h.do = "set" /\ g.do = "restore"
    \/ h.do = "restore" /\ g.do \in {"exists", "issued"}
    \/ h.do = "processing" /\ g.do = "exists"
    \/ h.do = "count" /\ g.do = "serve"

LEMMA StepTypes ==
    /\ \A v \in Variant : \A do \in {"insert", "update", "exists", "store", "replace", "set",
          "restore", "delete", "processing", "issued", "share", "count", "mark", "serve",
          "unshare"} : At(do, v) \in Steps /\ At(do, v).do = do /\ At(do, v).variant = v
    /\ \A do : Simple(do) = At(do, "original")
    /\ {"original", "issued", "tradeTrust"} = Variant
BY DEF At, Simple, Steps, Variant

LEMMA OnePlans ==
    ASSUME NEW op \in {"create", "update", "delete", "share", "unshare"},
           NEW p \in Plans(op), NEW i \in 1..12, i <= Len(p)
    PROVE  /\ p \in Seq(Steps) /\ Len(p) \in 1..12 /\ Fits(op, p[i], Len(p) - i + 1)
           /\ Follows(op, p[i], p[i + 1]) \/ i = Len(p)
<1>1. PICK do \in {"insert", "update", "delete", "share", "unshare"} :
         /\ p = <<Simple(do)>>
         /\ op = "create" => do = "insert"
         /\ op # "create" => do = op
  BY DEF Plans
<1>2. Simple(do) \in Steps /\ Simple(do).do = do
  BY <1>1, StepTypes
<1>3. Len(p) = 1 /\ p[1] = Simple(do) /\ p \in Seq(Steps)
  BY <1>1, <1>2
<1>4. i = 1
  BY <1>3
<1>5. Fits(op, p[1], 1)
  BY <1>1, <1>2, <1>3 DEF Fits
<1>6. QED
  BY <1>3, <1>4, <1>5

LEMMA AccessPlans ==
    ASSUME NEW p \in Plans("access"), NEW i \in 1..12, i <= Len(p)
    PROVE  /\ p \in Seq(Steps) /\ Len(p) \in 1..12 /\ Fits("access", p[i], Len(p) - i + 1)
           /\ Follows("access", p[i], p[i + 1]) \/ i = Len(p)
<1>1. \/ p = <<Simple("mark")>>
      \/ \E v \in Variant : p = <<Simple("count"), At("serve", v)>>
  BY DEF Plans
<1>2. CASE p = <<Simple("mark")>>
  <2>1. Simple("mark") \in Steps /\ Simple("mark").do = "mark"
    BY StepTypes
  <2>2. Len(p) = 1 /\ p[1] = Simple("mark") /\ p \in Seq(Steps) /\ i = 1
    BY <1>2, <2>1
  <2>3. QED
    BY <2>1, <2>2 DEF Fits
<1>3. ASSUME NEW v \in Variant, p = <<Simple("count"), At("serve", v)>>
      PROVE  /\ p \in Seq(Steps) /\ Len(p) \in 1..12 /\ Fits("access", p[i], Len(p) - i + 1)
             /\ Follows("access", p[i], p[i + 1]) \/ i = Len(p)
  <2>1. /\ Simple("count") \in Steps /\ Simple("count").do = "count"
        /\ At("serve", v) \in Steps /\ At("serve", v).do = "serve"
    BY <1>3, StepTypes
  <2>2. /\ Len(p) = 2 /\ p[1] = Simple("count") /\ p[2] = At("serve", v) /\ p \in Seq(Steps)
        /\ i = 1 \/ i = 2
    BY <1>3, <2>1
  <2>3. Fits("access", p[1], 2) /\ Fits("access", p[2], 1) /\ Follows("access", p[1], p[2])
    BY <2>1, <2>2 DEF Fits, Follows
  <2>4. QED
    BY <2>2, <2>3
<1>4. QED
  BY <1>1, <1>2, <1>3

LEMMA UploadPlans ==
    ASSUME NEW p \in Plans("upload"), NEW i \in 1..12, i <= Len(p)
    PROVE  /\ p \in Seq(Steps) /\ Len(p) \in 1..12 /\ Fits("upload", p[i], Len(p) - i + 1)
           /\ Follows("upload", p[i], p[i + 1]) \/ i = Len(p)
<1>1. p = <<Simple("exists"), Simple("store"), Simple("replace"), Simple("set"),
            Simple("restore")>>
  BY DEF Plans, UploadSteps, Simple
<1>2. \A do \in {"exists", "store", "replace", "set", "restore"} :
         Simple(do) \in Steps /\ Simple(do).do = do /\ Simple(do).variant = "original"
  BY StepTypes
<1>3. Len(p) = 5 /\ p \in Seq(Steps)
  BY <1>1, <1>2
<1>4. /\ p[1] = Simple("exists") /\ p[2] = Simple("store") /\ p[3] = Simple("replace")
      /\ p[4] = Simple("set") /\ p[5] = Simple("restore")
  BY <1>1
<1>5. i = 1 \/ i = 2 \/ i = 3 \/ i = 4 \/ i = 5
  BY <1>3
<1>6. /\ Fits("upload", p[1], 5) /\ Fits("upload", p[2], 4) /\ Fits("upload", p[3], 3)
      /\ Fits("upload", p[4], 2) /\ Fits("upload", p[5], 1)
  BY <1>2, <1>4 DEF Fits
<1>7. /\ Follows("upload", p[1], p[2]) /\ Follows("upload", p[2], p[3])
      /\ Follows("upload", p[3], p[4]) /\ Follows("upload", p[4], p[5])
  BY <1>2, <1>4 DEF Follows
<1>8. QED
  BY <1>3, <1>5, <1>6, <1>7

LEMMA FilePlans ==
    ASSUME NEW p \in Plans("create_from_file"), NEW i \in 1..12, i <= Len(p)
    PROVE  /\ p \in Seq(Steps) /\ Len(p) \in 1..12 /\ Fits("create_from_file", p[i], Len(p) - i + 1)
           /\ Follows("create_from_file", p[i], p[i + 1]) \/ i = Len(p)
<1> DEFINE op == "create_from_file"
<1>1. p = FilePlan
  BY DEF Plans
<1>2. \A do \in {"insert", "exists", "store", "replace", "set", "restore"} :
         Simple(do) \in Steps /\ Simple(do).do = do /\ Simple(do).variant = "original"
  BY StepTypes
<1>3. Len(p) = 6 /\ p \in Seq(Steps)
  BY <1>1, <1>2 DEF FilePlan
<1>4. /\ p[1] = Simple("insert") /\ p[2] = Simple("exists") /\ p[3] = Simple("store")
      /\ p[4] = Simple("replace") /\ p[5] = Simple("set") /\ p[6] = Simple("restore")
  BY <1>1 DEF FilePlan
<1>5. i = 1 \/ i = 2 \/ i = 3 \/ i = 4 \/ i = 5 \/ i = 6
  BY <1>3
<1>6. /\ Fits(op, p[1], 6) /\ Fits(op, p[2], 5) /\ Fits(op, p[3], 4)
      /\ Fits(op, p[4], 3) /\ Fits(op, p[5], 2) /\ Fits(op, p[6], 1)
  BY <1>2, <1>4 DEF Fits
<1>7. /\ Follows(op, p[1], p[2]) /\ Follows(op, p[2], p[3]) /\ Follows(op, p[3], p[4])
      /\ Follows(op, p[4], p[5]) /\ Follows(op, p[5], p[6])
  BY <1>2, <1>4 DEF Follows
<1>8. QED
  BY <1>3, <1>5, <1>6, <1>7

LEMMA IssuePlans ==
    ASSUME NEW p \in Plans("issue"), NEW i \in 1..12, i <= Len(p)
    PROVE  /\ p \in Seq(Steps) /\ Len(p) \in 1..12 /\ Fits("issue", p[i], Len(p) - i + 1)
           /\ Follows("issue", p[i], p[i + 1]) \/ i = Len(p)
<1>1. p = IssuePlan
  BY DEF Plans
<1>2. /\ \A do \in {"exists", "store", "replace", "set", "restore"} :
            \A v \in {"issued", "tradeTrust"} :
                At(do, v) \in Steps /\ At(do, v).do = do /\ At(do, v).variant = v
      /\ Simple("processing") \in Steps /\ Simple("processing").do = "processing"
      /\ Simple("issued") \in Steps /\ Simple("issued").do = "issued"
  BY StepTypes
<1>3. Len(p) = 12 /\ p \in Seq(Steps)
  BY <1>1, <1>2 DEF IssuePlan
<1>4. /\ p[1] = Simple("processing") /\ p[12] = Simple("issued")
      /\ p[2] = At("exists", "issued") /\ p[3] = At("store", "issued")
      /\ p[4] = At("replace", "issued") /\ p[5] = At("set", "issued")
      /\ p[6] = At("restore", "issued")
      /\ p[7] = At("exists", "tradeTrust") /\ p[8] = At("store", "tradeTrust")
      /\ p[9] = At("replace", "tradeTrust") /\ p[10] = At("set", "tradeTrust")
      /\ p[11] = At("restore", "tradeTrust")
  BY <1>1 DEF IssuePlan
<1>5. \/ i = 1 \/ i = 2 \/ i = 3 \/ i = 4 \/ i = 5 \/ i = 6
      \/ i = 7 \/ i = 8 \/ i = 9 \/ i = 10 \/ i = 11 \/ i = 12
  OBVIOUS
<1>6. /\ Fits("issue", p[1], 12) /\ Fits("issue", p[2], 11) /\ Fits("issue", p[3], 10)
      /\ Fits("issue", p[4], 9) /\ Fits("issue", p[5], 8) /\ Fits("issue", p[6], 7)
      /\ Fits("issue", p[7], 6) /\ Fits("issue", p[8], 5) /\ Fits("issue", p[9], 4)
      /\ Fits("issue", p[10], 3) /\ Fits("issue", p[11], 2) /\ Fits("issue", p[12], 1)
  <2>1. Fits("issue", p[1], 12) /\ Fits("issue", p[12], 1)
    BY <1>2, <1>4 DEF Fits
  <2>2. Fits("issue", p[2], 11) /\ Fits("issue", p[7], 6)
    BY <1>2, <1>4 DEF Fits
  <2>3. Fits("issue", p[3], 10) /\ Fits("issue", p[8], 5)
    BY <1>2, <1>4 DEF Fits
  <2>4. Fits("issue", p[4], 9) /\ Fits("issue", p[9], 4)
    BY <1>2, <1>4 DEF Fits
  <2>5. Fits("issue", p[5], 8) /\ Fits("issue", p[10], 3)
    BY <1>2, <1>4 DEF Fits
  <2>6. Fits("issue", p[6], 7) /\ Fits("issue", p[11], 2)
    BY <1>2, <1>4 DEF Fits
  <2>7. QED
    BY <2>1, <2>2, <2>3, <2>4, <2>5, <2>6
<1>7. /\ Follows("issue", p[1], p[2]) /\ Follows("issue", p[2], p[3])
      /\ Follows("issue", p[3], p[4]) /\ Follows("issue", p[4], p[5])
      /\ Follows("issue", p[5], p[6]) /\ Follows("issue", p[6], p[7])
      /\ Follows("issue", p[7], p[8]) /\ Follows("issue", p[8], p[9])
      /\ Follows("issue", p[9], p[10]) /\ Follows("issue", p[10], p[11])
      /\ Follows("issue", p[11], p[12])
  BY <1>2, <1>4 DEF Follows
<1>8. QED
  BY <1>3, <1>5, <1>6, <1>7

LEMMA PlanFacts ==
    ASSUME NEW op \in Ops \ {"none"}, NEW p \in Plans(op), NEW i \in 1..12, i <= Len(p)
    PROVE  /\ p \in Seq(Steps) /\ Len(p) \in 1..12 /\ Fits(op, p[i], Len(p) - i + 1)
           /\ Follows(op, p[i], p[i + 1]) \/ i = Len(p)
<1>1. CASE op \in {"create", "update", "delete", "share", "unshare"}
  BY <1>1, OnePlans
<1>2. CASE op = "access"
  BY <1>2, AccessPlans
<1>3. CASE op = "upload"
  BY <1>3, UploadPlans
<1>4. CASE op = "create_from_file"
  BY <1>4, FilePlans
<1>5. CASE op = "issue"
  BY <1>5, IssuePlans
<1>6. QED
  BY <1>1, <1>2, <1>3, <1>4, <1>5 DEF Ops

(* What is left of a plan.                                                 *)
LEMMA Rest ==
    ASSUME NEW p \in Seq(Steps), NEW i \in 1..Len(p)
    PROVE  LET t == SubSeq(p, i, Len(p)) IN
           /\ t \in Seq(Steps) /\ Len(t) = Len(p) - i + 1 /\ t # <<>> /\ Head(t) = p[i]
           /\ i < Len(p) => Tail(t) = SubSeq(p, i + 1, Len(p))
<1> DEFINE t == SubSeq(p, i, Len(p))
<1>0. /\ i \in Int /\ Len(p) \in Int /\ i <= Len(p) /\ \A j \in i..Len(p) : p[j] \in Steps
  BY LenProperties, ElementOfSeq
<1>1. t \in Seq(Steps) /\ Len(t) = Len(p) - i + 1 /\ t # <<>>
  <2>1. t \in Seq(Steps) /\ Len(t) = Len(p) - i + 1
    BY <1>0, SubSeqProperties
  <2> HIDE DEF t
  <2>2. Len(t) # 0
    BY <1>0, <2>1
  <2>3. QED
    BY <2>1, <2>2
<1>2. \A j \in 1..Len(t) : t[j] = p[i + j - 1]
  BY SubSeqProperties
<1>3. Head(t) = p[i]
  BY <1>1, <1>2
<1>4. ASSUME i < Len(p) PROVE Tail(t) = SubSeq(p, i + 1, Len(p))
  <2> DEFINE r == SubSeq(p, i + 1, Len(p))
  <2>1. r \in Seq(Steps) /\ Len(r) = Len(p) - i
    BY <1>4, SubSeqProperties
  <2>2. \A j \in 1..Len(r) : r[j] = p[i + j]
    BY <1>4, SubSeqProperties
  <2>3. /\ Tail(t) \in Seq(Steps) /\ Len(Tail(t)) = Len(t) - 1
        /\ \A j \in 1..Len(Tail(t)) : Tail(t)[j] = t[j + 1]
    BY <1>1, HeadTailProperties
  <2>4. Len(Tail(t)) = Len(r)
    BY <1>1, <2>1, <2>3
  <2>5. ASSUME NEW j \in 1..Len(r) PROVE Tail(t)[j] = r[j]
    BY <1>1, <1>2, <2>1, <2>2, <2>3, <2>4
  <2>6. QED
    BY <2>1, <2>3, <2>4, <2>5, SeqEqual
<1>5. QED
  BY <1>1, <1>3, <1>4
-----------------------------------------------------------------------------
(* Calls: how one starts, goes on and leaves.                              *)
LEMMA IdleCall ==
    /\ CallSound(Idle) /\ Idle \in CallState
    /\ Idle.op = "none" /\ Idle.doc = NoDoc /\ Idle.link = 0 /\ Idle.email = NoAddress
    /\ Idle.file = 0 /\ Idle.status = "In_Progress" /\ Idle.todo = <<>>
<1>1. /\ Idle.op = "none" /\ Idle.doc = NoDoc /\ Idle.link = 0 /\ Idle.email = NoAddress
      /\ Idle.file = 0 /\ Idle.status = "In_Progress" /\ Idle.todo = <<>>
  BY DEF Idle
<1>2. 0 \in File /\ 0 \in 0..MaxLinks /\ <<>> \in Seq(Steps)
  BY DocumentsAssumption DEF File
<1>3. Idle \in CallState
  BY <1>2 DEF Idle, CallState, Ops, Status
<1>4. QED
  BY <1>1, <1>3 DEF CallSound

LEMMA Planned ==
    ASSUME NEW c, CallSound(c), c.op # "none"
    PROVE  /\ c \in CallState /\ c.doc \in Docs /\ c.op \in Ops \ {"none"}
           /\ c.todo \in Seq(Steps) /\ c.todo # <<>> /\ Len(c.todo) \in 1..12
           /\ Head(c.todo) \in Steps /\ Fits(c.op, Head(c.todo), Len(c.todo))
           /\ Len(c.todo) # 1 =>
                 /\ Tail(c.todo) \in Seq(Steps) /\ Tail(c.todo) # <<>>
                 /\ Len(Tail(c.todo)) = Len(c.todo) - 1
                 /\ Follows(c.op, Head(c.todo), Head(Tail(c.todo)))
                 /\ \A d \in CallState :
                       d.op = c.op /\ d.doc = c.doc /\ d.link = c.link /\ d.todo = Tail(c.todo)
                       => CallSound(d)
<1>1. /\ c \in CallState /\ c.doc \in Docs /\ TodoSound(c)
      /\ c.link # 0 <=> c.op \in {"access", "unshare"}
  BY DEF CallSound
<1>2. c.op \in Ops \ {"none"}
  BY <1>1 DEF CallState
<1>3. PICK p \in Plans(c.op), i \in 1..12 : i <= Len(p) /\ c.todo = SubSeq(p, i, Len(p))
  BY <1>1 DEF TodoSound
<1>4. /\ p \in Seq(Steps) /\ Len(p) \in 1..12 /\ Fits(c.op, p[i], Len(p) - i + 1)
      /\ Follows(c.op, p[i], p[i + 1]) \/ i = Len(p)
  BY <1>2, <1>3, PlanFacts
<1>5. i \in 1..Len(p)
  BY <1>3, <1>4
<1>6. /\ c.todo \in Seq(Steps) /\ Len(c.todo) = Len(p) - i + 1 /\ c.todo # <<>>
      /\ Head(c.todo) = p[i]
      /\ i < Len(p) => Tail(c.todo) = SubSeq(p, i + 1, Len(p))
  BY <1>3, <1>4, <1>5, Rest
<1>7. Len(c.todo) \in 1..12 /\ (Len(c.todo) # 1 => i < Len(p))
  <2> DEFINE n == Len(p)
             m == Len(c.todo)
  <2>1. n \in 1..12 /\ i \in 1..n /\ m = n - i + 1
    BY <1>4, <1>5, <1>6
  <2> HIDE DEF n, m
  <2>2. m \in 1..12 /\ (m # 1 => i < n)
    BY <2>1
  <2>3. QED
    BY <2>2 DEF n, m
<1>8. Head(c.todo) \in Steps /\ Fits(c.op, Head(c.todo), Len(c.todo))
  BY <1>4, <1>5, <1>6, ElementOfSeq
<1>9. ASSUME Len(c.todo) # 1
      PROVE  /\ Tail(c.todo) \in Seq(Steps) /\ Tail(c.todo) # <<>>
             /\ Len(Tail(c.todo)) = Len(c.todo) - 1
             /\ Follows(c.op, Head(c.todo), Head(Tail(c.todo)))
             /\ \A d \in CallState :
                   d.op = c.op /\ d.doc = c.doc /\ d.link = c.link /\ d.todo = Tail(c.todo)
                   => CallSound(d)
  <2>1. i < Len(p) /\ i + 1 \in 1..Len(p) /\ i + 1 \in 1..12 /\ i + 1 <= Len(p)
    BY <1>4, <1>5, <1>7, <1>9
  <2>2. Tail(c.todo) = SubSeq(p, i + 1, Len(p))
    BY <1>6, <2>1
  <2>3. /\ Tail(c.todo) \in Seq(Steps) /\ Len(Tail(c.todo)) = Len(p) - (i + 1) + 1
        /\ Tail(c.todo) # <<>> /\ Head(Tail(c.todo)) = p[i + 1]
    BY <1>4, <2>1, <2>2, Rest
  <2>4. Len(Tail(c.todo)) = Len(c.todo) - 1
    BY <1>4, <1>5, <1>6, <2>3
  <2>5. Follows(c.op, Head(c.todo), Head(Tail(c.todo)))
    BY <1>4, <1>6, <2>1, <2>3
  <2>6. ASSUME NEW d \in CallState, d.op = c.op, d.doc = c.doc, d.link = c.link,
               d.todo = Tail(c.todo)
        PROVE  CallSound(d)
    <3>1. TodoSound(d)
      BY <1>3, <2>1, <2>2, <2>6 DEF TodoSound
    <3>2. QED
      BY <1>1, <1>2, <2>6, <3>1 DEF CallSound
  <2>7. QED
    BY <2>3, <2>4, <2>5, <2>6
<1>10. QED
  BY <1>1, <1>2, <1>6, <1>7, <1>8, <1>9

LEMMA Doer ==
    ASSUME Base, NEW s \in Slots
    PROVE  /\ CallSound(call[s]) /\ call[s] \in CallState
           /\ Busy(s) <=> call[s].todo # <<>>
           /\ call[s] = Idle <=> ~Busy(s)
           /\ \A do : Doing(s, do) => Busy(s)
           /\ ~Busy(s) => call[s].doc = NoDoc /\ call[s].link = 0
           /\ Busy(s) => call[s].doc \in Docs
<1>1. CallSound(call[s]) /\ call[s] \in CallState
  BY DEF Base
<1>2. ~Busy(s) => call[s] = Idle
  BY <1>1 DEF CallSound, Busy
<1>3. Busy(s) => call[s].todo # <<>> /\ call[s].doc \in Docs
  BY <1>1, Planned DEF Busy
<1>4. Idle.todo = <<>> /\ Idle.doc = NoDoc /\ Idle.link = 0 /\ Idle.op = "none"
  BY IdleCall
<1>5. QED
  BY <1>1, <1>2, <1>3, <1>4 DEF Busy, Doing

(* A call that starts, by what it stands before.                           *)
Opens(c) ==
    /\ Head(c.todo).do \in {"insert", "exists", "update", "delete", "processing", "share",
                            "count", "mark", "unshare"}
    /\ Head(c.todo).do = "insert" => Unused(c.doc)
    /\ c.op \in {"update", "delete"} => doc[c.doc].status = "In_Progress"
    /\ c.op = "issue" => IsReadyToIssue(c.doc) /\ Head(c.todo).do = "processing"
Starts(s, c) ==
    /\ call[s] = Idle /\ CallSound(c) /\ c.op # "none" /\ c.link <= Len(links) /\ Opens(c)
    /\ setting.alone => \A r \in Slots : call[r] = Idle
    /\ call' = [call EXCEPT ![s] = c]
    /\ begun < MaxCalls /\ begun' = begun + 1
    /\ past' = IF \E r \in Slots : call[r].op # "none" /\ call[r].doc = c.doc
               THEN [past EXCEPT !.overlapped = @ \cup {c.doc}] ELSE past
    /\ UNCHANGED <<setting, doc, disk, erasing, links, stored, faults>>

(* A call that goes on, or leaves.                                         *)
Goes(s, c) ==
    /\ Busy(s) /\ Len(call[s].todo) # 1 /\ CallSound(c) /\ c \in CallState
    /\ c.op = call[s].op /\ c.doc = call[s].doc /\ c.link = call[s].link
    /\ c.todo = Tail(call[s].todo) /\ c.todo # <<>> /\ Len(c.todo) = Len(call[s].todo) - 1
    /\ Follows(c.op, Head(call[s].todo), Head(c.todo))
    /\ call' = [call EXCEPT ![s] = c]
Leaves(s) == Busy(s) /\ call' = [call EXCEPT ![s] = Idle]
Moves(s, f, status) ==
    \/ Leaves(s) /\ Len(call[s].todo) = 1
    \/ \E c : Goes(s, c) /\ c.file = f /\ c.status = status

LEMMA StepMoves ==
    ASSUME Base, NEW s \in Slots, Busy(s), NEW b \in CallState, Step(s, b),
           b.op = call[s].op, b.doc = call[s].doc, b.link = call[s].link,
           b.todo = call[s].todo
    PROVE  Moves(s, b.file, b.status) /\ UNCHANGED <<setting, begun, faults>>
<1>1. CallSound(call[s])
  BY Doer
<1>2. call[s].op # "none"
  BY DEF Busy
<1>3. CASE Len(call[s].todo) = 1
  BY <1>3 DEF Step, Moves, Leaves
<1>4. CASE Len(call[s].todo) # 1
  <2> DEFINE c == [b EXCEPT !.todo = Tail(b.todo)]
  <2>1. /\ Tail(call[s].todo) \in Seq(Steps) /\ Tail(call[s].todo) # <<>>
        /\ Len(Tail(call[s].todo)) = Len(call[s].todo) - 1
        /\ Follows(call[s].op, Head(call[s].todo), Head(Tail(call[s].todo)))
        /\ \A d \in CallState :
              /\ d.op = call[s].op /\ d.doc = call[s].doc /\ d.link = call[s].link
              /\ d.todo = Tail(call[s].todo)
              => CallSound(d)
    BY <1>1, <1>2, <1>4, Planned
  <2>2. /\ c \in CallState /\ c.op = b.op /\ c.doc = b.doc /\ c.link = b.link
        /\ c.todo = Tail(b.todo) /\ c.file = b.file /\ c.status = b.status
    BY <2>1 DEF CallState
  <2>3. CallSound(c)
    BY <2>1, <2>2
  <2>4. call' = [call EXCEPT ![s] = c]
    BY <1>4 DEF Step
  <2> HIDE DEF c
  <2>5. Goes(s, c)
    BY <1>4, <2>1, <2>2, <2>3, <2>4 DEF Goes
  <2>6. QED
    BY <2>2, <2>5 DEF Moves, Step
<1>5. QED
  BY <1>3, <1>4 DEF Step

LEMMA ThrowLeaves ==
    ASSUME Base, NEW s \in Slots, Busy(s), Throw(s)
    PROVE  Leaves(s) /\ UNCHANGED <<setting, begun, faults>>
<1>1. call[s] \in CallState /\ call[s].todo \in Seq(Steps) /\ call[s].todo # <<>>
  BY Doer DEF CallState
<1> DEFINE b == [call[s] EXCEPT !.todo = SubSeq(@, 1, 1)]
<1>2. b.todo = SubSeq(call[s].todo, 1, 1)
  BY <1>1 DEF CallState
<1>3. 1 \in 1..Len(call[s].todo) /\ \A j \in 1..1 : call[s].todo[j] \in Steps
  BY <1>1, LenProperties, EmptySeq, ElementOfSeq
<1>4. Len(SubSeq(call[s].todo, 1, 1)) = 1
  BY <1>3, SubSeqProperties
<1>5. Step(s, b)
  BY DEF Throw
<1> HIDE DEF b
<1>6. QED
  BY <1>2, <1>4, <1>5 DEF Step, Leaves

LEMMA Others ==
    ASSUME Base, NEW s \in Slots, NEW c, call' = [call EXCEPT ![s] = c]
    PROVE  call'[s] = c /\ \A r \in Slots : r # s => call'[r] = call[r]
BY DEF Base

LEMMA WholePlan ==
    ASSUME NEW p \in Seq(Steps)
    PROVE  SubSeq(p, 1, Len(p)) = p
<1> DEFINE t == SubSeq(p, 1, Len(p))
<1>0. /\ 1 \in Int /\ Len(p) \in Int /\ Len(p) \in Nat /\ \A j \in 1..Len(p) : p[j] \in Steps
  BY LenProperties, ElementOfSeq
<1>1. t \in Seq(Steps) /\ Len(t) = Len(p) /\ \A j \in 1..Len(p) : t[j] = p[j]
  BY <1>0, SubSeqProperties
<1>2. QED
  BY <1>1, SeqEqual

(* The plans, as the requests put them together.                           *)
LEMMA UploadList ==
    ASSUME NEW v \in Variant
    PROVE  LET u == UploadSteps(v) IN
           /\ u \in Seq(Steps) /\ Len(u) = 5
           /\ u[1] = At("exists", v) /\ u[2] = At("store", v) /\ u[3] = At("replace", v)
           /\ u[4] = At("set", v) /\ u[5] = At("restore", v)
<1> DEFINE u == UploadSteps(v)
<1>1. \A do \in {"exists", "store", "replace", "set", "restore"} : At(do, v) \in Steps
  BY StepTypes
<1>2. u = <<At("exists", v), At("store", v), At("replace", v), At("set", v),
            At("restore", v)>>
  BY DEF UploadSteps
<1>3. QED
  BY <1>1, <1>2

LEMMA FileList ==
    <<Simple("insert")>> \o UploadSteps("original") = FilePlan
<1> DEFINE a == <<Simple("insert")>>
           u == UploadSteps("original")
           q == a \o u
<1>1. /\ u \in Seq(Steps) /\ Len(u) = 5
      /\ u[1] = Simple("exists") /\ u[2] = Simple("store") /\ u[3] = Simple("replace")
      /\ u[4] = Simple("set") /\ u[5] = Simple("restore")
  BY UploadList, StepTypes
<1>2. a \in Seq(Steps) /\ Len(a) = 1 /\ a[1] = Simple("insert")
  BY StepTypes
<1>3. /\ FilePlan \in Seq(Steps) /\ Len(FilePlan) = 6
      /\ FilePlan[1] = Simple("insert") /\ FilePlan[2] = Simple("exists")
      /\ FilePlan[3] = Simple("store") /\ FilePlan[4] = Simple("replace")
      /\ FilePlan[5] = Simple("set") /\ FilePlan[6] = Simple("restore")
  BY StepTypes DEF FilePlan
<1> HIDE DEF a, u
<1>4. /\ q \in Seq(Steps) /\ Len(q) = 6
      /\ \A i \in 1..6 : q[i] = IF i <= 1 THEN a[i] ELSE u[i - 1]
  <2>1. /\ q \in Seq(Steps) /\ Len(q) = Len(a) + Len(u)
        /\ \A i \in 1..(Len(a) + Len(u)) :
              q[i] = IF i <= Len(a) THEN a[i] ELSE u[i - Len(a)]
    BY <1>1, <1>2, ConcatProperties
  <2> HIDE DEF q
  <2>2. QED
    BY <1>1, <1>2, <2>1
<1> HIDE DEF q
<1>5. ASSUME NEW i \in 1..6 PROVE q[i] = FilePlan[i]
  <2>1. i = 1 \/ i = 2 \/ i = 3 \/ i = 4 \/ i = 5 \/ i = 6
    OBVIOUS
  <2>2. QED
    BY <1>1, <1>2, <1>3, <1>4, <2>1
<1>6. q = FilePlan
  BY <1>3, <1>4, <1>5, SeqEqual
<1>7. QED
  BY <1>6 DEF q, a, u

LEMMA IssueList ==
    <<Simple("processing")>> \o UploadSteps("issued") \o UploadSteps("tradeTrust")
        \o <<Simple("issued")>> = IssuePlan
<1> DEFINE a == <<Simple("processing")>>
           u == UploadSteps("issued")
           w == UploadSteps("tradeTrust")
           b == <<Simple("issued")>>
           q == a \o u
           r == q \o w
           t == r \o b
<1>1. /\ u \in Seq(Steps) /\ Len(u) = 5
      /\ u[1] = At("exists", "issued") /\ u[2] = At("store", "issued")
      /\ u[3] = At("replace", "issued") /\ u[4] = At("set", "issued")
      /\ u[5] = At("restore", "issued")
  BY UploadList, StepTypes
<1>2. /\ w \in Seq(Steps) /\ Len(w) = 5
      /\ w[1] = At("exists", "tradeTrust") /\ w[2] = At("store", "tradeTrust")
      /\ w[3] = At("replace", "tradeTrust") /\ w[4] = At("set", "tradeTrust")
      /\ w[5] = At("restore", "tradeTrust")
  BY UploadList, StepTypes
<1>3. /\ a \in Seq(Steps) /\ Len(a) = 1 /\ a[1] = Simple("processing")
      /\ b \in Seq(Steps) /\ Len(b) = 1 /\ b[1] = Simple("issued")
  BY StepTypes
<1>4. /\ IssuePlan \in Seq(Steps) /\ Len(IssuePlan) = 12
      /\ IssuePlan[1] = Simple("processing") /\ IssuePlan[12] = Simple("issued")
      /\ IssuePlan[2] = At("exists", "issued") /\ IssuePlan[3] = At("store", "issued")
      /\ IssuePlan[4] = At("replace", "issued") /\ IssuePlan[5] = At("set", "issued")
      /\ IssuePlan[6] = At("restore", "issued")
      /\ IssuePlan[7] = At("exists", "tradeTrust") /\ IssuePlan[8] = At("store", "tradeTrust")
      /\ IssuePlan[9] = At("replace", "tradeTrust") /\ IssuePlan[10] = At("set", "tradeTrust")
      /\ IssuePlan[11] = At("restore", "tradeTrust")
  <2>1. IssuePlan \in Seq(Steps)
    <3>1. /\ \A do \in {"exists", "store", "replace", "set", "restore"} :
                \A v \in {"issued", "tradeTrust"} : At(do, v) \in Steps
          /\ Simple("processing") \in Steps /\ Simple("issued") \in Steps
      BY StepTypes
    <3>2. QED
      BY <3>1 DEF IssuePlan
  <2>2. QED
    BY <2>1 DEF IssuePlan
<1> HIDE DEF a, u, w, b
<1>5. /\ q \in Seq(Steps) /\ Len(q) = 6
      /\ \A i \in 1..6 : q[i] = IF i <= 1 THEN a[i] ELSE u[i - 1]
  <2>1. /\ q \in Seq(Steps) /\ Len(q) = Len(a) + Len(u)
        /\ \A i \in 1..(Len(a) + Len(u)) :
              q[i] = IF i <= Len(a) THEN a[i] ELSE u[i - Len(a)]
    BY <1>1, <1>3, ConcatProperties
  <2> HIDE DEF q
  <2>2. QED
    BY <1>1, <1>3, <2>1
<1> HIDE DEF q
<1>6. /\ r \in Seq(Steps) /\ Len(r) = 11
      /\ \A i \in 1..11 : r[i] = IF i <= 6 THEN q[i] ELSE w[i - 6]
  <2>1. /\ r \in Seq(Steps) /\ Len(r) = Len(q) + Len(w)
        /\ \A i \in 1..(Len(q) + Len(w)) :
              r[i] = IF i <= Len(q) THEN q[i] ELSE w[i - Len(q)]
    BY <1>2, <1>5, ConcatProperties
  <2> HIDE DEF r
  <2>2. QED
    BY <1>2, <1>5, <2>1
<1> HIDE DEF r
<1>7. /\ t \in Seq(Steps) /\ Len(t) = 12
      /\ \A i \in 1..12 : t[i] = IF i <= 11 THEN r[i] ELSE b[i - 11]
  <2>1. /\ t \in Seq(Steps) /\ Len(t) = Len(r) + Len(b)
        /\ \A i \in 1..(Len(r) + Len(b)) :
              t[i] = IF i <= Len(r) THEN r[i] ELSE b[i - Len(r)]
    BY <1>3, <1>6, ConcatProperties
  <2> HIDE DEF t
  <2>2. QED
    BY <1>3, <1>6, <2>1
<1> HIDE DEF t
<1>8. ASSUME NEW i \in 1..12 PROVE t[i] = IssuePlan[i]
  <2>1. CASE i = 1
    BY <1>3, <1>4, <1>5, <1>6, <1>7, <2>1
  <2>2. CASE i \in 2..6
    <3>1. t[i] = u[i - 1]
      BY <1>5, <1>6, <1>7, <2>2
    <3>2. i = 2 \/ i = 3 \/ i = 4 \/ i = 5 \/ i = 6
      BY <2>2
    <3>3. QED
      BY <1>1, <1>4, <3>1, <3>2
  <2>3. CASE i \in 7..11
    <3>1. t[i] = w[i - 6]
      BY <1>6, <1>7, <2>3
    <3>2. i = 7 \/ i = 8 \/ i = 9 \/ i = 10 \/ i = 11
      BY <2>3
    <3>3. QED
      BY <1>2, <1>4, <3>1, <3>2
  <2>4. CASE i = 12
    BY <1>3, <1>4, <1>7, <2>4
  <2>5. QED
    BY <2>1, <2>2, <2>3, <2>4
<1>9. t = IssuePlan
  BY <1>4, <1>7, <1>8, SeqEqual
<1>10. QED
  BY <1>9 DEF t, r, q, a, u, w, b

(* What a request does before its first write.                             *)
LEMMA Begun ==
    ASSUME Base, NEW s \in Slots, NEW op \in Ops \ {"none"}, NEW d \in Docs,
           NEW l \in 0..Len(links), NEW email \in Address \cup {NoAddress},
           NEW todo \in Plans(op), Begin(s, op, d, l, email, todo),
           l # 0 <=> op \in {"access", "unshare"},
           Head(todo).do \in {"insert", "exists", "update", "delete", "processing", "share",
                              "count", "mark", "unshare"},
           Head(todo).do = "insert" => Unused(d),
           op \in {"update", "delete"} => doc[d].status = "In_Progress",
           op = "issue" => IsReadyToIssue(d) /\ Head(todo).do = "processing"
    PROVE  \E c : Starts(s, c)
<1> DEFINE c == [Idle EXCEPT !.op = op, !.doc = d, !.link = l, !.email = email, !.todo = todo]
<1>1. todo \in Seq(Steps) /\ Len(todo) \in 1..12
  <2>1. \A i \in 1..12 : i <= Len(todo) => todo \in Seq(Steps) /\ Len(todo) \in 1..12
    BY PlanFacts
  <2>2. Len(todo) >= 1
    <3>1. /\ UploadSteps("original") = <<Simple("exists"), Simple("store"), Simple("replace"),
                                         Simple("set"), Simple("restore")>>
      BY DEF UploadSteps, Simple
    <3>2. QED
      BY <3>1 DEF Plans, FilePlan, IssuePlan, Ops
  <2>3. QED
    BY <2>1, <2>2
<1>2. l \in 0..MaxLinks /\ l <= Len(links)
  BY DocumentsAssumption, LenProperties DEF Base
<1>3. /\ c \in CallState /\ c.op = op /\ c.doc = d /\ c.link = l /\ c.todo = todo
  BY <1>1, <1>2, IdleCall DEF CallState
<1>4. TodoSound(c)
  <2>1. todo = SubSeq(todo, 1, Len(todo)) /\ 1 <= Len(todo) /\ 1 \in 1..12
    BY <1>1, WholePlan
  <2>2. QED
    BY <1>3, <2>1 DEF TodoSound
<1>5. call' = [call EXCEPT ![s] = c]
  BY DEF Begin
<1> HIDE DEF c
<1>6. CallSound(c)
  BY <1>3, <1>4 DEF CallSound
<1>7. Opens(c)
  BY <1>3 DEF Opens
<1>8. begun < MaxCalls
  <2>1. setting.group \in Groups /\ begun \in Nat /\ MaxCalls \in Nat
    BY DocumentsAssumption DEF Base
  <2>2. setting.group.calls \in 0..MaxCalls
    BY <2>1, DocumentsAssumption
  <2>3. begun < setting.group.calls
    BY DEF Begin
  <2>4. QED
    BY <2>1, <2>2, <2>3
<1>9. Starts(s, c)
  BY <1>2, <1>3, <1>5, <1>6, <1>7, <1>8 DEF Starts, Begin
<1>10. QED
  BY <1>9

LEMMA LinkTypes ==
    ASSUME Base
    PROVE  /\ Len(links) \in 0..MaxLinks /\ DOMAIN links = 1..Len(links)
           /\ \A l \in 1..Len(links) : links[l] \in Link /\ links[l].doc \in Docs
<1>1. links \in Seq(Link) /\ Len(links) <= MaxLinks
  BY DEF Base
<1>2. \A l \in 1..Len(links) : links[l] \in Link
  BY <1>1, ElementOfSeq
<1>3. QED
  BY <1>1, <1>2, LenProperties, DocumentsAssumption DEF Link

LEMMA RequestStarts ==
    ASSUME Base, NEW s \in Slots,
           \/ \E d \in Docs :
                 \/ CreateTradeDocument(s, d) \/ CreateTradeDocumentFromFile(s, d)
                 \/ UploadTradeDocumentFile(s, d) \/ UpdateTradeDocument(s, d)
                 \/ DeleteTradeDocument(s, d) \/ IssueTradeDocument(s, d)
                 \/ CreateShareLink(s, d)
           \/ \E l \in DOMAIN links :
                 \/ \E email \in Address \cup {NoAddress}, v \in {"original", "issued"} :
                       AccessShareLink(s, l, email, v)
                 \/ AccessOverLink(s, l) \/ DeleteShareLink(s, l)
    PROVE  \E c : Starts(s, c)
<1>0. /\ 0 \in 0..Len(links) /\ NoAddress \in Address \cup {NoAddress}
      /\ DOMAIN links = 1..Len(links) /\ Len(links) \in Nat
      /\ \A l \in 1..Len(links) : links[l].doc \in Docs /\ l \in 0..Len(links) /\ l # 0
  BY LinkTypes
<1>1. ASSUME NEW d \in Docs, CreateTradeDocument(s, d) PROVE \E c : Starts(s, c)
  <2>1. <<Simple("insert")>> \in Plans("create") /\ Head(<<Simple("insert")>>).do = "insert"
    BY StepTypes DEF Plans
  <2>2. "create" \in Ops \ {"none"}
    BY DEF Ops
  <2>3. QED
    BY <1>0, <1>1, <2>1, <2>2, Begun DEF CreateTradeDocument
<1>2. ASSUME NEW d \in Docs, CreateTradeDocumentFromFile(s, d) PROVE \E c : Starts(s, c)
  <2> DEFINE p == <<Simple("insert")>> \o UploadSteps("original")
  <2>1. p = FilePlan
    BY FileList
  <2>2. Head(p).do = "insert"
    BY <2>1, StepTypes DEF FilePlan
  <2>3. p \in Plans("create_from_file") /\ "create_from_file" \in Ops \ {"none"}
    BY <2>1 DEF Plans, Ops
  <2>4. Begin(s, "create_from_file", d, 0, NoAddress, p) /\ Unused(d)
    BY <1>2 DEF CreateTradeDocumentFromFile
  <2> HIDE DEF p
  <2>5. QED
    BY <1>0, <2>2, <2>3, <2>4, Begun
<1>3. ASSUME NEW d \in Docs, UploadTradeDocumentFile(s, d) PROVE \E c : Starts(s, c)
  <2> DEFINE p == UploadSteps("original")
  <2>1. Head(p).do = "exists"
    BY StepTypes DEF UploadSteps
  <2>2. p \in Plans("upload") /\ "upload" \in Ops \ {"none"}
    BY DEF Plans, Ops
  <2>3. Begin(s, "upload", d, 0, NoAddress, p)
    BY <1>3 DEF UploadTradeDocumentFile
  <2> HIDE DEF p
  <2>4. QED
    BY <1>0, <2>1, <2>2, <2>3, Begun
<1>4. ASSUME NEW d \in Docs, UpdateTradeDocument(s, d) PROVE \E c : Starts(s, c)
  <2>1. <<Simple("update")>> \in Plans("update") /\ Head(<<Simple("update")>>).do = "update"
    BY StepTypes DEF Plans
  <2>2. "update" \in Ops \ {"none"} /\ doc[d].status = "In_Progress"
    BY <1>4 DEF Ops, UpdateTradeDocument, DocumentIsUpdatable
  <2>3. QED
    BY <1>0, <1>4, <2>1, <2>2, Begun DEF UpdateTradeDocument
<1>5. ASSUME NEW d \in Docs, DeleteTradeDocument(s, d) PROVE \E c : Starts(s, c)
  <2>1. <<Simple("delete")>> \in Plans("delete") /\ Head(<<Simple("delete")>>).do = "delete"
    BY StepTypes DEF Plans
  <2>2. "delete" \in Ops \ {"none"} /\ doc[d].status = "In_Progress"
    BY <1>5 DEF Ops, DeleteTradeDocument, DocumentIsDeletable
  <2>3. QED
    BY <1>0, <1>5, <2>1, <2>2, Begun DEF DeleteTradeDocument
<1>6. ASSUME NEW d \in Docs, IssueTradeDocument(s, d) PROVE \E c : Starts(s, c)
  <2> DEFINE p == <<Simple("processing")>> \o UploadSteps("issued")
                     \o UploadSteps("tradeTrust") \o <<Simple("issued")>>
  <2>1. p = IssuePlan
    BY IssueList
  <2>2. Head(p).do = "processing"
    BY <2>1, StepTypes DEF IssuePlan
  <2>3. p \in Plans("issue") /\ "issue" \in Ops \ {"none"}
    BY <2>1 DEF Plans, Ops
  <2>4. Begin(s, "issue", d, 0, NoAddress, p) /\ IsReadyToIssue(d)
    BY <1>6 DEF IssueTradeDocument
  <2> HIDE DEF p
  <2>5. QED
    BY <1>0, <2>2, <2>3, <2>4, Begun
<1>7. ASSUME NEW d \in Docs, CreateShareLink(s, d) PROVE \E c : Starts(s, c)
  <2>1. <<Simple("share")>> \in Plans("share") /\ Head(<<Simple("share")>>).do = "share"
    BY StepTypes DEF Plans
  <2>2. "share" \in Ops \ {"none"}
    BY DEF Ops
  <2>3. QED
    BY <1>0, <1>7, <2>1, <2>2, Begun DEF CreateShareLink
<1>8. ASSUME NEW l \in DOMAIN links, NEW email \in Address \cup {NoAddress},
             NEW v \in {"original", "issued"}, AccessShareLink(s, l, email, v)
      PROVE  \E c : Starts(s, c)
  <2> DEFINE p == <<Simple("count"), At("serve", v)>>
  <2>1. p \in Plans("access") /\ Head(p).do = "count"
    BY <1>8, StepTypes DEF Plans, Variant
  <2>2. "access" \in Ops \ {"none"} /\ l \in 1..Len(links)
    BY <1>0 DEF Ops
  <2>3. Begin(s, "access", links[l].doc, l, email, p)
    BY <1>8 DEF AccessShareLink
  <2> HIDE DEF p
  <2>4. QED
    BY <1>0, <2>1, <2>2, <2>3, Begun
<1>9. ASSUME NEW l \in DOMAIN links, AccessOverLink(s, l) PROVE \E c : Starts(s, c)
  <2>1. <<Simple("mark")>> \in Plans("access") /\ Head(<<Simple("mark")>>).do = "mark"
    BY StepTypes DEF Plans
  <2>2. "access" \in Ops \ {"none"} /\ l \in 1..Len(links)
    BY <1>0 DEF Ops
  <2>3. QED
    BY <1>0, <1>9, <2>1, <2>2, Begun DEF AccessOverLink
<1>10. ASSUME NEW l \in DOMAIN links, DeleteShareLink(s, l) PROVE \E c : Starts(s, c)
  <2>1. /\ <<Simple("unshare")>> \in Plans("unshare")
        /\ Head(<<Simple("unshare")>>).do = "unshare"
    BY StepTypes DEF Plans
  <2>2. "unshare" \in Ops \ {"none"} /\ l \in 1..Len(links)
    BY <1>0 DEF Ops
  <2>3. QED
    BY <1>0, <1>10, <2>1, <2>2, Begun DEF DeleteShareLink
<1>11. QED
  BY <1>1, <1>2, <1>3, <1>4, <1>5, <1>6, <1>7, <1>8, <1>9, <1>10
-----------------------------------------------------------------------------
(* What the steps do to their calls.                                       *)
LEMMA StoringFits ==
    ASSUME Base, StoresBounded, NEW s \in Slots, Doing(s, "store")
    PROVE  stored + 1 \in File /\ stored \in Nat
<1>1. /\ stored \in Nat /\ begun \in Nat /\ begun <= MaxCalls /\ MaxCalls \in Nat
  BY DocumentsAssumption DEF Base, File
<1>2. StoresOne(call[s])
  <2>1. CallSound(call[s]) /\ call[s].op # "none" /\ Head(call[s].todo).do = "store"
    BY Doer DEF Busy, Doing
  <2>2. Fits(call[s].op, Head(call[s].todo), Len(call[s].todo))
    BY <2>1, Planned
  <2>3. \/ call[s].op \in {"create_from_file", "upload"} /\ Len(call[s].todo) = 4
        \/ call[s].op = "issue" /\ (Len(call[s].todo) = 5 \/ Len(call[s].todo) = 10)
    BY <2>1, <2>2 DEF Fits
  <2> DEFINE n == Len(call[s].todo)
  <2>4. \/ call[s].op \in {"create_from_file", "upload"} /\ n = 4
        \/ call[s].op = "issue" /\ (n = 5 \/ n = 10)
    BY <2>3
  <2> HIDE DEF n
  <2>5. \/ call[s].op \in {"create_from_file", "upload"} /\ n >= 4
        \/ call[s].op = "issue" /\ n >= 5
    BY <2>4
  <2>6. QED
    BY <2>5 DEF StoresOne, n
<1>3. IsFiniteSet(One) /\ IsFiniteSet(Two) /\ s \in One
  <2>1. One \subseteq Slots /\ Two \subseteq Slots
    BY DEF One, Two
  <2>2. QED
    BY <1>2, <2>1, FS_Subset, DocumentsAssumption DEF One
<1>4. Cardinality(One) \in Nat /\ Cardinality(Two) \in Nat /\ Cardinality(One) # 0
  BY <1>3, FS_CardinalityType, FS_EmptySet
<1>5. stored + 1 <= 1 + 2 * begun
  BY <1>1, <1>4 DEF StoresBounded
<1>6. stored + 1 <= 1 + 2 * MaxCalls
  BY <1>1, <1>5
<1>7. QED
  BY <1>1, <1>6 DEF File

LEMMA SameMoves ==
    ASSUME Base, NEW s \in Slots, Busy(s), Step(s, call[s])
    PROVE  Moves(s, call[s].file, call[s].status) /\ UNCHANGED <<setting, begun, faults>>
BY Doer, StepMoves

LEMMA StepActs ==
    ASSUME Base, NEW s \in Slots,
           \/ Insert(s) \/ Update(s) \/ ReplaceFile(s) \/ SetStatus(s) \/ Delete(s)
           \/ Share(s) \/ UpdateAccessCount(s) \/ Serve(s) \/ EndLink(s)
    PROVE  /\ Busy(s) /\ Moves(s, call[s].file, call[s].status)
           /\ UNCHANGED <<setting, begun, faults>>
<1>1. Step(s, call[s]) /\ call[s].todo # <<>>
  BY DEF Insert, Update, ReplaceFile, SetStatus, Delete, Share, UpdateAccessCount, Serve,
         EndLink, Doing
<1>2. Busy(s)
  BY <1>1, Doer
<1>3. QED
  BY <1>1, <1>2, SameMoves

LEMMA ExistsActs ==
    ASSUME Base, NEW s \in Slots, Exists(s)
    PROVE  /\ Busy(s) /\ UNCHANGED <<setting, begun, faults>>
           /\ \/ Present(call[s].doc) /\ Moves(s, call[s].file, call[s].status)
              \/ Leaves(s)
<1>1. Busy(s)
  BY Doer DEF Exists
<1>2. CASE Present(call[s].doc)
  BY <1>1, <1>2, SameMoves DEF Exists
<1>3. CASE ~Present(call[s].doc)
  BY <1>1, <1>3, ThrowLeaves DEF Exists
<1>4. QED
  BY <1>1, <1>2, <1>3

LEMMA UploadActs ==
    ASSUME Base, StoresBounded, NEW s \in Slots, UploadFile(s)
    PROVE  /\ Busy(s) /\ Moves(s, stored + 1, call[s].status)
           /\ stored + 1 \in File /\ UNCHANGED <<setting, begun, faults>>
<1>1. Busy(s) /\ Doing(s, "store") /\ call[s] \in CallState
  BY Doer DEF UploadFile
<1>2. stored + 1 \in File
  BY <1>1, StoringFits
<1> DEFINE b == [call[s] EXCEPT !.file = stored + 1]
<1>3. /\ b \in CallState /\ b.op = call[s].op /\ b.doc = call[s].doc /\ b.link = call[s].link
      /\ b.todo = call[s].todo /\ b.file = stored + 1 /\ b.status = call[s].status
  BY <1>1, <1>2 DEF CallState
<1>4. Step(s, b)
  BY DEF UploadFile
<1> HIDE DEF b
<1>5. Moves(s, b.file, b.status) /\ UNCHANGED <<setting, begun, faults>>
  BY <1>1, <1>3, <1>4, StepMoves
<1>6. QED
  BY <1>1, <1>2, <1>3, <1>5

LEMMA SetFileActs ==
    ASSUME Base, NEW s \in Slots, SetFile(s)
    PROVE  /\ Busy(s) /\ Moves(s, call[s].file, doc[call[s].doc].status)
           /\ UNCHANGED <<setting, begun, faults>>
<1>1. Busy(s) /\ call[s] \in CallState /\ call[s].doc \in Docs
  BY Doer DEF SetFile
<1>2. doc[call[s].doc].status \in Status
  BY <1>1 DEF SetFile, Present, Base, Document
<1> DEFINE b == [call[s] EXCEPT !.status = doc[call[s].doc].status]
<1>3. /\ b \in CallState /\ b.op = call[s].op /\ b.doc = call[s].doc /\ b.link = call[s].link
      /\ b.todo = call[s].todo /\ b.file = call[s].file
      /\ b.status = doc[call[s].doc].status
  BY <1>1, <1>2 DEF CallState
<1>4. Step(s, b)
  BY DEF SetFile
<1> HIDE DEF b
<1>5. Moves(s, b.file, b.status) /\ UNCHANGED <<setting, begun, faults>>
  BY <1>1, <1>3, <1>4, StepMoves
<1>6. QED
  BY <1>1, <1>3, <1>5

LEMMA GoneActs ==
    ASSUME Base, NEW s \in Slots, DocumentGone(s)
    PROVE  Busy(s) /\ Leaves(s) /\ UNCHANGED <<setting, begun, faults>>
<1>1. Busy(s)
  BY Doer DEF DocumentGone
<1>2. QED
  BY <1>1, ThrowLeaves DEF DocumentGone

LEMMA FailActs ==
    ASSUME Base, NEW s \in Slots, CallFails(s)
    PROVE  Busy(s) /\ Leaves(s) /\ UNCHANGED <<setting, begun>>
<1>1. Busy(s)
  BY Doer DEF CallFails
<1>2. QED
  BY <1>1 DEF CallFails, Leaves
-----------------------------------------------------------------------------
(* The type is kept.                                                       *)
Touches(s) == (\E c : Starts(s, c) \/ Goes(s, c)) \/ Leaves(s)

LEMMA MovesTouch ==
    ASSUME NEW s, NEW f, NEW status, Moves(s, f, status)
    PROVE  Touches(s)
BY DEF Moves, Touches

LEMMA CallsKept ==
    ASSUME Base, NEW s \in Slots, Touches(s)
    PROVE  /\ call' \in [Slots -> CallState]
           /\ \A r \in Slots : CallSound(call'[r]) /\ call'[r].link <= Len(links)
<1>0. /\ call \in [Slots -> CallState]
      /\ \A r \in Slots : CallSound(call[r]) /\ call[r].link <= Len(links)
      /\ 0 <= Len(links)
  BY LinkTypes DEF Base
<1>1. PICK c \in CallState : CallSound(c) /\ c.link <= Len(links) /\ call' = [call EXCEPT ![s] = c]
  <2>1. ASSUME NEW c, Starts(s, c)
        PROVE  c \in CallState /\ CallSound(c) /\ c.link <= Len(links)
               /\ call' = [call EXCEPT ![s] = c]
    BY <2>1 DEF Starts, CallSound
  <2>2. ASSUME NEW c, Goes(s, c)
        PROVE  c \in CallState /\ CallSound(c) /\ c.link <= Len(links)
               /\ call' = [call EXCEPT ![s] = c]
    BY <1>0, <2>2 DEF Goes
  <2>3. ASSUME Leaves(s)
        PROVE  Idle \in CallState /\ CallSound(Idle) /\ Idle.link <= Len(links)
               /\ call' = [call EXCEPT ![s] = Idle]
    BY <1>0, <2>3, IdleCall DEF Leaves
  <2>4. QED
    BY <2>1, <2>2, <2>3 DEF Touches
<1>2. QED
  BY <1>0, <1>1

(* What a step that is not about a link does to the rest.                  *)
LEMMA BaseKept ==
    ASSUME Base, NEW s \in Slots, Touches(s) \/ UNCHANGED call, setting' = setting,
           doc' \in [Docs -> Document], disk' \subseteq File \ {0},
           erasing' \subseteq File \ {0}, links' \in Seq(Link), Len(links') <= MaxLinks,
           Len(links) <= Len(links'), begun' \in 0..MaxCalls, stored' \in File,
           faults' \in 0..MaxFaults, past' \in Memory
    PROVE  Base'
<1>1. Len(links) \in Nat /\ Len(links') \in Nat
  BY LenProperties DEF Base
<1>2. /\ call' \in [Slots -> CallState]
      /\ \A r \in Slots : CallSound(call'[r]) /\ call'[r].link <= Len(links)
  BY CallsKept DEF Base
<1>3. \A r \in Slots : call'[r].link \in Nat
  BY <1>2, DocumentsAssumption DEF CallState
<1>4. \A r \in Slots : CallSound(call'[r]) /\ call'[r].link <= Len(links')
  BY <1>1, <1>2, <1>3
<1>5. QED
  BY <1>2, <1>4 DEF Base

LEMMA BaseFacts ==
    ASSUME Base
    PROVE  /\ doc \in [Docs -> Document] /\ disk \subseteq File \ {0}
           /\ erasing \subseteq File \ {0} /\ links \in Seq(Link) /\ Len(links) <= MaxLinks
           /\ Len(links) <= Len(links) /\ begun \in 0..MaxCalls /\ stored \in File
           /\ faults \in 0..MaxFaults /\ past \in Memory
           /\ MaxCalls \in Nat /\ MaxLinks \in Nat /\ MaxFaults \in Nat /\ stored \in Nat
<1>1. Len(links) \in Nat
  BY LenProperties DEF Base
<1>2. QED
  BY <1>1, DocumentsAssumption DEF Base, File

(* What the steps do to the records.                                       *)
SameFiles(d) == doc'[d].file = doc[d].file
LEMMA RecordFields ==
    ASSUME NEW x \in Document
    PROVE  /\ x = [status |-> x.status, type |-> x.type, content |-> x.content,
                   claimants |-> x.claimants, file |-> x.file]
           /\ x.status \in Status \cup {"absent", "deleted"} /\ x.type \in Types
           /\ x.content \in Types \cup {"none"} /\ x.claimants \in BOOLEAN
           /\ x.file \in [Variant -> File]
BY DEF Document

LEMMA InsertDocs ==
    ASSUME Base, NEW s \in Slots, Insert(s)
    PROVE  /\ doc' \in [Docs -> Document] /\ call[s].doc \in Docs
           /\ \A d \in Docs : d # call[s].doc => doc'[d] = doc[d]
           /\ \A d \in Docs : SameFiles(d)
           /\ doc'[call[s].doc].status = "In_Progress"
<1> DEFINE d == call[s].doc
<1>1. d \in Docs
  BY Doer DEF Insert
<1>2. doc \in [Docs -> Document]
  BY DEF Base
<1>3. PICK type \in Types, content \in BOOLEAN, claimants \in BOOLEAN :
         doc' = [doc EXCEPT ![d] =
                    [doc[d] EXCEPT !.status = "In_Progress", !.type = type,
                                   !.content = IF content THEN type ELSE "none",
                                   !.claimants = claimants]]
  BY DEF Insert
<1> HIDE DEF d
<1> DEFINE x == [doc[d] EXCEPT !.status = "In_Progress", !.type = type,
                               !.content = IF content THEN type ELSE "none",
                               !.claimants = claimants]
<1>4. x \in Document /\ x.file = doc[d].file /\ x.status = "In_Progress"
  BY <1>1, <1>2 DEF Document, Status
<1>5. doc' = [doc EXCEPT ![d] = x]
  BY <1>3
<1> HIDE DEF x
<1>6. /\ doc' \in [Docs -> Document] /\ doc'[d] = x
      /\ \A e \in Docs : e # d => doc'[e] = doc[e]
  BY <1>1, <1>2, <1>4, <1>5
<1>7. \A e \in Docs : SameFiles(e)
  BY <1>4, <1>6 DEF SameFiles
<1>8. QED
  BY <1>1, <1>4, <1>6, <1>7 DEF d

LEMMA UpdateDocs ==
    ASSUME Base, NEW s \in Slots, Update(s)
    PROVE  /\ doc' \in [Docs -> Document] /\ call[s].doc \in Docs
           /\ \A d \in Docs : d # call[s].doc => doc'[d] = doc[d]
           /\ \A d \in Docs : SameFiles(d) /\ doc'[d].status = doc[d].status
<1> DEFINE d == call[s].doc
<1>1. d \in Docs
  BY Doer DEF Update
<1>2. doc \in [Docs -> Document]
  BY DEF Base
<1>3. PICK type \in Types, content \in BOOLEAN, claimants \in BOOLEAN :
         doc' = [doc EXCEPT ![d] =
                    [doc[d] EXCEPT !.type = type, !.content = IF content THEN type ELSE @,
                                   !.claimants = type # "other" /\ (@ \/ claimants)]]
  BY DEF Update
<1> HIDE DEF d
<1> DEFINE x == [doc[d] EXCEPT !.type = type, !.content = IF content THEN type ELSE @,
                               !.claimants = type # "other" /\ (@ \/ claimants)]
<1>4. x \in Document /\ x.file = doc[d].file /\ x.status = doc[d].status
  BY <1>1, <1>2 DEF Document
<1>5. doc' = [doc EXCEPT ![d] = x]
  BY <1>3
<1> HIDE DEF x
<1>6. /\ doc' \in [Docs -> Document] /\ doc'[d] = x
      /\ \A e \in Docs : e # d => doc'[e] = doc[e]
  BY <1>1, <1>2, <1>4, <1>5
<1>7. \A e \in Docs : SameFiles(e) /\ doc'[e].status = doc[e].status
  BY <1>4, <1>6 DEF SameFiles
<1>8. QED
  BY <1>1, <1>6, <1>7 DEF d

LEMMA SetFileDocs ==
    ASSUME Base, NEW s \in Slots, SetFile(s)
    PROVE  /\ doc' \in [Docs -> Document] /\ call[s].doc \in Docs /\ VariantOf(s) \in Variant
           /\ \A d \in Docs : d # call[s].doc => doc'[d] = doc[d]
           /\ \A d \in Docs :
                 /\ doc'[d].status = doc[d].status /\ doc'[d].type = doc[d].type
                 /\ doc'[d].content = doc[d].content /\ doc'[d].claimants = doc[d].claimants
           /\ doc'[call[s].doc].file[VariantOf(s)] = call[s].file
           /\ \A v \in Variant : v # VariantOf(s) =>
                 doc'[call[s].doc].file[v] = doc[call[s].doc].file[v]
<1> DEFINE d == call[s].doc
           v == VariantOf(s)
           f == call[s].file
<1>1. d \in Docs /\ f \in File /\ v \in Variant
  <2>1. CallSound(call[s]) /\ call[s].op # "none" /\ call[s] \in CallState /\ d \in Docs
    BY Doer DEF SetFile, Busy
  <2>2. Head(call[s].todo) \in Steps
    BY <2>1, Planned
  <2>3. QED
    BY <2>1, <2>2 DEF CallState, VariantOf, Steps
<1>2. doc \in [Docs -> Document]
  BY DEF Base
<1>3. doc' = [doc EXCEPT ![d].file[v] = f]
  BY DEF SetFile
<1> HIDE DEF d, v, f
<1>4. doc[d] \in Document /\ doc[d].file \in [Variant -> File]
  BY <1>1, <1>2, RecordFields
<1> DEFINE g == [doc[d].file EXCEPT ![v] = f]
           x == [doc[d] EXCEPT !.file = g]
<1>5. g \in [Variant -> File] /\ g[v] = f /\ \A w \in Variant : w # v => g[w] = doc[d].file[w]
  BY <1>1, <1>4
<1>6. doc' = [doc EXCEPT ![d] = x]
  BY <1>1, <1>2, <1>3
<1> HIDE DEF g
<1>7. /\ x \in Document /\ x.file = g /\ x.status = doc[d].status /\ x.type = doc[d].type
      /\ x.content = doc[d].content /\ x.claimants = doc[d].claimants
  BY <1>4, <1>5 DEF Document
<1> HIDE DEF x
<1>8. /\ doc' \in [Docs -> Document] /\ doc'[d] = x
      /\ \A e \in Docs : e # d => doc'[e] = doc[e]
  BY <1>1, <1>2, <1>6, <1>7
<1>9. QED
  BY <1>1, <1>5, <1>7, <1>8 DEF d, v, f

(* The status that is written.                                             *)
NewStatus(s) == CASE Doing(s, "restore") -> call[s].status
                  [] Doing(s, "processing") -> "Processing"
                  [] OTHER -> "Issued"

LEMMA SetStatusDocs ==
    ASSUME Base, NEW s \in Slots, SetStatus(s)
    PROVE  /\ doc' \in [Docs -> Document] /\ call[s].doc \in Docs
           /\ \A d \in Docs : d # call[s].doc => doc'[d] = doc[d]
           /\ \A d \in Docs :
                 /\ SameFiles(d) /\ doc'[d].type = doc[d].type
                 /\ doc'[d].content = doc[d].content /\ doc'[d].claimants = doc[d].claimants
           /\ doc'[call[s].doc].status = NewStatus(s) /\ NewStatus(s) \in Status
<1> DEFINE d == call[s].doc
           n == NewStatus(s)
<1>1. d \in Docs /\ call[s] \in CallState
  BY Doer DEF SetStatus
<1>2. doc \in [Docs -> Document]
  BY DEF Base
<1>3. n \in Status
  <2>1. call[s].status \in Status
    BY <1>1 DEF CallState
  <2>2. QED
    BY <2>1 DEF NewStatus, Status
<1>4. doc' = [doc EXCEPT ![d].status = n]
  BY DEF SetStatus, NewStatus
<1> HIDE DEF d, n
<1> DEFINE x == [doc[d] EXCEPT !.status = n]
<1>5. doc' = [doc EXCEPT ![d] = x]
  BY <1>1, <1>2, <1>4
<1>6. /\ x \in Document /\ x.file = doc[d].file /\ x.status = n /\ x.type = doc[d].type
      /\ x.content = doc[d].content /\ x.claimants = doc[d].claimants
  BY <1>1, <1>2, <1>3 DEF Document
<1> HIDE DEF x
<1>7. /\ doc' \in [Docs -> Document] /\ doc'[d] = x
      /\ \A e \in Docs : e # d => doc'[e] = doc[e]
  BY <1>1, <1>2, <1>5, <1>6
<1>8. \A e \in Docs :
         /\ SameFiles(e) /\ doc'[e].type = doc[e].type
         /\ doc'[e].content = doc[e].content /\ doc'[e].claimants = doc[e].claimants
  BY <1>6, <1>7 DEF SameFiles
<1>9. QED
  BY <1>1, <1>3, <1>6, <1>7, <1>8 DEF d, n

LEMMA AbsentDocument ==
    /\ Absent \in Document /\ Absent.status = "absent" /\ Absent.type = "invoice"
    /\ \A v \in Variant : Absent.file[v] = 0
<1>1. 0 \in File /\ "invoice" \in Types
  BY DocumentsAssumption DEF File
<1>2. QED
  BY <1>1 DEF Absent, Document

LEMMA DeleteDocs ==
    ASSUME Base, NEW s \in Slots, Delete(s)
    PROVE  /\ doc' \in [Docs -> Document] /\ call[s].doc \in Docs
           /\ \A d \in Docs : d # call[s].doc => doc'[d] = doc[d]
           /\ doc'[call[s].doc].status = "deleted"
           /\ \A v \in Variant : doc'[call[s].doc].file[v] = 0
<1> DEFINE d == call[s].doc
           x == [Absent EXCEPT !.status = "deleted"]
<1>1. d \in Docs
  BY Doer DEF Delete
<1>2. doc \in [Docs -> Document]
  BY DEF Base
<1>3. x \in Document /\ x.status = "deleted" /\ \A v \in Variant : x.file[v] = 0
  BY AbsentDocument DEF Document
<1>4. doc' = [doc EXCEPT ![d] = x]
  BY DEF Delete
<1> HIDE DEF d, x
<1>5. /\ doc' \in [Docs -> Document] /\ doc'[d] = x
      /\ \A e \in Docs : e # d => doc'[e] = doc[e]
  BY <1>1, <1>2, <1>3, <1>4
<1>6. QED
  BY <1>1, <1>3, <1>5 DEF d

(* What the steps do to links and to what is remembered.                   *)
LEMMA LinkSteps ==
    ASSUME Base, NEW s \in Slots,
           Doing(s, "count") \/ Doing(s, "serve") \/ Doing(s, "mark") \/ Doing(s, "unshare")
    PROVE  call[s].link \in 1..Len(links) /\ call[s].link \in 1..MaxLinks
<1>1. CallSound(call[s]) /\ call[s].op # "none" /\ call[s] \in CallState
  BY Doer DEF Busy
<1>2. Fits(call[s].op, Head(call[s].todo), Len(call[s].todo))
  BY <1>1, Planned
<1>3. call[s].op \in {"access", "unshare"}
  BY <1>2 DEF Fits, Doing
<1>4. call[s].link # 0 /\ call[s].link \in 0..MaxLinks /\ call[s].link <= Len(links)
  BY <1>1, <1>3 DEF CallSound, CallState, Base
<1>5. Len(links) \in Nat /\ MaxLinks \in Nat
  BY BaseFacts, LenProperties
<1>6. QED
  BY <1>4, <1>5

LEMMA ShareLinks ==
    ASSUME Base, NEW s \in Slots, Share(s)
    PROVE  /\ links' \in Seq(Link) /\ Len(links') <= MaxLinks
           /\ Len(links') = Len(links) + 1
           /\ \A l \in 1..Len(links) : links'[l] = links[l]
           /\ links'[Len(links')].accessCount = 0
<1>1. call[s].doc \in Docs
  BY Doer DEF Share
<1>2. PICK expires \in BOOLEAN, allowed \in {{}, {"ann"}, {"Ann"}} :
         links' = Append(links, [doc |-> call[s].doc, expires |-> expires,
                                 over |-> FALSE, isExpired |-> FALSE,
                                 allowed |-> allowed, accessCount |-> 0,
                                 history |-> <<>>, deleted |-> FALSE])
  BY DEF Share
<1> DEFINE x == [doc |-> call[s].doc, expires |-> expires, over |-> FALSE,
                 isExpired |-> FALSE, allowed |-> allowed, accessCount |-> 0,
                 history |-> <<>>, deleted |-> FALSE]
<1>3. x \in Link /\ x.accessCount = 0
  <2>1. 0 \in 0..MaxCalls /\ <<>> \in Seq(Address) /\ allowed \in SUBSET Address
    BY BaseFacts DEF Address
  <2>2. QED
    BY <1>1, <2>1 DEF Link
<1>4. links' = Append(links, x)
  BY <1>2
<1> HIDE DEF x
<1>5. links \in Seq(Link) /\ Len(links) < MaxLinks /\ Len(links) \in Nat /\ MaxLinks \in Nat
  BY BaseFacts, LenProperties DEF Share
<1>6. /\ links' \in Seq(Link) /\ Len(links') = Len(links) + 1
      /\ links'[Len(links) + 1] = x
      /\ \A l \in 1..Len(links) : links'[l] = links[l]
  BY <1>3, <1>4, <1>5, AppendProperties
<1>7. Len(links') <= MaxLinks
  BY <1>5, <1>6
<1>8. QED
  BY <1>3, <1>6, <1>7

LEMMA CountLinks ==
    ASSUME Base, LinksSound, NEW s \in Slots, UpdateAccessCount(s)
    PROVE  LET l == call[s].link IN
           /\ links' \in Seq(Link) /\ Len(links') = Len(links)
           /\ \A k \in 1..Len(links) : links'[k].deleted = links[k].deleted
           /\ \A k \in 1..Len(links) : k # l => links'[k].accessCount = links[k].accessCount
           /\ links'[l].accessCount = IF Found(l) THEN links[l].accessCount + 1
                                      ELSE links[l].accessCount
<1> DEFINE l == call[s].link
<1>1. l \in 1..Len(links) /\ s \in Counting(l) /\ call[s] \in CallState
  BY LinkSteps, Doer DEF UpdateAccessCount, Counting
<1>2. links[l] \in Link /\ links \in Seq(Link)
  BY <1>1, LinkTypes, BaseFacts
<1>3. links' = IF Found(l) THEN [links EXCEPT ![l] = Counted(s, links[l])] ELSE links
  BY DEF UpdateAccessCount
<1>4. links[l].accessCount + 1 \in 0..MaxCalls
  <2>1. CountSound(l) /\ begun \in 0..MaxCalls /\ MaxCalls \in Nat
    BY <1>1, BaseFacts, LinkTypes DEF LinksSound
  <2>2. IsFiniteSet(Counting(l))
    BY FS_Subset, DocumentsAssumption DEF Counting
  <2>3. Cardinality(Counting(l)) \in Nat /\ Cardinality(Counting(l)) # 0
    BY <1>1, <2>2, FS_CardinalityType, FS_EmptySet
  <2>4. links[l].accessCount \in 0..MaxCalls
    BY <1>2 DEF Link
  <2>5. QED
    BY <2>1, <2>3, <2>4 DEF CountSound
<1>5. Entry(s) \in Seq(Address)
  <2>1. call[s].email \in Address \cup {NoAddress}
    BY <1>1 DEF CallState
  <2>2. call[s].email # NoAddress => ToLowerCase(call[s].email) \in Address
    BY <2>1 DEF ToLowerCase, Address
  <2>3. QED
    BY <2>2 DEF Entry
<1> DEFINE x == Counted(s, links[l])
<1>6. x \in Link /\ x.accessCount = links[l].accessCount + 1 /\ x.deleted = links[l].deleted
  <2>1. links[l].history \o Entry(s) \in Seq(Address)
    BY <1>2, <1>5, ConcatProperties DEF Link
  <2>2. QED
    BY <1>2, <1>4, <2>1 DEF Counted, Link
<1>7. links' = IF Found(l) THEN [links EXCEPT ![l] = x] ELSE links
  BY <1>3
<1> HIDE DEF x, l
<1>8. CASE Found(l)
  <2>1. links' = [links EXCEPT ![l] = x]
    BY <1>7, <1>8
  <2>2. /\ links' \in Seq(Link) /\ Len(links') = Len(links) /\ links'[l] = x
        /\ \A k \in 1..Len(links) : k # l => links'[k] = links[k]
    BY <1>1, <1>2, <1>6, <2>1, ExceptSeq, LenProperties
  <2>3. QED
    BY <1>6, <1>8, <2>2 DEF l
<1>9. CASE ~Found(l)
  BY <1>2, <1>7, <1>9 DEF l
<1>10. QED
  BY <1>8, <1>9

(* A link whose time is over, that is marked or that is deleted.            *)
LEMMA FlagLinks ==
    ASSUME Base, NEW l \in 1..Len(links), NEW x \in Link,
           links' = [links EXCEPT ![l] = x], x.accessCount = links[l].accessCount,
           links[l].deleted => x.deleted
    PROVE  /\ links' \in Seq(Link) /\ Len(links') = Len(links)
           /\ \A k \in 1..Len(links) :
                 /\ links'[k].accessCount = links[k].accessCount
                 /\ links[k].deleted => links'[k].deleted
<1>1. links \in Seq(Link)
  BY BaseFacts
<1>2. /\ links' \in Seq(Link) /\ Len(links') = Len(links)
      /\ \A k \in 1..Len(links) : links'[k] = IF k = l THEN x ELSE links[k]
  BY <1>1, ExceptSeq
<1>3. QED
  BY <1>2

LEMMA TimeLinks ==
    ASSUME Base, NEW l \in DOMAIN links, TimePasses(l)
    PROVE  /\ links' \in Seq(Link) /\ Len(links') = Len(links)
           /\ \A k \in 1..Len(links) :
                 /\ links'[k].accessCount = links[k].accessCount
                 /\ links[k].deleted => links'[k].deleted
<1> DEFINE x == [links[l] EXCEPT !.over = TRUE]
<1>1. l \in 1..Len(links) /\ links[l] \in Link /\ links \in Seq(Link)
  BY LinkTypes, BaseFacts
<1>2. x \in Link /\ x.accessCount = links[l].accessCount /\ x.deleted = links[l].deleted
  BY <1>1 DEF Link
<1>3. links' = [links EXCEPT ![l] = x]
  BY <1>1, LenProperties DEF TimePasses
<1> HIDE DEF x
<1>4. QED
  BY <1>1, <1>2, <1>3, FlagLinks

LEMMA EndLinks ==
    ASSUME Base, NEW s \in Slots, EndLink(s)
    PROVE  /\ links' \in Seq(Link) /\ Len(links') = Len(links)
           /\ \A k \in 1..Len(links) :
                 /\ links'[k].accessCount = links[k].accessCount
                 /\ links[k].deleted => links'[k].deleted
<1> DEFINE l == call[s].link
           x == [links[l] EXCEPT !.isExpired = TRUE]
           y == [links[l] EXCEPT !.deleted = TRUE]
<1>1. l \in 1..Len(links)
  BY LinkSteps DEF EndLink
<1>2. links[l] \in Link /\ links \in Seq(Link)
  BY <1>1, LinkTypes, BaseFacts
<1>3. /\ x \in Link /\ x.accessCount = links[l].accessCount /\ x.deleted = links[l].deleted
      /\ y \in Link /\ y.accessCount = links[l].accessCount /\ y.deleted
  BY <1>2 DEF Link
<1>4. links' = [links EXCEPT ![l] = x] \/ links' = [links EXCEPT ![l] = y]
  BY <1>1, <1>2, LenProperties DEF EndLink
<1> HIDE DEF x, y, l
<1>5. CASE links' = [links EXCEPT ![l] = x]
  BY <1>1, <1>3, <1>5, FlagLinks
<1>6. CASE links' = [links EXCEPT ![l] = y]
  BY <1>1, <1>3, <1>6, FlagLinks
<1>7. QED
  BY <1>4, <1>5, <1>6

LEMMA AddOne ==
    ASSUME NEW S, NEW f \in [S -> Nat], NEW l \in S
    PROVE  LET g == [f EXCEPT ![l] = f[l] + 1] IN
           /\ g \in [S -> Nat] /\ g[l] = f[l] + 1 /\ f[l] \in Nat
           /\ \A k \in S : k # l => g[k] = f[k]
OBVIOUS

LEMMA ServePast ==
    ASSUME Base, NEW s \in Slots, Serve(s)
    PROVE  LET l == call[s].link IN
           /\ past' \in Memory
           /\ past'.torn = past.torn /\ past'.left = past.left
           /\ past'.issued = past.issued /\ past'.overlapped = past.overlapped
           /\ \A k \in 1..MaxLinks : k # l =>
                 past'.served[k] = past.served[k] /\ past'.unserved[k] = past.unserved[k]
           /\ past'.served[l] + past'.unserved[l] = past.served[l] + past.unserved[l] + 1
<1> DEFINE l == call[s].link
           g == [past.served EXCEPT ![l] = past.served[l] + 1]
           h == [past.unserved EXCEPT ![l] = past.unserved[l] + 1]
           x == [past EXCEPT !.served = g]
           y == [past EXCEPT !.unserved = h]
<1>1. l \in 1..MaxLinks
  BY LinkSteps DEF Serve
<1>2. past \in Memory /\ past.served \in [1..MaxLinks -> Nat]
      /\ past.unserved \in [1..MaxLinks -> Nat]
  BY DEF Base, Memory
<1>3. past' = [past EXCEPT !.served[l] = @ + 1] \/ past' = [past EXCEPT !.unserved[l] = @ + 1]
  BY DEF Serve
<1>4. past' = x \/ past' = y
  BY <1>3
<1> HIDE DEF l
<1>5. /\ g \in [1..MaxLinks -> Nat] /\ g[l] = past.served[l] + 1
      /\ \A k \in 1..MaxLinks : k # l => g[k] = past.served[k]
  BY <1>1, <1>2, AddOne
<1>6. /\ h \in [1..MaxLinks -> Nat] /\ h[l] = past.unserved[l] + 1
      /\ \A k \in 1..MaxLinks : k # l => h[k] = past.unserved[k]
  BY <1>1, <1>2, AddOne
<1> HIDE DEF g, h
<1>7. /\ x \in Memory /\ x.torn = past.torn /\ x.left = past.left
      /\ x.issued = past.issued /\ x.overlapped = past.overlapped
      /\ x.served = g /\ x.unserved = past.unserved
  BY <1>2, <1>5 DEF Memory
<1>8. /\ y \in Memory /\ y.torn = past.torn /\ y.left = past.left
      /\ y.issued = past.issued /\ y.overlapped = past.overlapped
      /\ y.unserved = h /\ y.served = past.served
  BY <1>2, <1>6 DEF Memory
<1>9. past.served[l] \in Nat /\ past.unserved[l] \in Nat
  BY <1>1, <1>2
<1> HIDE DEF x, y
<1>10. ASSUME past' = x \/ past' = y
       PROVE  /\ past'.served[l] + past'.unserved[l] = past.served[l] + past.unserved[l] + 1
              /\ \A k \in 1..MaxLinks : k # l =>
                    past'.served[k] = past.served[k] /\ past'.unserved[k] = past.unserved[k]
  <2>1. \/ past'.served[l] = past.served[l] + 1 /\ past'.unserved[l] = past.unserved[l]
        \/ past'.served[l] = past.served[l] /\ past'.unserved[l] = past.unserved[l] + 1
    BY <1>5, <1>6, <1>7, <1>8, <1>10
  <2>2. past'.served[l] + past'.unserved[l] = past.served[l] + past.unserved[l] + 1
    BY <1>9, <2>1
  <2>3. QED
    BY <1>5, <1>6, <1>7, <1>8, <1>10, <2>2
<1>11. /\ past' \in Memory /\ past'.torn = past.torn /\ past'.left = past.left
       /\ past'.issued = past.issued /\ past'.overlapped = past.overlapped
  BY <1>4, <1>7, <1>8
<1>12. QED
  BY <1>4, <1>10, <1>11 DEF l

LEMMA FailPast ==
    ASSUME Base, NEW s \in Slots, CallFails(s)
    PROVE  LET l == call[s].link IN
           /\ past' \in Memory /\ past'.left = past.left
           /\ past'.issued = past.issued /\ past'.overlapped = past.overlapped
           /\ past.torn \subseteq past'.torn
           /\ Doing(s, "set") => call[s].doc \in past'.torn
           /\ past'.served = past.served
           /\ \A k \in 1..MaxLinks : k # l => past'.unserved[k] = past.unserved[k]
           /\ Doing(s, "serve") => past'.unserved[l] = past.unserved[l] + 1
           /\ ~Doing(s, "serve") => past'.unserved = past.unserved
<1> DEFINE l == call[s].link
           t == past.torn \cup (IF Doing(s, "set") THEN {call[s].doc} ELSE {})
           g == [past.unserved EXCEPT ![l] = past.unserved[l] + 1]
           u == IF Doing(s, "serve") THEN g ELSE past.unserved
<1>1. past \in Memory /\ past.unserved \in [1..MaxLinks -> Nat] /\ past.torn \subseteq Docs
  BY DEF Base, Memory
<1>2. t \subseteq Docs
  BY <1>1, Doer
<1>3. Doing(s, "serve") => l \in 1..MaxLinks
  BY LinkSteps
<1>4. /\ u \in [1..MaxLinks -> Nat] /\ \A k \in 1..MaxLinks : k # l => u[k] = past.unserved[k]
      /\ Doing(s, "serve") => u[l] = past.unserved[l] + 1
      /\ ~Doing(s, "serve") => u = past.unserved
  <2>1. CASE Doing(s, "serve")
    <3>1. u = g /\ l \in 1..MaxLinks
      BY <1>3, <2>1
    <3> HIDE DEF u, l
    <3>2. /\ g \in [1..MaxLinks -> Nat] /\ g[l] = past.unserved[l] + 1
          /\ \A k \in 1..MaxLinks : k # l => g[k] = past.unserved[k]
      BY <1>1, <3>1, AddOne
    <3>3. QED
      BY <2>1, <3>1, <3>2
  <2>2. CASE ~Doing(s, "serve")
    BY <1>1, <2>2
  <2>3. QED
    BY <2>1, <2>2
<1>5. past.torn \subseteq t /\ (Doing(s, "set") => call[s].doc \in t)
  OBVIOUS
<1>6. past' = [past EXCEPT !.torn = t, !.unserved = u]
  BY DEF CallFails
<1> HIDE DEF t, u
<1>7. /\ past' \in Memory /\ past'.left = past.left /\ past'.issued = past.issued
      /\ past'.overlapped = past.overlapped /\ past'.torn = t /\ past'.served = past.served
      /\ past'.unserved = u
  BY <1>1, <1>2, <1>4, <1>6 DEF Memory
<1>8. QED
  BY <1>4, <1>5, <1>7

(* A step of the system is the start of a call, a step of one, a deletion  *)
(* that is done or time that passes.                                       *)
LEMMA NextCases ==
    ASSUME Base, Next
    PROVE  \/ \E s \in Slots : \E c : Starts(s, c)
           \/ \E s \in Slots :
                 \/ Insert(s) \/ Update(s) \/ Exists(s) \/ UploadFile(s) \/ ReplaceFile(s)
                 \/ SetFile(s) \/ SetStatus(s) \/ DocumentGone(s) \/ Delete(s)
                 \/ Share(s) \/ UpdateAccessCount(s) \/ Serve(s) \/ EndLink(s)
                 \/ CallFails(s)
           \/ \E f \in erasing : Erase(f)
           \/ \E l \in DOMAIN links : TimePasses(l)
<1>1. ASSUME NEW s \in Slots,
             \/ \E d \in Docs :
                   \/ CreateTradeDocument(s, d) \/ CreateTradeDocumentFromFile(s, d)
                   \/ UploadTradeDocumentFile(s, d) \/ UpdateTradeDocument(s, d)
                   \/ DeleteTradeDocument(s, d) \/ IssueTradeDocument(s, d)
                   \/ CreateShareLink(s, d)
             \/ \E l \in DOMAIN links :
                   \/ \E email \in Address \cup {NoAddress}, v \in {"original", "issued"} :
                         AccessShareLink(s, l, email, v)
                   \/ AccessOverLink(s, l) \/ DeleteShareLink(s, l)
      PROVE  \E c : Starts(s, c)
  BY <1>1, RequestStarts
<1>2. QED
  BY <1>1 DEF Next

LEMMA StartPast ==
    ASSUME Base, NEW s \in Slots, NEW c, Starts(s, c)
    PROVE  /\ past' \in Memory /\ past'.served = past.served /\ past'.unserved = past.unserved
           /\ past'.torn = past.torn /\ past'.left = past.left /\ past'.issued = past.issued
           /\ past.overlapped \subseteq past'.overlapped
           /\ (\E r \in Slots : Busy(r) /\ call[r].doc = c.doc) => c.doc \in past'.overlapped
           /\ begun' \in 0..MaxCalls /\ c \in CallState /\ c.doc \in Docs
<1>1. past \in Memory /\ begun \in 0..MaxCalls /\ MaxCalls \in Nat
  BY BaseFacts
<1>2. c.doc \in Docs /\ c \in CallState
  BY Planned DEF Starts
<1>3. begun' \in 0..MaxCalls
  BY <1>1 DEF Starts
<1> DEFINE x == [past EXCEPT !.overlapped = past.overlapped \cup {c.doc}]
<1>4. /\ x \in Memory /\ x.served = past.served /\ x.unserved = past.unserved
      /\ x.torn = past.torn /\ x.left = past.left /\ x.issued = past.issued
      /\ x.overlapped = past.overlapped \cup {c.doc}
  BY <1>1, <1>2 DEF Memory
<1>5. past' = IF \E r \in Slots : Busy(r) /\ call[r].doc = c.doc THEN x ELSE past
  BY DEF Starts, Busy
<1> HIDE DEF x
<1>6. CASE \E r \in Slots : Busy(r) /\ call[r].doc = c.doc
  BY <1>2, <1>3, <1>4, <1>5, <1>6
<1>7. CASE ~\E r \in Slots : Busy(r) /\ call[r].doc = c.doc
  BY <1>1, <1>2, <1>3, <1>5, <1>7
<1>8. QED
  BY <1>6, <1>7

LEMMA SetStatusPast ==
    ASSUME Base, NEW s \in Slots, SetStatus(s)
    PROVE  /\ past' \in Memory /\ past'.served = past.served /\ past'.unserved = past.unserved
           /\ past'.torn = past.torn /\ past'.left = past.left
           /\ past'.overlapped = past.overlapped
           /\ past'.issued = IF Doing(s, "issued") THEN past.issued \cup {call[s].doc}
                             ELSE past.issued
<1>1. past \in Memory /\ call[s].doc \in Docs
  BY BaseFacts, Doer DEF SetStatus
<1>2. CASE Doing(s, "issued")
  <2>1. past' = [past EXCEPT !.issued = past.issued \cup {call[s].doc}]
    BY <1>2 DEF SetStatus
  <2>2. QED
    BY <1>1, <1>2, <2>1 DEF Memory
<1>3. CASE ~Doing(s, "issued")
  BY <1>1, <1>3 DEF SetStatus
<1>4. QED
  BY <1>2, <1>3

LEMMA DeletePast ==
    ASSUME Base, NEW s \in Slots, Delete(s)
    PROVE  /\ past' \in Memory /\ past'.served = past.served /\ past'.unserved = past.unserved
           /\ past'.torn = past.torn /\ past'.issued = past.issued
           /\ past'.overlapped = past.overlapped
           /\ past'.left = past.left \cup {doc[call[s].doc].file[v] : v \in Variant}
<1>1. past \in Memory /\ call[s].doc \in Docs /\ doc \in [Docs -> Document]
  BY BaseFacts, Doer DEF Delete
<1> DEFINE t == {doc[call[s].doc].file[v] : v \in Variant}
<1>2. t \subseteq File
  BY <1>1, RecordFields
<1>3. past' = [past EXCEPT !.left = past.left \cup t]
  BY DEF Delete
<1> HIDE DEF t
<1>4. /\ past' \in Memory /\ past'.served = past.served /\ past'.unserved = past.unserved
      /\ past'.torn = past.torn /\ past'.issued = past.issued
      /\ past'.overlapped = past.overlapped /\ past'.left = past.left \cup t
  BY <1>1, <1>2, <1>3 DEF Memory
<1>5. QED
  BY <1>4 DEF t

LEMMA ReplaceErasing ==
    ASSUME Base, NEW s \in Slots, ReplaceFile(s)
    PROVE  /\ erasing' \subseteq File \ {0} /\ VariantOf(s) \in Variant /\ call[s].doc \in Docs
           /\ LET f == doc[call[s].doc].file[VariantOf(s)] IN
              /\ f \in File
              /\ Present(call[s].doc) /\ f # 0 => erasing' = erasing \cup {f}
              /\ ~(Present(call[s].doc) /\ f # 0) => erasing' = erasing
<1>1. /\ call[s].doc \in Docs /\ CallSound(call[s]) /\ call[s].op # "none"
      /\ doc \in [Docs -> Document] /\ erasing \subseteq File \ {0}
  BY BaseFacts, Doer DEF ReplaceFile, Busy
<1>2. VariantOf(s) \in Variant
  BY <1>1, Planned DEF VariantOf, Steps
<1>3. doc[call[s].doc].file[VariantOf(s)] \in File
  BY <1>1, <1>2, RecordFields
<1>4. QED
  BY <1>1, <1>2, <1>3 DEF ReplaceFile

LEMMA BaseStep ==
    ASSUME Base, StoresBounded, LinksSound, [Next]_vars
    PROVE  Base'
<1>0. /\ doc \in [Docs -> Document] /\ disk \subseteq File \ {0}
      /\ erasing \subseteq File \ {0} /\ links \in Seq(Link) /\ Len(links) <= MaxLinks
      /\ Len(links) <= Len(links) /\ begun \in 0..MaxCalls /\ stored \in File
      /\ faults \in 0..MaxFaults /\ past \in Memory /\ Len(links) \in Nat
  BY BaseFacts, LenProperties
<1>1. ASSUME NEW s \in Slots, NEW c, Starts(s, c) PROVE Base'
  <2>1. Touches(s) /\ past' \in Memory /\ begun' \in 0..MaxCalls
    BY <1>1, StartPast DEF Touches
  <2>2. QED
    BY <1>0, <1>1, <2>1, BaseKept DEF Starts
<1>2. ASSUME NEW s \in Slots, Insert(s) \/ Update(s) PROVE Base'
  <2>1. Touches(s) /\ UNCHANGED <<setting, begun, faults>>
    BY <1>2, StepActs, MovesTouch
  <2>2. doc' \in [Docs -> Document]
    BY <1>2, InsertDocs, UpdateDocs
  <2>3. UNCHANGED <<disk, erasing, links, stored, past>>
    BY <1>2 DEF Insert, Update
  <2>4. QED
    BY <1>0, <2>1, <2>2, <2>3, BaseKept
<1>3. ASSUME NEW s \in Slots, Exists(s) \/ DocumentGone(s) PROVE Base'
  <2>1. Touches(s) /\ UNCHANGED <<setting, begun, faults>>
    BY <1>3, ExistsActs, GoneActs, MovesTouch DEF Touches
  <2>2. UNCHANGED <<doc, disk, erasing, links, stored, past>>
    BY <1>3 DEF Exists, DocumentGone
  <2>3. QED
    BY <1>0, <2>1, <2>2, BaseKept
<1>4. ASSUME NEW s \in Slots, UploadFile(s) PROVE Base'
  <2>1. Touches(s) /\ UNCHANGED <<setting, begun, faults>> /\ stored + 1 \in File
    BY <1>4, UploadActs, MovesTouch
  <2>2. UNCHANGED <<doc, erasing, links, past>> /\ stored' = stored + 1
        /\ disk' = disk \cup {stored + 1}
    BY <1>4 DEF UploadFile
  <2>3. stored + 1 # 0
    BY BaseFacts
  <2>4. stored' \in File /\ disk' \subseteq File \ {0}
    BY <1>0, <2>1, <2>2, <2>3
  <2>5. QED
    BY <1>0, <2>1, <2>2, <2>4, BaseKept
<1>5. ASSUME NEW s \in Slots, ReplaceFile(s) PROVE Base'
  <2>1. Touches(s) /\ UNCHANGED <<setting, begun, faults>>
    BY <1>5, StepActs, MovesTouch
  <2>2. UNCHANGED <<doc, disk, links, stored, past>> /\ erasing' \subseteq File \ {0}
    BY <1>5, ReplaceErasing DEF ReplaceFile
  <2>3. QED
    BY <1>0, <2>1, <2>2, BaseKept
<1>6. ASSUME NEW s \in Slots, SetFile(s) PROVE Base'
  <2>1. Touches(s) /\ UNCHANGED <<setting, begun, faults>>
    BY <1>6, SetFileActs, MovesTouch
  <2>2. UNCHANGED <<disk, erasing, links, stored, past>> /\ doc' \in [Docs -> Document]
    BY <1>6, SetFileDocs DEF SetFile
  <2>3. QED
    BY <1>0, <2>1, <2>2, BaseKept
<1>7. ASSUME NEW s \in Slots, SetStatus(s) \/ Delete(s) PROVE Base'
  <2>1. Touches(s) /\ UNCHANGED <<setting, begun, faults>>
    BY <1>7, StepActs, MovesTouch
  <2>2. doc' \in [Docs -> Document] /\ past' \in Memory
    BY <1>7, SetStatusDocs, DeleteDocs, SetStatusPast, DeletePast
  <2>3. UNCHANGED <<disk, erasing, links, stored>>
    BY <1>7 DEF SetStatus, Delete
  <2>4. QED
    BY <1>0, <2>1, <2>2, <2>3, BaseKept
<1>8. ASSUME NEW s \in Slots, Share(s) \/ UpdateAccessCount(s) \/ EndLink(s) PROVE Base'
  <2>1. Touches(s) /\ UNCHANGED <<setting, begun, faults>>
    BY <1>8, StepActs, MovesTouch
  <2>2. links' \in Seq(Link) /\ (Len(links') = Len(links) \/ Len(links') = Len(links) + 1)
        /\ Len(links') <= MaxLinks
    <3>1. CASE Share(s)
      BY <3>1, ShareLinks
    <3>2. CASE UpdateAccessCount(s)
      BY <1>0, <3>2, CountLinks
    <3>3. CASE EndLink(s)
      BY <1>0, <3>3, EndLinks
    <3>4. QED
      BY <1>8, <3>1, <3>2, <3>3
  <2>3. UNCHANGED <<doc, disk, erasing, stored, past>>
    BY <1>8 DEF Share, UpdateAccessCount, EndLink
  <2>4. Len(links) <= Len(links')
    BY <1>0, <2>2
  <2>5. QED
    BY <1>0, <2>1, <2>2, <2>3, <2>4, BaseKept
<1>9. ASSUME NEW s \in Slots, Serve(s) PROVE Base'
  <2>1. Touches(s) /\ UNCHANGED <<setting, begun, faults>>
    BY <1>9, StepActs, MovesTouch
  <2>2. past' \in Memory
    BY <1>9, ServePast
  <2>3. UNCHANGED <<doc, disk, erasing, links, stored>>
    BY <1>9 DEF Serve
  <2>4. QED
    BY <1>0, <2>1, <2>2, <2>3, BaseKept
<1>10. ASSUME NEW s \in Slots, CallFails(s) PROVE Base'
  <2>1. Touches(s) /\ UNCHANGED <<setting, begun>>
    BY <1>10, FailActs DEF Touches
  <2>2. past' \in Memory
    BY <1>10, FailPast
  <2>3. UNCHANGED <<doc, disk, erasing, links, stored>>
    BY <1>10 DEF CallFails
  <2>4. faults' \in 0..MaxFaults
    BY <1>10, BaseFacts DEF CallFails
  <2>5. QED
    BY <1>0, <2>1, <2>2, <2>3, <2>4, BaseKept
<1>11. ASSUME NEW f \in erasing, Erase(f) PROVE Base'
  <2>1. UNCHANGED <<setting, doc, links, call, begun, stored, faults, past>>
    BY <1>11 DEF Erase
  <2>2. erasing' \subseteq File \ {0} /\ disk' \subseteq File \ {0}
    BY <1>0, <1>11 DEF Erase
  <2>3. QED
    BY <1>0, <2>1, <2>2 DEF Base
<1>12. ASSUME NEW l \in DOMAIN links, TimePasses(l) PROVE Base'
  <2>1. UNCHANGED <<setting, doc, disk, erasing, call, begun, stored, faults, past>>
    BY <1>12 DEF TimePasses
  <2>2. links' \in Seq(Link) /\ Len(links') = Len(links)
    BY <1>12, TimeLinks
  <2>3. QED
    BY <1>0, <2>1, <2>2 DEF Base
<1>13. CASE UNCHANGED vars
  BY <1>13 DEF vars, Base
<1>14. QED
  BY <1>1, <1>2, <1>3, <1>4, <1>5, <1>6, <1>7, <1>8, <1>9, <1>10, <1>11, <1>12, <1>13,
     NextCases
-----------------------------------------------------------------------------
(* No more is stored than the calls that were begun can store.             *)
LEMMA SlotSets ==
    ASSUME NEW S, S \subseteq Slots
    PROVE  /\ IsFiniteSet(S) /\ Cardinality(S) \in Nat
           /\ \A R \in SUBSET S : Cardinality(R) \in Nat /\ Cardinality(R) <= Cardinality(S)
           /\ \A s \in Slots : /\ Cardinality(S \cup {s}) \in Nat
                               /\ Cardinality(S \cup {s}) <= Cardinality(S) + 1
                               /\ s \notin S => Cardinality(S \cup {s}) = Cardinality(S) + 1
                               /\ s \in S => Cardinality(S \ {s}) = Cardinality(S) - 1
                               /\ s \in S => Cardinality(S) # 0
<1>1. IsFiniteSet(S) /\ Cardinality(S) \in Nat
  BY FS_Subset, FS_CardinalityType, DocumentsAssumption
<1>2. ASSUME NEW R \in SUBSET S
      PROVE  Cardinality(R) \in Nat /\ Cardinality(R) <= Cardinality(S)
  BY <1>1, FS_Subset, FS_CardinalityType
<1>3. ASSUME NEW s \in Slots
      PROVE  /\ Cardinality(S \cup {s}) \in Nat
             /\ Cardinality(S \cup {s}) <= Cardinality(S) + 1
             /\ s \notin S => Cardinality(S \cup {s}) = Cardinality(S) + 1
             /\ s \in S => Cardinality(S \ {s}) = Cardinality(S) - 1
             /\ s \in S => Cardinality(S) # 0
  <2>1. Cardinality(S \cup {s}) = IF s \in S THEN Cardinality(S) ELSE Cardinality(S) + 1
    BY <1>1, FS_AddElement
  <2>2. Cardinality(S \ {s}) = IF s \in S THEN Cardinality(S) - 1 ELSE Cardinality(S)
    BY <1>1, FS_RemoveElement
  <2>3. s \in S => Cardinality(S) # 0
    BY <1>1, FS_EmptySet
  <2>4. QED
    BY <1>1, <2>1, <2>2, <2>3
<1>4. QED
  BY <1>1, <1>2, <1>3

(* A call that goes on has no more to store than before, and one that has  *)
(* just stored a file has one less.                                        *)
LEMMA StoresGoOn ==
    ASSUME Base, NEW s \in Slots, (\E c : Goes(s, c)) \/ Leaves(s)
    PROVE  /\ One' \subseteq One /\ Two' \subseteq Two
           /\ Doing(s, "store") =>
                 \/ s \in One /\ s \notin One'
                 \/ s \in Two /\ s \notin Two'
<1>1. CallSound(call[s]) /\ call[s].op # "none"
  BY Doer DEF Goes, Leaves, Busy
<1> DEFINE n == Len(call[s].todo)
<1>2. n \in 1..12 /\ Fits(call[s].op, Head(call[s].todo), n)
  BY <1>1, Planned
<1>3. PICK c : /\ call' = [call EXCEPT ![s] = c]
               /\ \/ c.op = call[s].op /\ Len(c.todo) = n - 1
                  \/ c = Idle
  BY DEF Goes, Leaves
<1>4. call'[s] = c /\ \A r \in Slots : r # s => call'[r] = call[r]
  BY <1>3, Others
<1>5. Idle.op = "none"
  BY IdleCall
<1>6. (StoresOne(c) => StoresOne(call[s])) /\ (StoresTwo(c) => StoresTwo(call[s]))
  <2>1. CASE c = Idle
    BY <1>5, <2>1 DEF StoresOne, StoresTwo
  <2>2. CASE c.op = call[s].op /\ Len(c.todo) = n - 1
    <3> DEFINE m == Len(c.todo)
    <3>1. m = n - 1 /\ n \in 1..12
      BY <1>2, <2>2
    <3> HIDE DEF m, n
    <3>2. (m >= 4 => n >= 4) /\ (m >= 5 => n >= 5) /\ (m >= 10 => n >= 10)
      BY <3>1
    <3>3. QED
      BY <2>2, <3>2 DEF StoresOne, StoresTwo, m, n
  <2>3. QED
    BY <1>3, <2>1, <2>2
<1>7. One' \subseteq One
  BY <1>4, <1>6 DEF One
<1>8. Two' \subseteq Two
  BY <1>4, <1>6 DEF Two
<1>9. ASSUME Doing(s, "store")
      PROVE  (s \in One /\ s \notin One') \/ (s \in Two /\ s \notin Two')
  <2>1. \/ call[s].op \in {"create_from_file", "upload"} /\ n = 4
        \/ call[s].op = "issue" /\ (n = 5 \/ n = 10)
    BY <1>2, <1>9 DEF Fits, Doing
  <2>2. c = Idle => ~StoresOne(c) /\ ~StoresTwo(c)
    BY <1>5 DEF StoresOne, StoresTwo
  <2>3. (s \in One <=> StoresOne(call[s])) /\ (s \in Two <=> StoresTwo(call[s]))
    BY DEF One, Two
  <2>4. (s \in One' <=> StoresOne(c)) /\ (s \in Two' <=> StoresTwo(c))
    BY <1>4 DEF One, Two
  <2> DEFINE m == Len(c.todo)
  <2> HIDE DEF m, n
  <2>5. /\ StoresOne(call[s]) <=> \/ call[s].op \in {"upload", "create_from_file"} /\ n >= 4
                                  \/ call[s].op = "issue" /\ n >= 5
        /\ StoresTwo(call[s]) <=> call[s].op = "issue" /\ n >= 10
    BY DEF StoresOne, StoresTwo, n
  <2>6. /\ StoresOne(c) <=> \/ c.op \in {"upload", "create_from_file"} /\ m >= 4
                            \/ c.op = "issue" /\ m >= 5
        /\ StoresTwo(c) <=> c.op = "issue" /\ m >= 10
    BY DEF StoresOne, StoresTwo, m
  <2>7. c = Idle \/ (c.op = call[s].op /\ m = n - 1)
    BY <1>3 DEF m, n
  <2>8. QED
    BY <2>1, <2>2, <2>3, <2>4, <2>5, <2>6, <2>7
<1>10. QED
  BY <1>7, <1>8, <1>9

LEMMA StoresStep ==
    ASSUME Base, StoresBounded, [Next]_vars
    PROVE  StoresBounded'
<1>0. /\ One \subseteq Slots /\ Two \subseteq Slots /\ stored \in Nat /\ begun \in Nat
      /\ One' \subseteq Slots /\ Two' \subseteq Slots
  BY BaseFacts DEF One, Two
<1>a. Cardinality(One) \in Nat /\ Cardinality(Two) \in Nat
  BY <1>0, SlotSets
<1>b. stored + Cardinality(One) + Cardinality(Two) <= 1 + 2 * begun
  BY DEF StoresBounded
<1>1. ASSUME NEW s \in Slots, NEW c, Starts(s, c) PROVE StoresBounded'
  <2>1. stored' = stored /\ begun' = begun + 1 /\ call' = [call EXCEPT ![s] = c]
    BY <1>1 DEF Starts
  <2>2. \A r \in Slots : r # s => call'[r] = call[r]
    BY <2>1, Others
  <2>3. One' \subseteq One \cup {s} /\ Two' \subseteq Two \cup {s}
    BY <2>2 DEF One, Two
  <2>4. One \cup {s} \subseteq Slots /\ Two \cup {s} \subseteq Slots
    BY <1>0
  <2>5. /\ Cardinality(One') \in Nat /\ Cardinality(Two') \in Nat
        /\ Cardinality(One') <= Cardinality(One \cup {s})
        /\ Cardinality(Two') <= Cardinality(Two \cup {s})
    BY <2>3, <2>4, SlotSets
  <2>6. /\ Cardinality(One \cup {s}) \in Nat /\ Cardinality(Two \cup {s}) \in Nat
        /\ Cardinality(One \cup {s}) <= Cardinality(One) + 1
        /\ Cardinality(Two \cup {s}) <= Cardinality(Two) + 1
    BY <1>0, SlotSets
  <2>7. stored' + Cardinality(One') + Cardinality(Two') <= 1 + 2 * begun'
    BY <1>0, <1>a, <1>b, <2>1, <2>5, <2>6
  <2>8. QED
    BY <2>7 DEF StoresBounded
<1>2. ASSUME NEW s \in Slots, (\E c : Goes(s, c)) \/ Leaves(s), stored' = stored, begun' = begun
      PROVE  StoresBounded'
  <2>1. One' \subseteq One /\ Two' \subseteq Two
    BY <1>2, StoresGoOn
  <2>2. /\ Cardinality(One') \in Nat /\ Cardinality(Two') \in Nat
        /\ Cardinality(One') <= Cardinality(One) /\ Cardinality(Two') <= Cardinality(Two)
    BY <1>0, <2>1, SlotSets
  <2>3. stored' + Cardinality(One') + Cardinality(Two') <= 1 + 2 * begun'
    BY <1>0, <1>a, <1>b, <1>2, <2>2
  <2>4. QED
    BY <2>3 DEF StoresBounded
<1>3. ASSUME NEW s \in Slots, UploadFile(s) PROVE StoresBounded'
  <2>1. (\E c : Goes(s, c)) \/ Leaves(s)
    BY <1>3, UploadActs DEF Moves
  <2>2. begun' = begun /\ stored' = stored + 1 /\ Doing(s, "store")
    BY <1>3, UploadActs DEF UploadFile
  <2>3. /\ One' \subseteq One /\ Two' \subseteq Two
        /\ (s \in One /\ s \notin One') \/ (s \in Two /\ s \notin Two')
    BY <2>1, <2>2, StoresGoOn
  <2>4. /\ Cardinality(One') \in Nat /\ Cardinality(Two') \in Nat
        /\ Cardinality(One') <= Cardinality(One) /\ Cardinality(Two') <= Cardinality(Two)
    BY <1>0, <2>3, SlotSets
  <2>5. CASE s \in One /\ s \notin One'
    <3>1. One' \subseteq One \ {s} /\ One \ {s} \subseteq Slots
      BY <1>0, <2>3, <2>5
    <3>2. /\ Cardinality(One') <= Cardinality(One \ {s})
          /\ Cardinality(One \ {s}) = Cardinality(One) - 1
      BY <1>0, <2>5, <3>1, SlotSets
    <3>3. stored' + Cardinality(One') + Cardinality(Two') <= 1 + 2 * begun'
      BY <1>0, <1>a, <1>b, <2>2, <2>4, <3>2
    <3>4. QED
      BY <3>3 DEF StoresBounded
  <2>6. CASE s \in Two /\ s \notin Two'
    <3>1. Two' \subseteq Two \ {s} /\ Two \ {s} \subseteq Slots
      BY <1>0, <2>3, <2>6
    <3>2. /\ Cardinality(Two') <= Cardinality(Two \ {s})
          /\ Cardinality(Two \ {s}) = Cardinality(Two) - 1
      BY <1>0, <2>6, <3>1, SlotSets
    <3>3. stored' + Cardinality(One') + Cardinality(Two') <= 1 + 2 * begun'
      BY <1>0, <1>a, <1>b, <2>2, <2>4, <3>2
    <3>4. QED
      BY <3>3 DEF StoresBounded
  <2>7. QED
    BY <2>3, <2>5, <2>6
<1>4. ASSUME NEW s \in Slots,
             \/ Insert(s) \/ Update(s) \/ ReplaceFile(s) \/ SetStatus(s) \/ Delete(s)
             \/ Share(s) \/ UpdateAccessCount(s) \/ Serve(s) \/ EndLink(s)
      PROVE  StoresBounded'
  <2>1. Moves(s, call[s].file, call[s].status) /\ begun' = begun
    BY <1>4, StepActs
  <2>2. stored' = stored
    BY <1>4 DEF Insert, Update, ReplaceFile, SetStatus, Delete, Share, UpdateAccessCount,
                Serve, EndLink
  <2>3. QED
    BY <1>2, <2>1, <2>2 DEF Moves
<1>5. ASSUME NEW s \in Slots, Exists(s) \/ DocumentGone(s) \/ SetFile(s) \/ CallFails(s)
      PROVE  StoresBounded'
  <2>1. ((\E c : Goes(s, c)) \/ Leaves(s)) /\ begun' = begun
    BY <1>5, ExistsActs, GoneActs, SetFileActs, FailActs DEF Moves
  <2>2. stored' = stored
    BY <1>5 DEF Exists, DocumentGone, SetFile, CallFails
  <2>3. QED
    BY <1>2, <2>1, <2>2
<1>6. ASSUME UNCHANGED <<call, begun, stored>> PROVE StoresBounded'
  BY <1>6 DEF StoresBounded, One, Two
<1>7. QED
  BY <1>1, <1>3, <1>4, <1>5, <1>6, NextCases DEF Erase, TimePasses, vars
-----------------------------------------------------------------------------
(* Every access is counted, and accounted for.                             *)

(* Who counts or serves after a call has gone on, left or started.         *)
LEMMA CountersGoOn ==
    ASSUME Base, NEW s \in Slots, (\E c : Goes(s, c)) \/ Leaves(s), NEW l \in Nat
    PROVE  /\ Counting(l)' \subseteq Counting(l)
           /\ Doing(s, "count") /\ call[s].link = l => s \notin Counting(l)'
           /\ ~(Doing(s, "count") \/ Doing(s, "serve")) => Serving(l)' = Serving(l)
           /\ call[s].link # l => Serving(l)' = Serving(l)
           /\ Doing(s, "serve") => Serving(l)' = Serving(l) \ {s}
           /\ Doing(s, "count") /\ ~Leaves(s) /\ call[s].link = l =>
                 Serving(l)' = Serving(l) \cup {s} /\ s \notin Serving(l)
           /\ Leaves(s) => Serving(l)' = Serving(l) \ {s}
<1>1. CallSound(call[s]) /\ call[s].op # "none"
  BY Doer DEF Goes, Leaves, Busy
<1>2. call[s].todo # <<>> /\ Fits(call[s].op, Head(call[s].todo), Len(call[s].todo))
  BY <1>1, Planned
<1>3. Doing(s, "count") => ~Doing(s, "serve")
  BY DEF Doing
<1>4. CASE Leaves(s)
  <2>1. call'[s] = Idle /\ \A r \in Slots : r # s => call'[r] = call[r]
    BY <1>4, Others DEF Leaves
  <2>2. \A do : ~Doing(s, do)'
    BY <2>1, IdleCall DEF Doing
  <2>3. Counting(l)' = Counting(l) \ {s}
    BY <2>1, <2>2 DEF Counting, Doing
  <2>4. Serving(l)' = Serving(l) \ {s}
    BY <2>1, <2>2 DEF Serving, Doing
  <2>5. ~Doing(s, "serve") \/ call[s].link # l => s \notin Serving(l)
    BY DEF Serving
  <2>6. QED
    BY <1>3, <1>4, <2>3, <2>4, <2>5
<1>5. ASSUME NEW c, Goes(s, c), ~Leaves(s)
      PROVE  /\ Counting(l)' \subseteq Counting(l)
             /\ Doing(s, "count") /\ call[s].link = l => s \notin Counting(l)'
             /\ ~(Doing(s, "count") \/ Doing(s, "serve")) => Serving(l)' = Serving(l)
             /\ call[s].link # l => Serving(l)' = Serving(l)
             /\ Doing(s, "serve") => Serving(l)' = Serving(l) \ {s}
             /\ Doing(s, "count") /\ ~Leaves(s) /\ call[s].link = l =>
                   Serving(l)' = Serving(l) \cup {s} /\ s \notin Serving(l)
  <2>1. call'[s] = c /\ \A r \in Slots : r # s => call'[r] = call[r]
    BY <1>5, Others DEF Goes
  <2>2. /\ c.link = call[s].link /\ c.todo # <<>> /\ Len(call[s].todo) # 1
        /\ Follows(c.op, Head(call[s].todo), Head(c.todo))
    BY <1>5 DEF Goes
  <2>3. ~Doing(s, "count")' /\ (Doing(s, "serve")' <=> Doing(s, "count"))
    BY <1>2, <2>1, <2>2 DEF Doing, Follows
  <2>4. ~Doing(s, "serve")
    BY <1>2, <2>2 DEF Doing, Fits
  <2>5. Counting(l)' = Counting(l) \ {s}
    BY <2>1, <2>3 DEF Counting, Doing
  <2>6. \A r \in Slots : r # s => (r \in Serving(l)' <=> r \in Serving(l))
    BY <2>1 DEF Serving, Doing
  <2>7. s \notin Serving(l)
    BY <2>4 DEF Serving
  <2>8. s \in Serving(l)' <=> call[s].link = l /\ Doing(s, "count")
    BY <2>1, <2>2, <2>3 DEF Serving
  <2>9. Serving(l) \subseteq Slots /\ Serving(l)' \subseteq Slots
    BY DEF Serving
  <2>10. QED
    BY <2>4, <2>5, <2>6, <2>7, <2>8, <2>9
<1>6. QED
  BY <1>4, <1>5

LEMMA CountersStart ==
    ASSUME Base, NEW s \in Slots, NEW c, Starts(s, c), NEW l \in Nat
    PROVE  Counting(l)' \subseteq Counting(l) \cup {s} /\ Serving(l)' = Serving(l)
<1>1. call'[s] = c /\ \A r \in Slots : r # s => call'[r] = call[r]
  BY Others DEF Starts
<1>2. call[s].todo = <<>> /\ Head(c.todo).do # "serve"
  BY IdleCall DEF Starts, Opens
<1>3. ~Doing(s, "serve") /\ ~Doing(s, "serve")'
  BY <1>1, <1>2 DEF Doing
<1>4. Counting(l)' \subseteq Counting(l) \cup {s}
  BY <1>1 DEF Counting, Doing
<1>5. Serving(l)' = Serving(l)
  BY <1>1, <1>3 DEF Serving, Doing
<1>6. QED
  BY <1>4, <1>5

LEMMA LinkNumbers ==
    ASSUME Base, NEW l \in 1..Len(links)
    PROVE  /\ links[l].accessCount \in Nat /\ past.served[l] \in Nat /\ past.unserved[l] \in Nat
           /\ l \in 1..MaxLinks /\ l \in Nat /\ begun \in Nat
           /\ Counting(l) \subseteq Slots /\ Serving(l) \subseteq Slots
           /\ Counting(l)' \subseteq Slots /\ Serving(l)' \subseteq Slots
           /\ Cardinality(Counting(l)) \in Nat /\ Cardinality(Serving(l)) \in Nat
<1>1. links[l] \in Link /\ past \in Memory /\ begun \in Nat /\ MaxCalls \in Nat
  BY LinkTypes, BaseFacts
<1>2. l \in 1..MaxLinks /\ l \in Nat
  BY BaseFacts, LenProperties
<1>3. links[l].accessCount \in 0..MaxCalls
  BY <1>1 DEF Link
<1>4. past.served[l] \in Nat /\ past.unserved[l] \in Nat
  BY <1>1, <1>2 DEF Memory
<1>5. /\ Counting(l) \subseteq Slots /\ Serving(l) \subseteq Slots
      /\ Counting(l)' \subseteq Slots /\ Serving(l)' \subseteq Slots
  BY DEF Counting, Serving
<1>6. Cardinality(Counting(l)) \in Nat /\ Cardinality(Serving(l)) \in Nat
  BY <1>5, SlotSets
<1>7. QED
  BY <1>1, <1>2, <1>3, <1>4, <1>5, <1>6

(* A link that a step counts no access of.                                 *)
LEMMA LinkKept ==
    ASSUME Base, NEW l \in 1..Len(links), CountSound(l), Accounted(l),
           Counting(l)' \subseteq Counting(l), Serving(l)' = Serving(l), begun' = begun,
           links'[l].accessCount = links[l].accessCount,
           links[l].deleted => links'[l].deleted,
           past'.served[l] = past.served[l], past'.unserved[l] = past.unserved[l]
    PROVE  CountSound(l)' /\ Accounted(l)'
<1>1. /\ Cardinality(Counting(l)') \in Nat
      /\ Cardinality(Counting(l)') <= Cardinality(Counting(l))
  BY LinkNumbers, SlotSets
<1>2. links[l].accessCount + Cardinality(Counting(l)) <= begun
  BY DEF CountSound
<1>3. links'[l].accessCount + Cardinality(Counting(l)') <= begun'
  BY <1>1, <1>2, LinkNumbers
<1>4. Accounted(l)'
  BY DEF Accounted, Found
<1>5. QED
  BY <1>3, <1>4 DEF CountSound

LEMMA LinksStep ==
    ASSUME Base, StoresBounded, LinksSound, [Next]_vars
    PROVE  LinksSound'
<1>0. /\ Len(links) \in 0..MaxLinks /\ DOMAIN links = 1..Len(links) /\ links \in Seq(Link)
      /\ \A l \in 1..Len(links) : CountSound(l) /\ Accounted(l)
      /\ \A l \in 1..MaxLinks : l > Len(links) => past.served[l] = 0 /\ past.unserved[l] = 0
      /\ MaxLinks \in Nat
  BY LinkTypes, BaseFacts DEF LinksSound
<1>a. \A l \in 1..Len(links) : l \in Nat /\ l \in 1..MaxLinks
  BY LinkNumbers
(* It suffices to look at the links, where their number is the same.       *)
<1>b. ASSUME links' \in Seq(Link), Len(links') = Len(links),
             \A l \in 1..Len(links) : CountSound(l)' /\ Accounted(l)',
             \A l \in 1..MaxLinks : l > Len(links) =>
                past'.served[l] = past.served[l] /\ past'.unserved[l] = past.unserved[l]
      PROVE  LinksSound'
  <2>1. DOMAIN links' = 1..Len(links)
    BY <1>b, LenProperties
  <2>2. QED
    BY <1>0, <1>b, <2>1 DEF LinksSound
<1>1. ASSUME NEW s \in Slots, NEW c, Starts(s, c) PROVE LinksSound'
  <2>1. links' = links /\ begun' = begun + 1 /\ begun \in Nat
    BY <1>1, BaseFacts DEF Starts
  <2>2. past'.served = past.served /\ past'.unserved = past.unserved
    BY <1>1, StartPast
  <2>3. ASSUME NEW l \in 1..Len(links) PROVE CountSound(l)' /\ Accounted(l)'
    <3>1. Counting(l)' \subseteq Counting(l) \cup {s} /\ Serving(l)' = Serving(l)
      BY <1>1, <1>a, CountersStart
    <3>2. Counting(l) \cup {s} \subseteq Slots /\ Counting(l) \subseteq Slots
      BY LinkNumbers
    <3>3. /\ Cardinality(Counting(l)') \in Nat
          /\ Cardinality(Counting(l)') <= Cardinality(Counting(l) \cup {s})
          /\ Cardinality(Counting(l) \cup {s}) \in Nat
          /\ Cardinality(Counting(l) \cup {s}) <= Cardinality(Counting(l)) + 1
      BY <3>1, <3>2, SlotSets
    <3>4. links[l].accessCount + Cardinality(Counting(l)) <= begun
      BY <1>0 DEF CountSound
    <3>5. links'[l].accessCount + Cardinality(Counting(l)') <= begun'
      BY <2>1, <3>3, <3>4, LinkNumbers
    <3>6. Accounted(l)'
      BY <1>0, <2>1, <2>2, <3>1 DEF Accounted, Found
    <3>7. QED
      BY <3>5, <3>6 DEF CountSound
  <2>4. QED
    BY <1>0, <1>b, <2>1, <2>2, <2>3
<1>2. ASSUME NEW s \in Slots, (\E c : Goes(s, c)) \/ Leaves(s), begun' = begun,
             ~(Doing(s, "count") \/ Doing(s, "serve")), links' \in Seq(Link),
             Len(links') = Len(links),
             \A k \in 1..Len(links) : /\ links'[k].accessCount = links[k].accessCount
                                      /\ links[k].deleted => links'[k].deleted,
             past'.served = past.served, past'.unserved = past.unserved
      PROVE  LinksSound'
  <2>1. ASSUME NEW l \in 1..Len(links) PROVE CountSound(l)' /\ Accounted(l)'
    <3>1. Counting(l)' \subseteq Counting(l) /\ Serving(l)' = Serving(l)
      BY <1>2, <1>a, CountersGoOn
    <3>2. QED
      BY <1>0, <1>2, <3>1, LinkKept
  <2>2. QED
    BY <1>2, <1>b, <2>1
<1>3. ASSUME NEW s \in Slots,
             \/ Insert(s) \/ Update(s) \/ ReplaceFile(s) \/ SetStatus(s) \/ Delete(s)
             \/ Exists(s) \/ DocumentGone(s) \/ SetFile(s) \/ UploadFile(s) \/ EndLink(s)
      PROVE  LinksSound'
  <2>1. ((\E c : Goes(s, c)) \/ Leaves(s)) /\ begun' = begun
    BY <1>3, StepActs, ExistsActs, GoneActs, SetFileActs, UploadActs DEF Moves
  <2>2. ~(Doing(s, "count") \/ Doing(s, "serve"))
    BY <1>3 DEF Insert, Update, ReplaceFile, SetStatus, Delete, Exists, DocumentGone,
                SetFile, UploadFile, EndLink, Doing
  <2>3. past'.served = past.served /\ past'.unserved = past.unserved
    <3>1. CASE SetStatus(s) \/ Delete(s)
      BY <3>1, SetStatusPast, DeletePast
    <3>2. CASE ~(SetStatus(s) \/ Delete(s))
      BY <1>3, <3>2 DEF Insert, Update, ReplaceFile, Exists, DocumentGone, SetFile,
                        UploadFile, EndLink
    <3>3. QED
      BY <3>1, <3>2
  <2>4. /\ links' \in Seq(Link) /\ Len(links') = Len(links)
        /\ \A k \in 1..Len(links) : /\ links'[k].accessCount = links[k].accessCount
                                    /\ links[k].deleted => links'[k].deleted
    <3>1. CASE EndLink(s)
      BY <3>1, EndLinks
    <3>2. CASE ~EndLink(s)
      <4>1. links' = links
        BY <1>3, <3>2 DEF Insert, Update, ReplaceFile, SetStatus, Delete, Exists,
                          DocumentGone, SetFile, UploadFile
      <4>2. QED
        BY <1>0, <4>1
    <3>3. QED
      BY <3>1, <3>2
  <2>5. QED
    BY <1>2, <2>1, <2>2, <2>3, <2>4
<1>4. ASSUME NEW s \in Slots, Share(s) PROVE LinksSound'
  <2>1. /\ (\E c : Goes(s, c)) \/ Leaves(s)
        /\ begun' = begun /\ past' = past /\ ~(Doing(s, "count") \/ Doing(s, "serve"))
    BY <1>4, StepActs DEF Moves, Share, Doing
  <2>2. /\ links' \in Seq(Link) /\ Len(links') <= MaxLinks /\ Len(links') = Len(links) + 1
        /\ \A l \in 1..Len(links) : links'[l] = links[l]
        /\ links'[Len(links')].accessCount = 0
    BY <1>4, ShareLinks
  <2>3. ASSUME NEW l \in 1..Len(links) PROVE CountSound(l)' /\ Accounted(l)'
    <3>1. Counting(l)' \subseteq Counting(l) /\ Serving(l)' = Serving(l)
      BY <2>1, <1>a, CountersGoOn
    <3>2. QED
      BY <1>0, <2>1, <2>2, <3>1, LinkKept
  <2>0. Len(links) + 1 \in Nat
    BY <1>0
  <2>n. PICK n \in Nat : n = Len(links) + 1
    BY <2>0
  <2>4. n \in Nat /\ n \in 1..MaxLinks /\ n > Len(links) /\ Len(links') = n
    BY <1>0, <2>2, <2>n
  <2>5. Counting(n)' = {} /\ Serving(n)' = {}
    <3>1. \A r \in Slots : call'[r].link <= Len(links) /\ call'[r].link \in Nat
      <4>1. call' \in [Slots -> CallState]
            /\ \A r \in Slots : call'[r].link <= Len(links)
        BY <2>1, CallsKept DEF Touches
      <4>2. QED
        BY <4>1, BaseFacts DEF CallState
    <3>2. \A r \in Slots : call'[r].link # n
      BY <1>0, <2>4, <3>1
    <3>3. QED
      BY <3>2 DEF Counting, Serving
  <2>6. CountSound(n)' /\ Accounted(n)'
    <3>1. Cardinality({}) = 0 /\ begun \in Nat
      BY FS_EmptySet, BaseFacts
    <3>2. past.served[n] = 0 /\ past.unserved[n] = 0
      BY <1>0, <2>4
    <3>3. links'[n].accessCount = 0
      BY <2>2, <2>4
    <3>4. CountSound(n)'
      BY <2>1, <2>5, <3>1, <3>3 DEF CountSound
    <3>5. Accounted(n)'
      BY <2>1, <2>5, <3>1, <3>2, <3>3 DEF Accounted
    <3>6. QED
      BY <3>4, <3>5
  <2>7. DOMAIN links' = 1..Len(links')
    BY <2>2, LenProperties
  <2>8. \A l \in 1..Len(links') : l \in 1..Len(links) \/ l = n
    BY <1>0, <2>2, <2>n
  <2>9. \A l \in 1..MaxLinks : l > Len(links') => past'.served[l] = 0 /\ past'.unserved[l] = 0
    BY <1>0, <2>1, <2>2
  <2>10. \A l \in DOMAIN links' : CountSound(l)' /\ Accounted(l)'
    BY <2>3, <2>6, <2>7, <2>8
  <2>11. QED
    BY <2>9, <2>10 DEF LinksSound
<1>5. ASSUME NEW s \in Slots, UpdateAccessCount(s) PROVE LinksSound'
  <2>0. call[s].link \in 1..Len(links)
    BY <1>5, LinkSteps DEF UpdateAccessCount
  <2>l. PICK l \in 1..Len(links) : l = call[s].link
    BY <2>0
  <2>1. /\ Moves(s, call[s].file, call[s].status) /\ begun' = begun /\ past' = past
        /\ Doing(s, "count") /\ Busy(s)
    BY <1>5, StepActs DEF UpdateAccessCount
  <2>2. /\ links' \in Seq(Link) /\ Len(links') = Len(links)
        /\ \A k \in 1..Len(links) : links'[k].deleted = links[k].deleted
        /\ \A k \in 1..Len(links) : k # l => links'[k].accessCount = links[k].accessCount
        /\ links'[l].accessCount = IF Found(l) THEN links[l].accessCount + 1
                                   ELSE links[l].accessCount
    BY <1>5, <2>l, CountLinks
  <2>3. ~Leaves(s) /\ \E c : Goes(s, c)
    <3>1. CallSound(call[s]) /\ call[s].op # "none"
      BY <2>1, Doer DEF Busy
    <3>2. Len(call[s].todo) # 1
      BY <2>1, <3>1, Planned DEF Fits, Doing
    <3>3. PICK c : Goes(s, c)
      BY <2>1, <3>2 DEF Moves
    <3>4. call'[s] = c /\ c.todo # <<>>
      BY <3>3, Others DEF Goes
    <3>5. ~Leaves(s)
      <4>1. SUFFICES ASSUME Leaves(s) PROVE FALSE
        OBVIOUS
      <4>2. call'[s] = Idle
        BY <4>1, Others DEF Leaves
      <4>3. QED
        BY <3>4, <4>2, IdleCall
    <3>6. QED
      BY <3>3, <3>5
  <2>4. l \in 1..Len(links)
    OBVIOUS
  <2>5. ASSUME NEW k \in 1..Len(links), k # l PROVE CountSound(k)' /\ Accounted(k)'
    <3>1. Counting(k)' \subseteq Counting(k) /\ Serving(k)' = Serving(k)
      BY <2>3, <2>5, <2>l, <1>a, CountersGoOn
    <3>2. QED
      BY <1>0, <2>1, <2>2, <2>5, <3>1, LinkKept
  <2>6. s \in Counting(l)
    BY <2>1, <2>l DEF Counting
  <2>7. CountSound(l)' /\ Accounted(l)'
    <3>1. /\ Counting(l)' \subseteq Counting(l) /\ s \notin Counting(l)'
          /\ Serving(l)' = Serving(l) \cup {s} /\ s \notin Serving(l)
      BY <2>1, <2>3, <2>l, <1>a, CountersGoOn
    <3>2. /\ links[l].accessCount \in Nat /\ past.served[l] \in Nat
          /\ past.unserved[l] \in Nat /\ begun \in Nat
          /\ Counting(l) \subseteq Slots /\ Serving(l) \subseteq Slots
          /\ Cardinality(Counting(l)) \in Nat /\ Cardinality(Serving(l)) \in Nat
      BY <2>4, LinkNumbers
    <3>3. Counting(l)' \subseteq Counting(l) \ {s} /\ Counting(l) \ {s} \subseteq Slots
      BY <3>1, <3>2
    <3>4. /\ Cardinality(Counting(l)') \in Nat
          /\ Cardinality(Counting(l)') <= Cardinality(Counting(l) \ {s})
          /\ Cardinality(Counting(l) \ {s}) = Cardinality(Counting(l)) - 1
          /\ Cardinality(Serving(l) \cup {s}) = Cardinality(Serving(l)) + 1
      BY <2>6, <3>1, <3>2, <3>3, SlotSets
    <3>5. links[l].accessCount + Cardinality(Counting(l)) <= begun
      BY <1>0, <2>4 DEF CountSound
    <3>6. links'[l].accessCount + Cardinality(Counting(l)') <= begun'
      BY <2>1, <2>2, <3>2, <3>4, <3>5
    <3>7. Found(l) => links[l].accessCount =
                         past.served[l] + past.unserved[l] + Cardinality(Serving(l))
      BY <1>0, <2>4 DEF Accounted
    <3>8. Found(l) => links'[l].accessCount =
                         past'.served[l] + past'.unserved[l] + Cardinality(Serving(l)')
      <4>1. Cardinality(Serving(l)') = Cardinality(Serving(l)) + 1
        BY <3>1, <3>4
      <4>2. past'.served[l] = past.served[l] /\ past'.unserved[l] = past.unserved[l]
        BY <2>1
      <4>3. Found(l) => links'[l].accessCount = links[l].accessCount + 1
        BY <2>2
      <4> DEFINE a == links[l].accessCount
                 n == Cardinality(Serving(l))
                 p == past.served[l]
                 q == past.unserved[l]
                 b == links'[l].accessCount
                 m == Cardinality(Serving(l)')
                 x == past'.served[l]
                 y == past'.unserved[l]
                 found == Found(l)
      <4>4. /\ a \in Nat /\ n \in Nat /\ p \in Nat /\ q \in Nat
            /\ m = n + 1 /\ x = p /\ y = q /\ (found => b = a + 1 /\ a = p + q + n)
        BY <3>2, <3>7, <4>1, <4>2, <4>3
      <4> HIDE DEF a, n, p, q, b, m, x, y, found
      <4>5. found => b = x + y + m
        BY <4>4
      <4>6. QED
        BY <4>5 DEF b, x, y, m, found
    <3>9. Found(l)' <=> Found(l)
      BY <2>2, <2>4 DEF Found
    <3>10. Accounted(l)'
      BY <3>8, <3>9 DEF Accounted
    <3>11. QED
      BY <3>6, <3>10 DEF CountSound
  <2>8. QED
    BY <1>b, <2>1, <2>2, <2>5, <2>7
(* An access that found something or nothing, or whose serving threw.      *)
<1>6. ASSUME NEW s \in Slots, (\E c : Goes(s, c)) \/ Leaves(s), Doing(s, "serve"),
             begun' = begun, links' = links,
             \A k \in 1..MaxLinks : k # call[s].link =>
                past'.served[k] = past.served[k] /\ past'.unserved[k] = past.unserved[k],
             past'.served[call[s].link] + past'.unserved[call[s].link]
                = past.served[call[s].link] + past.unserved[call[s].link] + 1
      PROVE  LinksSound'
  <2>0. call[s].link \in 1..Len(links)
    BY <1>6, LinkSteps
  <2>1. PICK l \in 1..Len(links) : l = call[s].link
    BY <2>0
  <2>2. ASSUME NEW k \in 1..Len(links), k # l PROVE CountSound(k)' /\ Accounted(k)'
    <3>1. Counting(k)' \subseteq Counting(k) /\ Serving(k)' = Serving(k)
      BY <1>6, <2>1, <2>2, <1>a, CountersGoOn
    <3>2. past'.served[k] = past.served[k] /\ past'.unserved[k] = past.unserved[k]
      BY <1>6, <2>1, <2>2, <1>a
    <3>3. QED
      BY <1>0, <1>6, <3>1, <3>2, LinkKept
  <2>3. s \in Serving(l)
    BY <1>6, <2>1 DEF Serving
  <2>4. past'.served[l] + past'.unserved[l] = past.served[l] + past.unserved[l] + 1
    BY <1>6, <2>1
  <2>5. CountSound(l)' /\ Accounted(l)'
    <3>1. Counting(l)' \subseteq Counting(l) /\ Serving(l)' = Serving(l) \ {s}
      BY <1>6, <2>1, <1>a, CountersGoOn
    <3>2. /\ links[l].accessCount \in Nat /\ past.served[l] \in Nat
          /\ past.unserved[l] \in Nat /\ begun \in Nat
          /\ Counting(l) \subseteq Slots /\ Serving(l) \subseteq Slots
          /\ Cardinality(Counting(l)) \in Nat /\ Cardinality(Serving(l)) \in Nat
      BY <2>1, LinkNumbers
    <3>3. /\ Cardinality(Counting(l)') \in Nat
          /\ Cardinality(Counting(l)') <= Cardinality(Counting(l))
          /\ Cardinality(Serving(l) \ {s}) = Cardinality(Serving(l)) - 1
      BY <2>3, <3>1, <3>2, SlotSets
    <3>4. links[l].accessCount + Cardinality(Counting(l)) <= begun
      BY <1>0, <2>1 DEF CountSound
    <3>5. links'[l].accessCount + Cardinality(Counting(l)') <= begun'
      BY <1>6, <3>2, <3>3, <3>4
    <3>6. Found(l) => links[l].accessCount =
                         past.served[l] + past.unserved[l] + Cardinality(Serving(l))
      BY <1>0, <2>1 DEF Accounted
    <3>7. Found(l) => links[l].accessCount =
                         past'.served[l] + past'.unserved[l] + Cardinality(Serving(l) \ {s})
      <4> DEFINE a == links[l].accessCount
                 n == Cardinality(Serving(l))
                 p == past.served[l]
                 q == past.unserved[l]
                 m == Cardinality(Serving(l) \ {s})
                 x == past'.served[l]
                 y == past'.unserved[l]
                 found == Found(l)
      <4>1. /\ a \in Nat /\ n \in Nat /\ p \in Nat /\ q \in Nat
            /\ m = n - 1 /\ x + y = p + q + 1 /\ (found => a = p + q + n)
        BY <2>4, <3>2, <3>3, <3>6
      <4> HIDE DEF a, n, p, q, m, x, y, found
      <4>2. found => a = (p + q + 1) + m
        BY <4>1
      <4>3. found => a = (x + y) + m
        BY <4>1, <4>2
      <4>4. QED
        BY <4>3 DEF a, x, y, m, found
    <3>8. Accounted(l)'
      BY <1>6, <3>1, <3>7 DEF Accounted, Found
    <3>9. QED
      BY <3>5, <3>8 DEF CountSound
  <2>6. \A k \in 1..MaxLinks : k > Len(links) =>
           past'.served[k] = past.served[k] /\ past'.unserved[k] = past.unserved[k]
    BY <1>0, <1>6, <2>1
  <2>7. QED
    BY <1>0, <1>6, <1>b, <2>2, <2>5, <2>6
<1>7. ASSUME NEW s \in Slots, Serve(s) PROVE LinksSound'
  <2>1. ((\E c : Goes(s, c)) \/ Leaves(s)) /\ begun' = begun
    BY <1>7, StepActs DEF Moves
  <2>2. links' = links /\ Doing(s, "serve")
    BY <1>7 DEF Serve
  <2>3. QED
    BY <1>6, <1>7, <2>1, <2>2, ServePast
<1>8. ASSUME NEW s \in Slots, CallFails(s) PROVE LinksSound'
  <2>1. Leaves(s) /\ begun' = begun /\ links' = links
    BY <1>8, FailActs DEF CallFails
  <2>2. /\ past'.served = past.served
        /\ \A k \in 1..MaxLinks : k # call[s].link => past'.unserved[k] = past.unserved[k]
        /\ Doing(s, "serve") =>
              past'.unserved[call[s].link] = past.unserved[call[s].link] + 1
        /\ ~Doing(s, "serve") => past'.unserved = past.unserved
    BY <1>8, FailPast
  <2>3. CASE Doing(s, "serve")
    <3>1. call[s].link \in 1..Len(links)
      BY <2>3, LinkSteps
    <3>2. /\ past.served[call[s].link] \in Nat /\ past.unserved[call[s].link] \in Nat
      BY <3>1, LinkNumbers
    <3>3. past'.served[call[s].link] + past'.unserved[call[s].link]
             = past.served[call[s].link] + past.unserved[call[s].link] + 1
      BY <2>2, <2>3, <3>2
    <3>4. QED
      BY <1>6, <2>1, <2>2, <2>3, <3>3
  <2>4. CASE ~Doing(s, "serve")
    <3>1. ASSUME NEW l \in 1..Len(links) PROVE CountSound(l)' /\ Accounted(l)'
      <4>1. Counting(l)' \subseteq Counting(l) /\ Serving(l)' = Serving(l) \ {s}
        BY <2>1, <1>a, CountersGoOn
      <4>2. Serving(l)' = Serving(l)
        BY <2>4, <4>1 DEF Serving
      <4>3. QED
        BY <1>0, <2>1, <2>2, <2>4, <4>1, <4>2, LinkKept
    <3>2. QED
      BY <1>0, <1>b, <2>1, <2>2, <2>4, <3>1
  <2>5. QED
    BY <2>3, <2>4
<1>9. ASSUME NEW l \in DOMAIN links, TimePasses(l) PROVE LinksSound'
  <2>1. call' = call /\ begun' = begun /\ past' = past
    BY <1>9 DEF TimePasses
  <2>2. /\ links' \in Seq(Link) /\ Len(links') = Len(links)
        /\ \A k \in 1..Len(links) : /\ links'[k].accessCount = links[k].accessCount
                                    /\ links[k].deleted => links'[k].deleted
    BY <1>9, TimeLinks
  <2>3. ASSUME NEW k \in 1..Len(links) PROVE CountSound(k)' /\ Accounted(k)'
    <3>1. Counting(k)' = Counting(k) /\ Serving(k)' = Serving(k)
      BY <2>1 DEF Counting, Serving, Doing
    <3>2. QED
      BY <1>0, <2>1, <2>2, <3>1, LinkKept
  <2>4. QED
    BY <1>b, <2>1, <2>2, <2>3
<1>10. ASSUME UNCHANGED <<call, links, begun, past>> PROVE LinksSound'
  BY <1>10 DEF LinksSound, CountSound, Accounted, Found, Counting, Serving, Doing
<1>11. QED
  BY <1>1, <1>3, <1>4, <1>5, <1>7, <1>8, <1>9, <1>10, NextCases DEF Erase, vars
-----------------------------------------------------------------------------
(* The files.                                                              *)

(* What the calls do with files when one of them goes on, leaves or starts. *)
LEMMA SamePending ==
    ASSUME NEW r, call'[r] = call[r]
    PROVE  /\ Pending(r)' <=> Pending(r)
           /\ \A do : Doing(r, do)' <=> Doing(r, do)
           /\ \A d, v : Setting(r, d, v)' <=> Setting(r, d, v)
           /\ VariantOf(r)' = VariantOf(r) /\ (Busy(r)' <=> Busy(r))
BY DEF Pending, Setting, Doing, VariantOf, Busy

LEMMA PendingMoves ==
    ASSUME Base, NEW s \in Slots, NEW f, NEW status, Moves(s, f, status)
    PROVE  /\ \A r \in Slots : r # s => call'[r] = call[r]
           /\ Pending(s)' => /\ call'[s].file = f /\ call'[s].doc = call[s].doc
                             /\ Doing(s, "store") \/ Doing(s, "replace")
           /\ Doing(s, "set")' <=> Doing(s, "replace")
           /\ Doing(s, "replace") => call'[s].doc = call[s].doc /\ VariantOf(s)' = VariantOf(s)
           /\ Doing(s, "store")' => Doing(s, "exists") /\ call'[s].doc = call[s].doc
           /\ Doing(s, "store") => Pending(s)'
           /\ ~Doing(s, "insert")'
           /\ Doing(s, "set") => Doing(s, "restore")'
           /\ Doing(s, "restore")' => /\ Doing(s, "set") /\ call'[s].status = status
                                      /\ call'[s].doc = call[s].doc
           /\ Busy(s)' => call'[s].doc = call[s].doc /\ call'[s].op = call[s].op
           /\ ~Doing(s, "processing")'
<1>0. /\ Busy(s) /\ CallSound(call[s]) /\ call[s].op # "none" /\ call[s].todo # <<>>
  BY Doer DEF Moves, Leaves, Goes, Busy
<1>1. Fits(call[s].op, Head(call[s].todo), Len(call[s].todo))
  BY <1>0, Planned
<1>2. CASE Leaves(s) /\ Len(call[s].todo) = 1
  <2>1. call'[s] = Idle /\ \A r \in Slots : r # s => call'[r] = call[r]
    BY <1>2, Others DEF Leaves
  <2>2. \A do : ~Doing(s, do)'
    BY <2>1, IdleCall DEF Doing
  <2>3. ~Busy(s)'
    BY <2>1, IdleCall DEF Busy
  <2>4. ~Doing(s, "replace") /\ ~Doing(s, "store") /\ ~Doing(s, "set")
    BY <1>1, <1>2 DEF Fits, Doing
  <2>5. QED
    BY <2>1, <2>2, <2>3, <2>4 DEF Pending
<1>3. ASSUME NEW c, Goes(s, c), c.file = f, c.status = status
      PROVE  /\ \A r \in Slots : r # s => call'[r] = call[r]
             /\ Pending(s)' => /\ call'[s].file = f /\ call'[s].doc = call[s].doc
                               /\ Doing(s, "store") \/ Doing(s, "replace")
             /\ Doing(s, "set")' <=> Doing(s, "replace")
             /\ Doing(s, "replace") => /\ call'[s].doc = call[s].doc
                                       /\ VariantOf(s)' = VariantOf(s)
             /\ Doing(s, "store")' => Doing(s, "exists") /\ call'[s].doc = call[s].doc
             /\ Doing(s, "store") => Pending(s)'
             /\ ~Doing(s, "insert")'
             /\ Doing(s, "set") => Doing(s, "restore")'
             /\ Doing(s, "restore")' => /\ Doing(s, "set") /\ call'[s].status = status
                                        /\ call'[s].doc = call[s].doc
             /\ Busy(s)' => call'[s].doc = call[s].doc /\ call'[s].op = call[s].op
             /\ ~Doing(s, "processing")'
  <2>1. call'[s] = c /\ \A r \in Slots : r # s => call'[r] = call[r]
    BY <1>3, Others DEF Goes
  <2>2. /\ c.doc = call[s].doc /\ c.op = call[s].op /\ c.todo # <<>>
        /\ Follows(c.op, Head(call[s].todo), Head(c.todo))
    BY <1>3 DEF Goes
  <2>3. \A do : Doing(s, do)' <=> Head(c.todo).do = do
    BY <2>1, <2>2 DEF Doing
  <2>4. \A do : Doing(s, do) <=> Head(call[s].todo).do = do
    BY <1>0 DEF Doing
  <2>5. /\ Doing(s, "set")' <=> Doing(s, "replace")
        /\ Doing(s, "replace")' <=> Doing(s, "store")
        /\ Doing(s, "store")' <=> Doing(s, "exists")
        /\ Doing(s, "restore")' <=> Doing(s, "set")
        /\ ~Doing(s, "insert")' /\ ~Doing(s, "processing")'
    BY <2>2, <2>3, <2>4 DEF Follows
  <2>6. Doing(s, "replace") => VariantOf(s)' = VariantOf(s)
    BY <2>1, <2>2, <2>4 DEF Follows, VariantOf
  <2>7. QED
    BY <1>3, <2>1, <2>2, <2>5, <2>6 DEF Pending
<1>4. QED
  BY <1>2, <1>3 DEF Moves

LEMMA PendingLeaves ==
    ASSUME Base, NEW s \in Slots, Leaves(s)
    PROVE  /\ \A r \in Slots : r # s => call'[r] = call[r]
           /\ \A do : ~Doing(s, do)'
           /\ ~Pending(s)' /\ ~Busy(s)'
<1>1. call'[s] = Idle /\ \A r \in Slots : r # s => call'[r] = call[r]
  BY Others DEF Leaves
<1>2. \A do : ~Doing(s, do)'
  BY <1>1, IdleCall DEF Doing
<1>3. QED
  BY <1>1, <1>2, IdleCall DEF Pending, Busy

LEMMA PendingStarts ==
    ASSUME Base, NEW s \in Slots, NEW c, Starts(s, c)
    PROVE  /\ \A r \in Slots : r # s => call'[r] = call[r]
           /\ call'[s] = c /\ ~Busy(s) /\ ~Pending(s) /\ ~Pending(s)'
           /\ ~Doing(s, "store")' /\ ~Doing(s, "restore")' /\ \A do : ~Doing(s, do)
<1>1. call'[s] = c /\ \A r \in Slots : r # s => call'[r] = call[r]
  BY Others DEF Starts
<1>2. Head(c.todo).do \notin {"replace", "set", "store", "restore"}
  BY DEF Starts, Opens
<1>3. ~Busy(s) /\ call[s].todo = <<>>
  BY IdleCall DEF Starts, Busy
<1>4. QED
  BY <1>1, <1>2, <1>3 DEF Pending, Doing

(* The parts of FilesSound.                                                *)
Stored(f) == f = 0 \/ f \in Kept
FileSound(d, v) ==
    /\ doc[d].file[v] \in 0..stored
    /\ ~Present(d) => doc[d].file[v] = 0
    /\ Stored(doc[d].file[v]) \/ d \in past.torn \/ \E s \in Slots : Setting(s, d, v)
Alone(d, v) == \A e \in Docs, w \in Variant :
    doc[d].file[v] = doc[e].file[w] /\ doc[d].file[v] # 0 => d = e /\ v = w
PendingSound(s) == Pending(s) =>
    /\ call[s].file \in Kept
    /\ \A d \in Docs, v \in Variant : doc[d].file[v] # call[s].file
    /\ \A r \in Slots : Pending(r) /\ call[r].file = call[s].file => r = s

LEMMA FilesParts ==
    FilesSound <=>
        /\ disk \subseteq 1..stored /\ erasing \subseteq 1..stored
        /\ \A d \in Docs, v \in Variant : FileSound(d, v) /\ Alone(d, v)
        /\ \A s \in Slots : PendingSound(s)
BY DEF FilesSound, FileSound, Alone, PendingSound, Stored

LEMMA FilesPartsNext ==
    ASSUME disk' \subseteq 1..stored', erasing' \subseteq 1..stored',
           \A d \in Docs, v \in Variant : FileSound(d, v)' /\ Alone(d, v)',
           \A s \in Slots : PendingSound(s)'
    PROVE  FilesSound'
BY DEF FilesSound, FileSound, Alone, PendingSound, Stored

(* A step that stores no file and changes none of a document.              *)
LEMMA FilesGoOn ==
    ASSUME FilesSound, stored' = stored, past.torn \subseteq past'.torn,
           disk' \subseteq 1..stored, erasing' \subseteq 1..stored, Kept \subseteq Kept',
           \A d \in Docs : SameFiles(d) /\ (Present(d) => Present(d)'),
           \A r \in Slots : Pending(r)' => Pending(r) /\ call'[r].file = call[r].file,
           \A r \in Slots, d \in Docs, v \in Variant : Setting(r, d, v) =>
                Setting(r, d, v)' \/ doc[d].file[v] = 0 \/ d \in past'.torn
    PROVE  FilesSound'
<1>1. /\ \A d \in Docs, v \in Variant : FileSound(d, v) /\ Alone(d, v)
      /\ \A s \in Slots : PendingSound(s)
  BY FilesParts
<1>2. \A d \in Docs, v \in Variant : doc'[d].file[v] = doc[d].file[v]
  BY DEF SameFiles
<1>3. ASSUME NEW d \in Docs, NEW v \in Variant PROVE FileSound(d, v)' /\ Alone(d, v)'
  <2>1. FileSound(d, v) /\ Alone(d, v)
    BY <1>1
  <2>2. \/ Stored(doc[d].file[v])' \/ d \in past'.torn \/ \E s \in Slots : Setting(s, d, v)'
    BY <1>2, <2>1 DEF FileSound, Stored
  <2>3. FileSound(d, v)'
    BY <1>2, <2>1, <2>2 DEF FileSound
  <2>4. Alone(d, v)'
    BY <1>2, <2>1 DEF Alone
  <2>5. QED
    BY <2>3, <2>4
<1>4. ASSUME NEW s \in Slots PROVE PendingSound(s)'
  BY <1>1, <1>2 DEF PendingSound
<1>5. QED
  BY <1>3, <1>4, FilesPartsNext

(* The numbers of the files that documents name or calls hold.             *)
LEMMA KnownFiles ==
    ASSUME Base, FilesSound
    PROVE  /\ \A d \in Docs, v \in Variant : doc[d].file[v] \in 0..stored
           /\ \A s \in Slots : Pending(s) => call[s].file \in 1..stored
           /\ Kept \subseteq 1..stored /\ stored \in Nat
           /\ \A f \in 0..stored : f # stored + 1 /\ f \in 0..(stored + 1)
           /\ \A f \in 1..stored : f # stored + 1 /\ f \in 1..(stored + 1)
           /\ stored + 1 # 0 /\ stored + 1 \in 1..(stored + 1)
<1>1. stored \in Nat
  BY BaseFacts
<1>2. /\ \A f \in 0..stored : f # stored + 1 /\ f \in 0..(stored + 1)
      /\ \A f \in 1..stored : f # stored + 1 /\ f \in 1..(stored + 1)
      /\ stored + 1 # 0 /\ stored + 1 \in 1..(stored + 1)
  BY <1>1
<1>3. Kept \subseteq 1..stored
  BY DEF FilesSound, Kept
<1>4. QED
  BY <1>1, <1>2, <1>3 DEF FilesSound

LEMMA UploadFiles ==
    ASSUME Base, StoresBounded, FilesSound, NEW s \in Slots, UploadFile(s)
    PROVE  FilesSound'
<1>1. /\ Moves(s, stored + 1, call[s].status) /\ stored' = stored + 1
      /\ disk' = disk \cup {stored + 1} /\ UNCHANGED <<doc, erasing, past>>
      /\ Doing(s, "store")
  BY UploadActs DEF UploadFile
<1>2. /\ \A r \in Slots : r # s => call'[r] = call[r]
      /\ Pending(s)' => call'[s].file = stored + 1
      /\ Doing(s, "set")' <=> Doing(s, "replace")
  BY <1>1, PendingMoves
<1>3. ~Doing(s, "set") /\ ~Doing(s, "set")' /\ ~Pending(s)
  BY <1>1, <1>2 DEF Doing, Pending
<1>4. /\ \A d \in Docs, v \in Variant : FileSound(d, v) /\ Alone(d, v)
      /\ \A r \in Slots : PendingSound(r)
      /\ disk \subseteq 1..stored /\ erasing \subseteq 1..stored
  BY FilesParts
<1>5. /\ \A d \in Docs, v \in Variant : doc[d].file[v] \in 0..stored
      /\ \A r \in Slots : Pending(r) => call[r].file \in 1..stored
      /\ \A f \in 0..stored : f # stored + 1 /\ f \in 0..(stored + 1)
      /\ \A f \in 1..stored : f # stored + 1 /\ f \in 1..(stored + 1)
      /\ stored + 1 # 0 /\ stored + 1 \in 1..(stored + 1)
  BY KnownFiles
<1>6. disk' \subseteq 1..stored' /\ erasing' \subseteq 1..stored'
  BY <1>1, <1>4, <1>5
<1>7. Kept \subseteq Kept' /\ stored + 1 \in Kept'
  BY <1>1, <1>4, <1>5 DEF Kept
<1>8. \A r \in Slots, d \in Docs, v \in Variant : Setting(r, d, v) => Setting(r, d, v)'
  BY <1>2, <1>3, SamePending DEF Setting
<1>9. ASSUME NEW d \in Docs, NEW v \in Variant PROVE FileSound(d, v)' /\ Alone(d, v)'
  <2>1. FileSound(d, v) /\ Alone(d, v) /\ doc[d].file[v] \in 0..stored
    BY <1>4, <1>5
  <2>2. Stored(doc[d].file[v])' \/ d \in past'.torn \/ \E r \in Slots : Setting(r, d, v)'
    BY <1>1, <1>7, <1>8, <2>1 DEF FileSound, Stored
  <2>3. FileSound(d, v)'
    BY <1>1, <1>5, <2>1, <2>2 DEF FileSound, Present
  <2>4. Alone(d, v)'
    BY <1>1, <2>1 DEF Alone
  <2>5. QED
    BY <2>3, <2>4
<1>10. ASSUME NEW r \in Slots PROVE PendingSound(r)'
  <2>1. CASE r = s
    <3>1. \A d \in Docs, v \in Variant : doc'[d].file[v] # stored + 1
      BY <1>1, <1>5
    <3>2. ASSUME NEW q \in Slots, Pending(q)', call'[q].file = stored + 1 PROVE q = s
      BY <1>2, <1>5, <3>2, SamePending
    <3>3. QED
      BY <1>2, <1>7, <2>1, <3>1, <3>2 DEF PendingSound
  <2>2. CASE r # s
    <3>1. PendingSound(r) /\ call'[r] = call[r] /\ (Pending(r)' <=> Pending(r))
      BY <1>2, <1>4, <2>2, SamePending
    <3>2. SUFFICES ASSUME Pending(r) PROVE PendingSound(r)'
      BY <3>1 DEF PendingSound
    <3>3. call[r].file # stored + 1
      BY <1>5, <3>2
    <3>4. ASSUME NEW q \in Slots, Pending(q)', call'[q].file = call[r].file PROVE q = r
      BY <1>2, <3>1, <3>2, <3>3, <3>4, SamePending DEF PendingSound
    <3>5. QED
      BY <1>1, <1>7, <3>1, <3>2, <3>4 DEF PendingSound
  <2>3. QED
    BY <2>1, <2>2
<1>11. QED
  BY <1>6, <1>9, <1>10, FilesPartsNext

LEMMA ReplaceFiles ==
    ASSUME Base, FilesSound, NEW s \in Slots, ReplaceFile(s)
    PROVE  FilesSound'
<1>0. call[s].doc \in Docs /\ VariantOf(s) \in Variant
  BY ReplaceErasing
<1>e. PICK e \in Docs, w \in Variant : e = call[s].doc /\ w = VariantOf(s)
  BY <1>0
<1> DEFINE f == doc[e].file[w]
<1>1. /\ Moves(s, call[s].file, call[s].status) /\ UNCHANGED <<doc, disk, stored, past>>
      /\ Doing(s, "replace")
  BY StepActs DEF ReplaceFile
<1>2. /\ \A r \in Slots : r # s => call'[r] = call[r]
      /\ Pending(s)' => call'[s].file = call[s].file
      /\ Doing(s, "set")' /\ call'[s].doc = e /\ VariantOf(s)' = w
  BY <1>1, <1>e, PendingMoves
<1>3. /\ e \in Docs /\ w \in Variant
      /\ Present(e) /\ f # 0 => erasing' = erasing \cup {f}
      /\ ~(Present(e) /\ f # 0) => erasing' = erasing
  BY <1>e, ReplaceErasing
<1>4. Pending(s) /\ ~Doing(s, "set") /\ Setting(s, e, w)'
  BY <1>1, <1>2 DEF Pending, Doing, Setting
<1>5. /\ \A d \in Docs, v \in Variant : FileSound(d, v) /\ Alone(d, v)
      /\ \A r \in Slots : PendingSound(r)
      /\ disk \subseteq 1..stored /\ erasing \subseteq 1..stored
  BY FilesParts
<1>6. f \in 0..stored /\ (f # 0 => f \in 1..stored)
  BY <1>3, KnownFiles
<1> HIDE DEF f
<1>7. disk' \subseteq 1..stored' /\ erasing' \subseteq 1..stored'
  BY <1>1, <1>3, <1>5, <1>6
<1>8. \A g \in Kept : g # f => g \in Kept'
  BY <1>1, <1>3 DEF Kept
<1>9. \A r \in Slots, d \in Docs, v \in Variant : Setting(r, d, v) => Setting(r, d, v)'
  BY <1>2, <1>4, SamePending DEF Setting
<1>10. ASSUME NEW d \in Docs, NEW v \in Variant PROVE FileSound(d, v)' /\ Alone(d, v)'
  <2>1. FileSound(d, v) /\ Alone(d, v)
    BY <1>5
  <2>2. Stored(doc[d].file[v])' \/ d \in past'.torn \/ \E r \in Slots : Setting(r, d, v)'
    <3>1. CASE d = e /\ v = w
      BY <1>4, <3>1
    <3>2. CASE ~(d = e /\ v = w)
      <4>1. doc[d].file[v] = f => doc[d].file[v] = 0
        BY <1>3, <2>1, <3>2 DEF Alone, f
      <4>2. QED
        BY <1>1, <1>8, <1>9, <2>1, <4>1 DEF FileSound, Stored
    <3>3. QED
      BY <3>1, <3>2
  <2>3. FileSound(d, v)'
    BY <1>1, <2>1, <2>2 DEF FileSound, Present
  <2>4. Alone(d, v)'
    BY <1>1, <2>1 DEF Alone
  <2>5. QED
    BY <2>3, <2>4
<1>11. ASSUME NEW r \in Slots PROVE PendingSound(r)'
  <2>1. PendingSound(r) /\ (Pending(r)' => Pending(r) /\ call'[r].file = call[r].file)
    BY <1>2, <1>4, <1>5, SamePending
  <2>2. SUFFICES ASSUME Pending(r)' PROVE PendingSound(r)'
    BY DEF PendingSound
  <2>3. call[r].file \in Kept'
    <3>1. call[r].file \in Kept /\ call[r].file # f
      BY <1>3, <2>1, <2>2 DEF PendingSound, f
    <3>2. QED
      BY <1>8, <3>1
  <2>4. ASSUME NEW q \in Slots, Pending(q)', call'[q].file = call[r].file PROVE q = r
    <3>1. Pending(q) /\ call[q].file = call[r].file
      BY <1>2, <1>4, <2>4, SamePending
    <3>2. QED
      BY <2>1, <2>2, <3>1 DEF PendingSound
  <2>5. QED
    BY <1>1, <2>1, <2>2, <2>3, <2>4 DEF PendingSound
<1>12. QED
  BY <1>7, <1>10, <1>11, FilesPartsNext

LEMMA SetFiles ==
    ASSUME Base, FilesSound, NEW s \in Slots, SetFile(s)
    PROVE  FilesSound'
<1> DEFINE e == call[s].doc
           w == VariantOf(s)
           f == call[s].file
<1>1. /\ Moves(s, f, doc[e].status) /\ UNCHANGED <<disk, erasing, stored, past>>
      /\ Doing(s, "set") /\ Present(e)
  BY SetFileActs DEF SetFile
<1>2. /\ \A r \in Slots : r # s => call'[r] = call[r]
      /\ ~Pending(s)'
  BY <1>1, PendingMoves DEF Doing
<1>3. /\ e \in Docs /\ w \in Variant
      /\ \A d \in Docs : d # e => doc'[d] = doc[d]
      /\ \A d \in Docs : doc'[d].status = doc[d].status
      /\ doc'[e].file[w] = f
      /\ \A v \in Variant : v # w => doc'[e].file[v] = doc[e].file[v]
  BY SetFileDocs
<1>4. Pending(s)
  BY <1>1 DEF Pending
<1>5. /\ \A d \in Docs, v \in Variant : FileSound(d, v) /\ Alone(d, v)
      /\ \A r \in Slots : PendingSound(r)
      /\ disk \subseteq 1..stored /\ erasing \subseteq 1..stored
      /\ f \in 1..stored
  BY <1>4, FilesParts, KnownFiles
<1>6. f \in Kept /\ \A d \in Docs, v \in Variant : doc[d].file[v] # f
  BY <1>4, <1>5 DEF PendingSound
<1>7. \A r \in Slots, d \in Docs, v \in Variant :
         Setting(r, d, v) => Setting(r, d, v)' \/ (d = e /\ v = w)
  BY <1>2, SamePending DEF Setting
<1> HIDE DEF e, w, f
<1>8. Kept' = Kept /\ f # 0 /\ f \in 0..stored
  BY <1>1, <1>5 DEF Kept
<1>9. \A d \in Docs, v \in Variant :
         /\ d = e /\ v = w => doc'[d].file[v] = f
         /\ ~(d = e /\ v = w) => doc'[d].file[v] = doc[d].file[v]
  BY <1>3
<1>10. ASSUME NEW d \in Docs, NEW v \in Variant PROVE FileSound(d, v)' /\ Alone(d, v)'
  <2>1. FileSound(d, v) /\ Alone(d, v) /\ (Present(d)' <=> Present(d))
    BY <1>3, <1>5 DEF Present
  <2>2. CASE d = e /\ v = w
    <3>1. doc'[d].file[v] = f
      BY <1>9, <2>2
    <3>2. FileSound(d, v)'
      BY <1>1, <1>6, <1>8, <2>1, <2>2, <3>1 DEF FileSound, Stored
    <3>3. Alone(d, v)'
      BY <1>6, <1>9, <2>2, <3>1 DEF Alone
    <3>4. QED
      BY <3>2, <3>3
  <2>3. CASE ~(d = e /\ v = w)
    <3>1. doc'[d].file[v] = doc[d].file[v]
      BY <1>9, <2>3
    <3>2. FileSound(d, v)'
      BY <1>1, <1>7, <1>8, <2>1, <2>3, <3>1 DEF FileSound, Stored
    <3>3. Alone(d, v)'
      BY <1>6, <1>9, <2>1, <3>1 DEF Alone
    <3>4. QED
      BY <3>2, <3>3
  <2>4. QED
    BY <2>2, <2>3
<1>11. ASSUME NEW r \in Slots PROVE PendingSound(r)'
  <2>1. SUFFICES ASSUME Pending(r)' PROVE PendingSound(r)'
    BY DEF PendingSound
  <2>2. r # s /\ call'[r] = call[r] /\ Pending(r) /\ PendingSound(r)
    BY <1>2, <1>5, <2>1, SamePending
  <2>3. call[r].file \in Kept' /\ call[r].file # f
    BY <1>4, <1>8, <2>2 DEF PendingSound, f
  <2>4. \A d \in Docs, v \in Variant : doc'[d].file[v] # call[r].file
    BY <1>9, <2>2, <2>3 DEF PendingSound
  <2>5. ASSUME NEW q \in Slots, Pending(q)', call'[q].file = call[r].file PROVE q = r
    BY <1>2, <2>2, <2>5, SamePending DEF PendingSound
  <2>6. QED
    BY <2>2, <2>3, <2>4, <2>5 DEF PendingSound
<1>12. QED
  BY <1>1, <1>5, <1>10, <1>11, FilesPartsNext

LEMMA DeleteFiles ==
    ASSUME Base, FilesSound, NEW s \in Slots, Delete(s)
    PROVE  FilesSound'
<1>1. /\ Moves(s, call[s].file, call[s].status) /\ UNCHANGED <<disk, erasing, stored>>
      /\ Doing(s, "delete") /\ past'.torn = past.torn
  BY StepActs, DeletePast DEF Delete
<1>2. ~Doing(s, "set") /\ ~Doing(s, "replace") /\ ~Doing(s, "store")
  BY <1>1 DEF Doing
<1>3. (\A r \in Slots : r # s => call'[r] = call[r]) /\ ~Pending(s)'
  BY <1>1, <1>2, PendingMoves
<1>4. \A r \in Slots : Pending(r)' => Pending(r) /\ call'[r].file = call[r].file
  BY <1>3, SamePending
<1>5. \A r \in Slots, d \in Docs, v \in Variant : Setting(r, d, v) => Setting(r, d, v)'
  BY <1>2, <1>3, SamePending DEF Setting
<1>6. PICK e \in Docs : /\ \A d \in Docs : d # e => doc'[d] = doc[d]
                        /\ \A v \in Variant : doc'[e].file[v] = 0
  BY DeleteDocs
<1>7. \A d \in Docs, v \in Variant :
         doc'[d].file[v] = 0 \/ (d # e /\ doc'[d] = doc[d])
  BY <1>6
<1>8. /\ \A d \in Docs, v \in Variant : FileSound(d, v) /\ Alone(d, v)
      /\ \A r \in Slots : PendingSound(r)
      /\ disk \subseteq 1..stored /\ erasing \subseteq 1..stored
      /\ 0 \in 0..stored /\ \A r \in Slots : Pending(r) => call[r].file # 0
  BY FilesParts, KnownFiles
<1>9. ASSUME NEW d \in Docs, NEW v \in Variant PROVE FileSound(d, v)' /\ Alone(d, v)'
  <2>1. FileSound(d, v)'
    <3>1. CASE doc'[d].file[v] = 0
      BY <1>1, <1>8, <3>1 DEF FileSound, Stored
    <3>2. CASE doc'[d] = doc[d]
      BY <1>1, <1>5, <1>8, <3>2 DEF FileSound, Stored, Kept, Present
    <3>3. QED
      BY <1>7, <3>1, <3>2
  <2>2. Alone(d, v)'
    BY <1>7, <1>8 DEF Alone
  <2>3. QED
    BY <2>1, <2>2
<1>10. ASSUME NEW r \in Slots PROVE PendingSound(r)'
  <2>1. PendingSound(r) /\ (Pending(r) => call[r].file # 0)
    BY <1>8
  <2>2. SUFFICES ASSUME Pending(r)' PROVE PendingSound(r)'
    BY DEF PendingSound
  <2>3. Pending(r) /\ call'[r].file = call[r].file
    BY <1>4, <2>2
  <2>4. \A d \in Docs, v \in Variant : doc'[d].file[v] # call[r].file
    BY <1>7, <2>1, <2>3 DEF PendingSound
  <2>5. ASSUME NEW q \in Slots, Pending(q)', call'[q].file = call[r].file PROVE q = r
    BY <1>4, <2>1, <2>3, <2>5 DEF PendingSound
  <2>6. QED
    BY <1>1, <2>1, <2>3, <2>4, <2>5 DEF PendingSound, Kept
<1>11. QED
  BY <1>1, <1>8, <1>9, <1>10, FilesPartsNext

LEMMA FilesStep ==
    ASSUME Base, StoresBounded, FilesSound, [Next]_vars
    PROVE  FilesSound'
<1>0. /\ disk \subseteq 1..stored /\ erasing \subseteq 1..stored
      /\ \A d \in Docs, v \in Variant : ~Present(d) => doc[d].file[v] = 0
  BY DEF FilesSound
(* It suffices that a step stores, names and drops no file.                *)
<1>a. ASSUME NEW s \in Slots, \A r \in Slots : r # s => call'[r] = call[r],
             Pending(s)' => Pending(s) /\ call'[s].file = call[s].file,
             \A d \in Docs, v \in Variant : Setting(s, d, v) =>
                Setting(s, d, v)' \/ doc[d].file[v] = 0 \/ d \in past'.torn,
             UNCHANGED <<disk, erasing, stored>>, past.torn \subseteq past'.torn,
             \A d \in Docs : SameFiles(d) /\ (Present(d) => Present(d)')
      PROVE  FilesSound'
  <2>1. \A r \in Slots : Pending(r)' => Pending(r) /\ call'[r].file = call[r].file
    BY <1>a, SamePending
  <2>2. \A r \in Slots, d \in Docs, v \in Variant : Setting(r, d, v) =>
           Setting(r, d, v)' \/ doc[d].file[v] = 0 \/ d \in past'.torn
    BY <1>a, SamePending
  <2>3. Kept \subseteq Kept'
    BY <1>a DEF Kept
  <2>4. QED
    BY <1>0, <1>a, <2>1, <2>2, <2>3, FilesGoOn
<1>b. doc' = doc => \A d \in Docs : SameFiles(d) /\ (Present(d) => Present(d)')
  BY DEF SameFiles, Present
<1>1. ASSUME NEW s \in Slots, NEW c, Starts(s, c) PROVE FilesSound'
  <2>1. /\ \A r \in Slots : r # s => call'[r] = call[r]
        /\ ~Pending(s)' /\ ~Doing(s, "set")
    BY <1>1, PendingStarts
  <2>2. UNCHANGED <<doc, disk, erasing, stored>> /\ past'.torn = past.torn
    BY <1>1, StartPast DEF Starts
  <2>3. QED
    BY <1>a, <1>b, <2>1, <2>2 DEF Setting
<1>2. ASSUME NEW s \in Slots,
             \/ Insert(s) \/ Update(s) \/ SetStatus(s)
             \/ Share(s) \/ UpdateAccessCount(s) \/ Serve(s) \/ EndLink(s)
      PROVE  FilesSound'
  <2>1. Moves(s, call[s].file, call[s].status) /\ Base
    BY <1>2, StepActs
  <2>2. ~Doing(s, "set") /\ ~Doing(s, "replace") /\ ~Doing(s, "store")
    BY <1>2 DEF Insert, Update, SetStatus, Share, UpdateAccessCount, Serve, EndLink, Doing
  <2>3. (\A r \in Slots : r # s => call'[r] = call[r]) /\ ~Pending(s)'
    BY <2>1, <2>2, PendingMoves
  <2>4. UNCHANGED <<disk, erasing, stored>>
    BY <1>2 DEF Insert, Update, SetStatus, Share, UpdateAccessCount, Serve, EndLink
  <2>5. past'.torn = past.torn
    <3>1. CASE SetStatus(s) \/ Serve(s)
      BY <3>1, SetStatusPast, ServePast
    <3>2. CASE ~(SetStatus(s) \/ Serve(s))
      BY <1>2, <3>2 DEF Insert, Update, Share, UpdateAccessCount, EndLink
    <3>3. QED
      BY <3>1, <3>2
  <2>6. \A d \in Docs : SameFiles(d) /\ (Present(d) => Present(d)')
    <3>1. CASE Insert(s)
      BY <3>1, InsertDocs DEF Present
    <3>2. CASE Update(s)
      BY <3>2, UpdateDocs DEF Present
    <3>3. CASE SetStatus(s)
      <4>1. "absent" \notin Status /\ "deleted" \notin Status
        BY DEF Status
      <4>2. QED
        BY <3>3, <4>1, SetStatusDocs DEF Present
    <3>4. CASE ~(Insert(s) \/ Update(s) \/ SetStatus(s))
      BY <1>2, <1>b, <3>4 DEF Share, UpdateAccessCount, Serve, EndLink
    <3>5. QED
      BY <3>1, <3>2, <3>3, <3>4
  <2>7. QED
    BY <1>a, <2>2, <2>3, <2>4, <2>5, <2>6 DEF Setting
<1>3. ASSUME NEW s \in Slots, Exists(s) PROVE FilesSound'
  <2>1. ~Doing(s, "set") /\ ~Doing(s, "replace") /\ ~Doing(s, "store")
    BY <1>3 DEF Exists, Doing
  <2>2. (\A r \in Slots : r # s => call'[r] = call[r]) /\ ~Pending(s)'
    BY <1>3, <2>1, ExistsActs, PendingMoves, PendingLeaves
  <2>3. UNCHANGED <<doc, disk, erasing, stored, past>>
    BY <1>3 DEF Exists
  <2>4. QED
    BY <1>a, <1>b, <2>1, <2>2, <2>3 DEF Setting
<1>4. ASSUME NEW s \in Slots, DocumentGone(s) PROVE FilesSound'
  <2>1. (\A r \in Slots : r # s => call'[r] = call[r]) /\ ~Pending(s)'
    BY <1>4, GoneActs, PendingLeaves
  <2>2. UNCHANGED <<doc, disk, erasing, stored, past>> /\ ~Present(call[s].doc)
    BY <1>4 DEF DocumentGone
  <2>3. \A d \in Docs, v \in Variant : Setting(s, d, v) => doc[d].file[v] = 0
    BY <1>0, <2>2 DEF Setting
  <2>4. QED
    BY <1>a, <1>b, <2>1, <2>2, <2>3
<1>5. ASSUME NEW s \in Slots, CallFails(s) PROVE FilesSound'
  <2>1. (\A r \in Slots : r # s => call'[r] = call[r]) /\ ~Pending(s)'
    BY <1>5, FailActs, PendingLeaves
  <2>2. UNCHANGED <<doc, disk, erasing, stored>>
    BY <1>5 DEF CallFails
  <2>3. past.torn \subseteq past'.torn /\ (Doing(s, "set") => call[s].doc \in past'.torn)
    BY <1>5, FailPast
  <2>4. \A d \in Docs, v \in Variant : Setting(s, d, v) => d \in past'.torn
    BY <2>3 DEF Setting
  <2>5. QED
    BY <1>a, <1>b, <2>1, <2>2, <2>3, <2>4
<1>6. ASSUME NEW f \in erasing, Erase(f) PROVE FilesSound'
  <2>1. UNCHANGED <<doc, call, stored, past>>
    BY <1>6 DEF Erase
  <2>2. disk' \subseteq disk /\ erasing' \subseteq erasing /\ Kept \subseteq Kept'
    BY <1>6 DEF Erase, Kept
  <2>3. \A r \in Slots : Pending(r)' => Pending(r) /\ call'[r].file = call[r].file
    BY <2>1, SamePending
  <2>4. \A r \in Slots, d \in Docs, v \in Variant : Setting(r, d, v) => Setting(r, d, v)'
    BY <2>1, SamePending
  <2>5. QED
    BY <1>0, <1>b, <2>1, <2>2, <2>3, <2>4, FilesGoOn
<1>7. ASSUME UNCHANGED <<doc, disk, erasing, call, stored, past>> PROVE FilesSound'
  <2>1. \A r \in Slots : Pending(r)' => Pending(r) /\ call'[r].file = call[r].file
    BY <1>7, SamePending
  <2>2. \A r \in Slots, d \in Docs, v \in Variant : Setting(r, d, v) => Setting(r, d, v)'
    BY <1>7, SamePending
  <2>3. QED
    BY <1>0, <1>7, <1>b, <2>1, <2>2, FilesGoOn DEF Kept
<1>8. QED
  BY <1>1, <1>2, <1>3, <1>4, <1>5, <1>6, <1>7, NextCases, UploadFiles, ReplaceFiles, SetFiles,
     DeleteFiles DEF TimePasses, vars
-----------------------------------------------------------------------------
(* The files that are left, and the store where calls are made one at a    *)
(* time.                                                                   *)
LeftSound(f) == f # 0 =>
    /\ f <= stored
    /\ \A d \in Docs, v \in Variant : doc[d].file[v] # f
    /\ \A s \in Slots : Pending(s) => call[s].file # f
Single == \A r, s \in Slots : Busy(r) /\ Busy(s) => r = s
Ready(s) == Doing(s, "store") \/ Pending(s) => Present(call[s].doc)
Replaced(s) == Doing(s, "set") => doc[call[s].doc].file[VariantOf(s)] \notin Kept
Seen(f) == f \in Named \/ f \in past.left \/ \E s \in Slots : Pending(s) /\ call[s].file = f
Shelf ==
    /\ \A s \in Slots : Replaced(s)
    /\ past.left \ {0} \subseteq Kept
    /\ \A f \in Kept : Seen(f)

LEMMA StoreParts ==
    StoreSound <=>
        /\ \A f \in past.left : LeftSound(f)
        /\ faults = 0 => past.torn = {}
        /\ setting.alone => Single /\ \A s \in Slots : Ready(s)
        /\ setting.alone /\ setting.inStore /\ faults = 0 => Shelf
BY DEF StoreSound, LeftSound, Single, Ready, Replaced, Seen, Shelf

LEMMA StorePartsNext ==
    ASSUME \A f \in past'.left : LeftSound(f)',
           faults' = 0 => past'.torn = {},
           setting'.alone => Single' /\ \A s \in Slots : Ready(s)',
           setting'.alone /\ setting'.inStore /\ faults' = 0 => Shelf'
    PROVE  StoreSound'
BY DEF StoreSound, LeftSound, Single, Ready, Replaced, Seen, Shelf

(* Who acts in a step.                                                     *)
LEMMA NextActs ==
    ASSUME Base, StoresBounded, [Next]_vars
    PROVE  /\ setting' = setting
           /\ \/ \E s \in Slots : \E c : Starts(s, c)
              \/ \E s \in Slots : Busy(s) /\ \A r \in Slots : r # s => call'[r] = call[r]
              \/ call' = call
<1>1. ASSUME NEW s \in Slots, NEW c, Starts(s, c) PROVE setting' = setting
  BY <1>1 DEF Starts
<1>2. ASSUME NEW s \in Slots,
             \/ Insert(s) \/ Update(s) \/ Exists(s) \/ UploadFile(s) \/ ReplaceFile(s)
             \/ SetFile(s) \/ SetStatus(s) \/ DocumentGone(s) \/ Delete(s)
             \/ Share(s) \/ UpdateAccessCount(s) \/ Serve(s) \/ EndLink(s)
             \/ CallFails(s)
      PROVE  /\ setting' = setting /\ Busy(s)
             /\ \A r \in Slots : r # s => call'[r] = call[r]
  <2>1. /\ setting' = setting /\ Busy(s)
        /\ Leaves(s) \/ \E f, status : Moves(s, f, status)
    BY <1>2, StepActs, ExistsActs, UploadActs, SetFileActs, GoneActs, FailActs
  <2>2. QED
    BY <2>1, PendingLeaves, PendingMoves
<1>3. ASSUME NEW f \in erasing, Erase(f) PROVE setting' = setting /\ call' = call
  BY <1>3 DEF Erase
<1>4. ASSUME NEW l \in DOMAIN links, TimePasses(l) PROVE setting' = setting /\ call' = call
  BY <1>4 DEF TimePasses
<1>5. CASE UNCHANGED vars
  BY <1>5 DEF vars
<1>6. QED
  BY <1>1, <1>2, <1>3, <1>4, <1>5, NextCases

LEMMA SingleStep ==
    ASSUME Base, StoresBounded, setting.alone, Single, [Next]_vars
    PROVE  Single'
<1>1. ASSUME NEW s \in Slots, NEW c, Starts(s, c) PROVE Single'
  <2>1. \A r \in Slots : r # s => ~Busy(r)'
    BY <1>1, PendingStarts, SamePending, Doer DEF Starts
  <2>2. QED
    BY <2>1 DEF Single
<1>2. ASSUME NEW s \in Slots, Busy(s), \A r \in Slots : r # s => call'[r] = call[r]
      PROVE  Single'
  <2>1. \A r \in Slots : r # s => ~Busy(r)'
    BY <1>2, SamePending DEF Single
  <2>2. QED
    BY <2>1 DEF Single
<1>3. CASE call' = call
  BY <1>3 DEF Single, Busy
<1>4. QED
  BY <1>1, <1>2, <1>3, NextActs

(* What the one call there is does.                                        *)
LEMMA ReadyStep ==
    ASSUME Base, StoresBounded, setting.alone, Single, \A s \in Slots : Ready(s), [Next]_vars
    PROVE  \A s \in Slots : Ready(s)'
<1>a. ASSUME NEW s \in Slots, Busy(s), \A r \in Slots : r # s => call'[r] = call[r], Ready(s)'
      PROVE  \A r \in Slots : Ready(r)'
  <2>1. \A r \in Slots : r # s => ~Busy(r)
    BY <1>a DEF Single
  <2>2. \A r \in Slots : r # s => \A do : ~Doing(r, do)'
    BY <1>a, <2>1, SamePending, Doer
  <2>3. \A r \in Slots : r # s => Ready(r)'
    BY <2>2 DEF Ready, Pending
  <2>4. QED
    BY <1>a, <2>3
<1>1. ASSUME NEW s \in Slots, NEW c, Starts(s, c) PROVE \A r \in Slots : Ready(r)'
  <2>1. /\ \A r \in Slots : r # s => call'[r] = call[r]
        /\ ~Pending(s)' /\ ~Doing(s, "store")'
    BY <1>1, PendingStarts
  <2>2. \A r \in Slots : ~Busy(r)
    BY <1>1, Doer DEF Starts
  <2>3. \A r \in Slots : r # s => \A do : ~Doing(r, do)'
    BY <2>1, <2>2, SamePending, Doer
  <2>4. QED
    BY <2>1, <2>3 DEF Ready, Pending
<1>2. ASSUME NEW s \in Slots,
             \/ Insert(s) \/ Update(s) \/ SetStatus(s) \/ Delete(s)
             \/ Share(s) \/ UpdateAccessCount(s) \/ Serve(s) \/ EndLink(s)
      PROVE  \A r \in Slots : Ready(r)'
  <2>1. Busy(s) /\ Moves(s, call[s].file, call[s].status)
    BY <1>2, StepActs
  <2>2. /\ ~Doing(s, "replace") /\ ~Doing(s, "store") /\ ~Doing(s, "exists")
    BY <1>2 DEF Insert, Update, SetStatus, Share, UpdateAccessCount, Serve, EndLink, Delete,
                Doing
  <2>3. (\A r \in Slots : r # s => call'[r] = call[r]) /\ Ready(s)'
    BY <2>1, <2>2, PendingMoves DEF Ready
  <2>4. QED
    BY <1>a, <2>1, <2>3
<1>3. ASSUME NEW s \in Slots, Exists(s) PROVE \A r \in Slots : Ready(r)'
  <2>1. Busy(s) /\ doc' = doc
    BY <1>3, ExistsActs DEF Exists
  <2>2. CASE Leaves(s)
    <3>1. (\A r \in Slots : r # s => call'[r] = call[r]) /\ Ready(s)'
      BY <2>2, PendingLeaves DEF Ready
    <3>2. QED
      BY <1>a, <2>1, <3>1
  <2>3. CASE Present(call[s].doc) /\ Moves(s, call[s].file, call[s].status)
    <3>1. /\ \A r \in Slots : r # s => call'[r] = call[r]
          /\ Doing(s, "store")' \/ Pending(s)' => call'[s].doc = call[s].doc
      BY <2>3, PendingMoves
    <3>2. Ready(s)'
      BY <2>1, <2>3, <3>1 DEF Ready, Present
    <3>3. QED
      BY <1>a, <2>1, <3>1, <3>2
  <2>4. QED
    BY <1>3, <2>2, <2>3, ExistsActs
<1>4. ASSUME NEW s \in Slots, UploadFile(s) \/ ReplaceFile(s) \/ SetFile(s)
      PROVE  \A r \in Slots : Ready(r)'
  <2>1. PICK f, status : Busy(s) /\ Moves(s, f, status)
    BY <1>4, UploadActs, StepActs, SetFileActs
  <2>2. /\ \A r \in Slots : r # s => call'[r] = call[r]
        /\ Doing(s, "store")' => Doing(s, "exists")
        /\ Pending(s)' => /\ call'[s].doc = call[s].doc
                          /\ Doing(s, "store") \/ Doing(s, "replace")
    BY <2>1, PendingMoves
  <2>3. Ready(s)'
    <3>1. CASE SetFile(s)
      BY <2>2, <3>1 DEF Ready, SetFile, Doing
    <3>2. CASE UploadFile(s) \/ ReplaceFile(s)
      <4>1. doc' = doc /\ ~Doing(s, "exists") /\ (Doing(s, "store") \/ Doing(s, "replace"))
        BY <3>2 DEF UploadFile, ReplaceFile, Doing
      <4>2. Present(call[s].doc)
        BY <4>1 DEF Ready, Pending
      <4>3. QED
        BY <2>2, <4>1, <4>2 DEF Ready, Present
    <3>3. QED
      BY <1>4, <3>1, <3>2
  <2>4. QED
    BY <1>a, <2>1, <2>2, <2>3
<1>5. ASSUME NEW s \in Slots, DocumentGone(s) \/ CallFails(s) PROVE \A r \in Slots : Ready(r)'
  <2>1. Busy(s) /\ Leaves(s)
    BY <1>5, GoneActs, FailActs
  <2>2. (\A r \in Slots : r # s => call'[r] = call[r]) /\ Ready(s)'
    BY <2>1, PendingLeaves DEF Ready
  <2>3. QED
    BY <1>a, <2>1, <2>2
<1>6. ASSUME UNCHANGED <<call, doc>> PROVE \A r \in Slots : Ready(r)'
  <2>1. ASSUME NEW r \in Slots PROVE Ready(r)'
    BY <1>6, SamePending DEF Ready, Present
  <2>2. QED
    BY <2>1
<1>7. QED
  BY <1>1, <1>2, <1>3, <1>4, <1>5, <1>6, NextCases DEF Erase, TimePasses, vars

(* A step that names, drops and holds no file.                             *)
Quiet ==
    /\ stored' = stored /\ past'.left = past.left /\ \A d \in Docs : SameFiles(d)
    /\ \A r \in Slots : Pending(r) \/ Pending(r)' => call'[r] = call[r]
    /\ setting.inStore => Kept' = Kept

LEMMA QuietSteps ==
    ASSUME Base, StoresBounded, [Next]_vars,
           \A s \in Slots : /\ ~UploadFile(s) /\ ~ReplaceFile(s) /\ ~SetFile(s) /\ ~Delete(s)
                            /\ ~CallFails(s) /\ ~(DocumentGone(s) /\ Pending(s))
    PROVE  Quiet
<1>1. ASSUME NEW s \in Slots, \A r \in Slots : r # s => call'[r] = call[r],
             ~Pending(s), ~Pending(s)', UNCHANGED <<stored, disk, erasing>>,
             past'.left = past.left, \A d \in Docs : SameFiles(d)
      PROVE  Quiet
  BY <1>1 DEF Quiet, Kept
<1>2. doc' = doc => \A d \in Docs : SameFiles(d)
  BY DEF SameFiles
<1>3. ASSUME NEW s \in Slots, NEW c, Starts(s, c) PROVE Quiet
  <2>1. /\ \A r \in Slots : r # s => call'[r] = call[r]
        /\ ~Pending(s) /\ ~Pending(s)'
    BY <1>3, PendingStarts
  <2>2. UNCHANGED <<doc, stored, disk, erasing>> /\ past'.left = past.left
    BY <1>3, StartPast DEF Starts
  <2>3. QED
    BY <1>1, <1>2, <2>1, <2>2
<1>4. ASSUME NEW s \in Slots,
             \/ Insert(s) \/ Update(s) \/ SetStatus(s)
             \/ Share(s) \/ UpdateAccessCount(s) \/ Serve(s) \/ EndLink(s)
      PROVE  Quiet
  <2>1. Moves(s, call[s].file, call[s].status)
    BY <1>4, StepActs
  <2>2. ~Doing(s, "set") /\ ~Doing(s, "replace") /\ ~Doing(s, "store")
    BY <1>4 DEF Insert, Update, SetStatus, Share, UpdateAccessCount, Serve, EndLink, Doing
  <2>3. (\A r \in Slots : r # s => call'[r] = call[r]) /\ ~Pending(s)' /\ ~Pending(s)
    BY <2>1, <2>2, PendingMoves DEF Pending
  <2>4. UNCHANGED <<disk, erasing, stored>>
    BY <1>4 DEF Insert, Update, SetStatus, Share, UpdateAccessCount, Serve, EndLink
  <2>5. past'.left = past.left
    <3>1. CASE SetStatus(s) \/ Serve(s)
      BY <3>1, SetStatusPast, ServePast
    <3>2. CASE ~(SetStatus(s) \/ Serve(s))
      BY <1>4, <3>2 DEF Insert, Update, Share, UpdateAccessCount, EndLink
    <3>3. QED
      BY <3>1, <3>2
  <2>6. \A d \in Docs : SameFiles(d)
    <3>1. CASE Insert(s) \/ Update(s) \/ SetStatus(s)
      BY <3>1, InsertDocs, UpdateDocs, SetStatusDocs
    <3>2. CASE ~(Insert(s) \/ Update(s) \/ SetStatus(s))
      BY <1>2, <1>4, <3>2 DEF Share, UpdateAccessCount, Serve, EndLink
    <3>3. QED
      BY <3>1, <3>2
  <2>7. QED
    BY <1>1, <2>3, <2>4, <2>5, <2>6
<1>5. ASSUME NEW s \in Slots, Exists(s) PROVE Quiet
  <2>1. ~Doing(s, "set") /\ ~Doing(s, "replace") /\ ~Doing(s, "store")
    BY <1>5 DEF Exists, Doing
  <2>2. (\A r \in Slots : r # s => call'[r] = call[r]) /\ ~Pending(s)' /\ ~Pending(s)
    BY <1>5, <2>1, ExistsActs, PendingMoves, PendingLeaves DEF Pending
  <2>3. QED
    BY <1>1, <1>2, <1>5, <2>2 DEF Exists
<1>6. ASSUME NEW s \in Slots, DocumentGone(s), ~Pending(s) PROVE Quiet
  <2>1. (\A r \in Slots : r # s => call'[r] = call[r]) /\ ~Pending(s)'
    BY <1>6, GoneActs, PendingLeaves
  <2>2. QED
    BY <1>1, <1>2, <1>6, <2>1 DEF DocumentGone
<1>7. ASSUME NEW f \in erasing, Erase(f) PROVE Quiet
  <2>1. UNCHANGED <<doc, call, stored, past>> /\ (setting.inStore => Kept' = Kept)
    BY <1>7 DEF Erase, Kept
  <2>2. QED
    BY <1>2, <2>1 DEF Quiet
<1>8. ASSUME UNCHANGED <<doc, call, stored, past, disk, erasing>> PROVE Quiet
  BY <1>2, <1>8 DEF Quiet, Kept
<1>9. QED
  BY <1>3, <1>4, <1>5, <1>6, <1>7, <1>8, NextCases DEF TimePasses, vars

(* The files of the documents that were deleted.                           *)
LEMMA LeftKept ==
    ASSUME Base, \A f \in past.left : LeftSound(f), past'.left = past.left,
           stored' \in Nat, stored <= stored',
           \A d \in Docs, v \in Variant :
                \/ doc'[d].file[v] = doc[d].file[v]
                \/ \E s \in Slots : Pending(s) /\ call[s].file = doc'[d].file[v],
           \A r \in Slots : Pending(r)' =>
                \/ Pending(r) /\ call'[r].file = call[r].file
                \/ call'[r].file > stored
    PROVE  \A f \in past'.left : LeftSound(f)'
<1>1. SUFFICES ASSUME NEW f \in past.left, f # 0 PROVE LeftSound(f)'
  BY DEF LeftSound
<1>2. f \in Nat /\ stored \in Nat /\ LeftSound(f)
  BY BaseFacts DEF Memory, File
<1>3. /\ f <= stored /\ \A d \in Docs, v \in Variant : doc[d].file[v] # f
      /\ \A s \in Slots : Pending(s) => call[s].file # f
  BY <1>1, <1>2 DEF LeftSound
<1>4. f <= stored'
  BY <1>2, <1>3
<1>5. \A d \in Docs, v \in Variant : doc'[d].file[v] # f
  BY <1>3
<1>6. ASSUME NEW r \in Slots, Pending(r)', call'[r].file = f PROVE FALSE
  <2>1. ~(f > stored)
    BY <1>2, <1>3
  <2>2. QED
    BY <1>3, <1>6, <2>1
<1>7. QED
  BY <1>4, <1>5, <1>6 DEF LeftSound

LEMMA LeftStep ==
    ASSUME Base, StoresBounded, FilesSound, \A f \in past.left : LeftSound(f), [Next]_vars
    PROVE  \A f \in past'.left : LeftSound(f)'
<1>0. stored \in Nat /\ stored <= stored
  BY BaseFacts
<1>1. CASE Quiet
  <2>1. /\ stored' = stored /\ past'.left = past.left
        /\ \A d \in Docs, v \in Variant : doc'[d].file[v] = doc[d].file[v]
        /\ \A r \in Slots : Pending(r)' => Pending(r) /\ call'[r].file = call[r].file
    BY <1>1, SamePending DEF Quiet, SameFiles
  <2>2. QED
    BY <1>0, <2>1, LeftKept
<1>2. ASSUME NEW s \in Slots, UploadFile(s) PROVE \A f \in past'.left : LeftSound(f)'
  <2>1. /\ Moves(s, stored + 1, call[s].status) /\ stored' = stored + 1
        /\ doc' = doc /\ past' = past
    BY <1>2, UploadActs DEF UploadFile
  <2>2. /\ \A r \in Slots : r # s => call'[r] = call[r]
        /\ Pending(s)' => call'[s].file = stored + 1
    BY <2>1, PendingMoves
  <2>3. stored' \in Nat /\ stored <= stored' /\ stored + 1 > stored
    BY <1>0, <2>1
  <2>4. \A r \in Slots : Pending(r)' =>
           (Pending(r) /\ call'[r].file = call[r].file) \/ call'[r].file > stored
    BY <2>2, <2>3, SamePending
  <2>5. QED
    BY <2>1, <2>3, <2>4, LeftKept
<1>3. ASSUME NEW s \in Slots, ReplaceFile(s) PROVE \A f \in past'.left : LeftSound(f)'
  <2>1. /\ Moves(s, call[s].file, call[s].status) /\ UNCHANGED <<doc, stored, past>>
        /\ Doing(s, "replace")
    BY <1>3, StepActs DEF ReplaceFile
  <2>2. \A r \in Slots : Pending(r)' => Pending(r) /\ call'[r].file = call[r].file
    BY <2>1, PendingMoves, SamePending DEF Pending
  <2>3. QED
    BY <1>0, <2>1, <2>2, LeftKept
<1>4. ASSUME NEW s \in Slots, SetFile(s) PROVE \A f \in past'.left : LeftSound(f)'
  <2>1. /\ Moves(s, call[s].file, doc[call[s].doc].status) /\ UNCHANGED <<stored, past>>
        /\ Doing(s, "set")
    BY <1>4, SetFileActs DEF SetFile
  <2>2. \A r \in Slots : Pending(r)' => Pending(r) /\ call'[r].file = call[r].file
    BY <2>1, PendingMoves, SamePending DEF Pending, Doing
  <2>3. Pending(s)
    BY <2>1 DEF Pending
  <2>4. PICK e \in Docs, w \in Variant :
           /\ \A d \in Docs : d # e => doc'[d] = doc[d]
           /\ doc'[e].file[w] = call[s].file
           /\ \A v \in Variant : v # w => doc'[e].file[v] = doc[e].file[v]
    BY <1>4, SetFileDocs
  <2>5. \A d \in Docs, v \in Variant :
           doc'[d].file[v] = doc[d].file[v] \/ call[s].file = doc'[d].file[v]
    BY <2>4
  <2>6. QED
    BY <1>0, <2>1, <2>2, <2>3, <2>5, LeftKept
<1>5. ASSUME NEW s \in Slots, Delete(s) PROVE \A f \in past'.left : LeftSound(f)'
  <2>1. /\ Moves(s, call[s].file, call[s].status) /\ stored' = stored /\ Doing(s, "delete")
        /\ past'.left = past.left \cup {doc[call[s].doc].file[v] : v \in Variant}
    BY <1>5, StepActs, DeletePast DEF Delete
  <2>2. \A r \in Slots : Pending(r)' => Pending(r) /\ call'[r].file = call[r].file
    BY <2>1, PendingMoves, SamePending DEF Doing
  <2>3. PICK e \in Docs : /\ e = call[s].doc /\ \A d \in Docs : d # e => doc'[d] = doc[d]
                          /\ \A v \in Variant : doc'[e].file[v] = 0
    BY <1>5, DeleteDocs
  <2>4. \A d \in Docs, v \in Variant :
           doc'[d].file[v] = 0 \/ (d # e /\ doc'[d].file[v] = doc[d].file[v])
    BY <2>3
  <2>5. ASSUME NEW f \in past.left, f # 0 PROVE LeftSound(f)'
    BY <2>1, <2>2, <2>4, <2>5 DEF LeftSound
  <2>6. ASSUME NEW v \in Variant, doc[e].file[v] # 0, NEW f, f = doc[e].file[v]
        PROVE  LeftSound(f)'
    <3>1. f \in 0..stored /\ stored \in Nat /\ Alone(e, v) /\ \A r \in Slots : PendingSound(r)
      BY <2>6, KnownFiles, FilesParts
    <3>2. f <= stored'
      BY <2>1, <3>1
    <3>3. \A d \in Docs, w \in Variant : doc'[d].file[w] # f
      BY <2>4, <2>6, <3>1 DEF Alone
    <3>4. \A r \in Slots : Pending(r)' => call'[r].file # f
      BY <2>2, <2>6, <3>1 DEF PendingSound
    <3>5. QED
      BY <3>2, <3>3, <3>4 DEF LeftSound
  <2>7. \A f \in past'.left : f = 0 \/ f \in past.left
                              \/ \E v \in Variant : f = doc[e].file[v]
    BY <2>1, <2>3
  <2>8. \A f : f = 0 => LeftSound(f)'
    BY DEF LeftSound
  <2>9. QED
    BY <2>5, <2>6, <2>7, <2>8
<1>6. ASSUME NEW s \in Slots, CallFails(s) \/ DocumentGone(s)
      PROVE  \A f \in past'.left : LeftSound(f)'
  <2>1. Leaves(s) /\ UNCHANGED <<doc, stored>> /\ past'.left = past.left
    BY <1>6, GoneActs, FailActs, FailPast DEF CallFails, DocumentGone
  <2>2. \A r \in Slots : Pending(r)' => Pending(r) /\ call'[r].file = call[r].file
    BY <2>1, PendingLeaves, SamePending
  <2>3. QED
    BY <1>0, <2>1, <2>2, LeftKept
<1>7. QED
  BY <1>1, <1>2, <1>3, <1>4, <1>5, <1>6, QuietSteps

LEMMA FaultsStep ==
    ASSUME Base, StoresBounded, [Next]_vars
    PROVE  \/ faults' = faults /\ past'.torn = past.torn
           \/ faults' # 0 /\ \E s \in Slots : CallFails(s)
<1>1. ASSUME NEW s \in Slots, NEW c, Starts(s, c)
      PROVE  faults' = faults /\ past'.torn = past.torn
  BY <1>1, StartPast DEF Starts
<1>2. ASSUME NEW s \in Slots,
             \/ Insert(s) \/ Update(s) \/ Exists(s) \/ UploadFile(s) \/ ReplaceFile(s)
             \/ SetFile(s) \/ SetStatus(s) \/ DocumentGone(s) \/ Delete(s)
             \/ Share(s) \/ UpdateAccessCount(s) \/ Serve(s) \/ EndLink(s)
      PROVE  faults' = faults /\ past'.torn = past.torn
  <2>1. faults' = faults
    BY <1>2, StepActs, ExistsActs, UploadActs, SetFileActs, GoneActs
  <2>2. CASE SetStatus(s) \/ Serve(s) \/ Delete(s)
    BY <2>1, <2>2, SetStatusPast, ServePast, DeletePast
  <2>3. CASE ~(SetStatus(s) \/ Serve(s) \/ Delete(s))
    BY <1>2, <2>1, <2>3 DEF Insert, Update, Exists, UploadFile, ReplaceFile, SetFile,
                            DocumentGone, Share, UpdateAccessCount, EndLink
  <2>4. QED
    BY <2>2, <2>3
<1>3. ASSUME NEW s \in Slots, CallFails(s) PROVE faults' # 0
  <2>1. faults' = faults + 1 /\ faults \in 0..MaxFaults /\ MaxFaults \in Nat
    BY <1>3, BaseFacts DEF CallFails
  <2>2. QED
    BY <2>1
<1>4. ASSUME UNCHANGED <<faults, past>> PROVE faults' = faults /\ past'.torn = past.torn
  BY <1>4
<1>5. QED
  BY <1>1, <1>2, <1>3, <1>4, NextCases DEF Erase, TimePasses, vars

LEMMA NamedFile ==
    ASSUME doc \in [Docs -> Document]
    PROVE  \A f : f \in Named <=> f # 0 /\ \E d \in Docs, v \in Variant : doc[d].file[v] = f
<1>1. \A d \in Docs, v \in Variant : doc[d].file[v] \in File
  BY RecordFields
<1>2. QED
  BY <1>1 DEF Named

LEMMA ShelfStep ==
    ASSUME Base, StoresBounded, FilesSound, StoreSound, [Next]_vars, doc' \in [Docs -> Document],
           setting.alone, setting.inStore, faults' = 0
    PROVE  Shelf'
<1>1. faults = 0 /\ past.torn = {} /\ ~\E s \in Slots : CallFails(s)
  <2>1. /\ faults \in 0..MaxFaults /\ MaxFaults \in Nat
    BY BaseFacts
  <2>2. ASSUME NEW s \in Slots, CallFails(s) PROVE FALSE
    BY <2>1, <2>2 DEF CallFails
  <2>3. QED
    BY <2>2, FaultsStep, StoreParts
<1>2. /\ \A f \in past.left : LeftSound(f)
      /\ Single /\ (\A s \in Slots : Ready(s)) /\ (\A s \in Slots : Replaced(s))
      /\ past.left \ {0} \subseteq Kept /\ \A f \in Kept : Seen(f)
  BY <1>1, StoreParts DEF Shelf
<1>3. /\ \A d \in Docs, v \in Variant : FileSound(d, v) /\ Alone(d, v)
      /\ \A s \in Slots : PendingSound(s)
      /\ 0 \notin disk /\ 0 \notin Kept
  BY FilesParts, BaseFacts DEF Kept
<1>4. /\ \A f : f \in Named <=> f # 0 /\ \E d \in Docs, v \in Variant : doc[d].file[v] = f
      /\ \A f : f \in Named' <=> f # 0 /\ \E d \in Docs, v \in Variant : doc'[d].file[v] = f
  <2>1. \A f : f \in Named <=> f # 0 /\ \E d \in Docs, v \in Variant : doc[d].file[v] = f
    BY NamedFile, BaseFacts
  <2>2. \A d \in Docs, v \in Variant : doc'[d].file[v] \in File
    BY RecordFields
  <2>3. \A f : f \in Named' <=> f # 0 /\ \E d \in Docs, v \in Variant : doc'[d].file[v] = f
    BY <2>2 DEF Named
  <2>4. QED
    BY <2>1, <2>3
(* The call that acts is the only one.                                     *)
<1>5. ASSUME NEW s \in Slots, Busy(s), \A r \in Slots : r # s => call'[r] = call[r]
      PROVE  \A r \in Slots : r # s =>
                ~Pending(r) /\ \A do : ~Doing(r, do) /\ ~Doing(r, do)'
  <2>1. \A r \in Slots : r # s => ~Busy(r)
    BY <1>2, <1>5 DEF Single
  <2>2. \A r \in Slots : r # s => \A do : ~Doing(r, do)
    BY <2>1, Doer
  <2>3. \A r \in Slots : r # s => \A do : ~Doing(r, do)'
    BY <1>5, <2>2, SamePending
  <2>4. QED
    BY <2>2, <2>3 DEF Pending
<1>6. CASE Quiet
  <2>1. /\ Kept' = Kept /\ past'.left = past.left /\ \A d \in Docs : SameFiles(d)
        /\ \A r \in Slots : Pending(r) \/ Pending(r)' => call'[r] = call[r]
    BY <1>6 DEF Quiet
  <2>2. ASSUME NEW r \in Slots, Doing(r, "set")' PROVE Replaced(r)'
    <3>1. call'[r] = call[r]
      BY <2>1, <2>2 DEF Pending
    <3>2. Doing(r, "set") /\ VariantOf(r)' = VariantOf(r)
      BY <2>2, <3>1, SamePending
    <3>3. call[r].doc \in Docs
      BY <3>2, Doer
    <3>4. doc'[call[r].doc].file = doc[call[r].doc].file
      BY <2>1, <3>3 DEF SameFiles
    <3>5. QED
      BY <1>2, <2>1, <3>1, <3>2, <3>4 DEF Replaced
  <2>3. \A r \in Slots : Replaced(r)'
    BY <2>2 DEF Replaced
  <2>4. ASSUME NEW f \in Kept PROVE Seen(f)'
    <3>1. Seen(f)
      BY <1>2
    <3>2. f \in Named => f \in Named'
      BY <1>4, <2>1 DEF SameFiles
    <3>3. \A r \in Slots : Pending(r) => Pending(r)' /\ call'[r].file = call[r].file
      BY <2>1, SamePending
    <3>4. QED
      BY <2>1, <3>1, <3>2, <3>3 DEF Seen
  <2>5. QED
    BY <1>2, <2>1, <2>3, <2>4 DEF Shelf
<1>7. ASSUME NEW s \in Slots, UploadFile(s) PROVE Shelf'
  <2>1. /\ Busy(s) /\ Moves(s, stored + 1, call[s].status) /\ Doing(s, "store")
        /\ disk' = disk \cup {stored + 1} /\ UNCHANGED <<doc, erasing, past>>
    BY <1>7, UploadActs DEF UploadFile
  <2>2. /\ \A r \in Slots : r # s => call'[r] = call[r]
        /\ Pending(s)' /\ call'[s].file = stored + 1
        /\ ~Doing(s, "set")'
    BY <2>1, PendingMoves DEF Doing
  <2>3. \A r \in Slots : Replaced(r)'
    BY <1>5, <2>1, <2>2 DEF Replaced
  <2>4. \A f \in Kept' : f \in Kept \/ f = stored + 1
    BY <2>1 DEF Kept
  <2>5. ~Pending(s)
    BY <2>1 DEF Pending, Doing
  <2>6. ASSUME NEW f \in Kept PROVE Seen(f)'
    <3>1. Seen(f) /\ Named' = Named
      BY <1>2, <2>1 DEF Named
    <3>2. \A r \in Slots : ~Pending(r)
      BY <1>5, <2>1, <2>2, <2>5
    <3>3. QED
      BY <2>1, <3>1, <3>2 DEF Seen
  <2>7. ASSUME NEW f, f = stored + 1 PROVE Seen(f)'
    BY <2>2, <2>7 DEF Seen
  <2>8. past'.left \ {0} \subseteq Kept'
    <3>1. stored + 1 \notin erasing
      <4>1. stored \in Nat /\ erasing \subseteq 1..stored
        BY BaseFacts DEF FilesSound
      <4>2. QED
        BY <4>1
    <3>2. Kept \subseteq Kept'
      BY <2>1, <3>1 DEF Kept
    <3>3. QED
      BY <1>2, <2>1, <3>2
  <2>9. QED
    BY <2>3, <2>4, <2>6, <2>7, <2>8 DEF Shelf
<1>8. ASSUME NEW s \in Slots, ReplaceFile(s) PROVE Shelf'
  <2>0. call[s].doc \in Docs /\ VariantOf(s) \in Variant
    BY <1>8, ReplaceErasing
  <2>e. PICK e \in Docs, w \in Variant : e = call[s].doc /\ w = VariantOf(s)
    BY <2>0
  <2>1. /\ Busy(s) /\ Moves(s, call[s].file, call[s].status) /\ Doing(s, "replace")
        /\ UNCHANGED <<doc, disk, past>>
    BY <1>8, StepActs DEF ReplaceFile
  <2>2. /\ \A r \in Slots : r # s => call'[r] = call[r]
        /\ Doing(s, "set")' /\ call'[s].doc = e /\ VariantOf(s)' = w
        /\ Pending(s)' /\ call'[s].file = call[s].file
    BY <2>1, <2>e, PendingMoves DEF Pending
  <2>3. Pending(s) /\ Present(e)
    BY <1>2, <2>1, <2>e DEF Ready, Pending
  <2>4. /\ doc[e].file[w] # 0 => erasing' = erasing \cup {doc[e].file[w]}
        /\ doc[e].file[w] = 0 => erasing' = erasing
    BY <1>8, <2>e, <2>3, ReplaceErasing
  <2>5. doc[e].file[w] \notin Kept' /\ Kept' \subseteq Kept
        /\ \A g \in Kept : g # doc[e].file[w] => g \in Kept'
    BY <1>3, <2>1, <2>4 DEF Kept
  <2>6. Replaced(s)'
    BY <2>1, <2>2, <2>5 DEF Replaced
  <2>7. \A r \in Slots : Replaced(r)'
    BY <1>5, <2>1, <2>2, <2>6 DEF Replaced
  <2>8. past'.left \ {0} \subseteq Kept'
    BY <1>2, <2>1, <2>5 DEF LeftSound
  <2>9. ASSUME NEW f \in Kept' PROVE Seen(f)'
    <3>1. Seen(f) /\ Named' = Named
      BY <1>2, <2>1, <2>5 DEF Named
    <3>2. \A r \in Slots : Pending(r) => r = s
      BY <1>5, <2>1, <2>2
    <3>3. QED
      BY <2>1, <2>2, <3>1, <3>2 DEF Seen
  <2>10. QED
    BY <2>7, <2>8, <2>9 DEF Shelf
<1>9. ASSUME NEW s \in Slots, SetFile(s) PROVE Shelf'
  <2>0. call[s].doc \in Docs /\ VariantOf(s) \in Variant
    BY <1>9, SetFileDocs
  <2>e. PICK e \in Docs, w \in Variant : e = call[s].doc /\ w = VariantOf(s)
    BY <2>0
  <2>1. /\ Busy(s) /\ Moves(s, call[s].file, doc[e].status) /\ Doing(s, "set")
        /\ UNCHANGED <<disk, erasing, past>>
    BY <1>9, <2>e, SetFileActs DEF SetFile
  <2>2. /\ \A r \in Slots : r # s => call'[r] = call[r]
        /\ ~Doing(s, "set")'
    BY <2>1, PendingMoves DEF Doing
  <2>3. /\ \A d \in Docs : d # e => doc'[d] = doc[d]
        /\ doc'[e].file[w] = call[s].file
        /\ \A v \in Variant : v # w => doc'[e].file[v] = doc[e].file[v]
    BY <1>9, <2>e, SetFileDocs
  <2>4. Pending(s) /\ doc[e].file[w] \notin Kept /\ Kept' = Kept
    BY <1>2, <2>1, <2>e DEF Pending, Replaced, Kept
  <2>5. \A r \in Slots : Replaced(r)'
    BY <1>5, <2>1, <2>2 DEF Replaced
  <2>6. ASSUME NEW f \in Kept PROVE Seen(f)'
    <3>1. Seen(f) /\ f # 0
      BY <1>2, <1>3
    <3>2. ASSUME f \in Named PROVE f \in Named'
      BY <1>4, <2>3, <2>4, <3>2
    <3>3. ASSUME NEW r \in Slots, Pending(r), call[r].file = f PROVE f \in Named'
      <4>1. r = s
        BY <1>5, <2>1, <2>2, <3>3
      <4>2. QED
        BY <1>4, <2>3, <3>1, <3>3, <4>1
    <3>4. QED
      BY <2>1, <3>1, <3>2, <3>3 DEF Seen
  <2>7. QED
    BY <1>2, <2>1, <2>4, <2>5, <2>6 DEF Shelf
<1>10. ASSUME NEW s \in Slots, Delete(s) PROVE Shelf'
  <2>1. /\ Busy(s) /\ Moves(s, call[s].file, call[s].status) /\ Doing(s, "delete")
        /\ UNCHANGED <<disk, erasing>>
    BY <1>10, StepActs DEF Delete
  <2>2. PICK e \in Docs : /\ e = call[s].doc /\ \A d \in Docs : d # e => doc'[d] = doc[d]
                          /\ \A v \in Variant : doc'[e].file[v] = 0
    BY <1>10, DeleteDocs
  <2>3. past'.left = past.left \cup {doc[e].file[v] : v \in Variant}
    BY <1>10, <2>2, DeletePast
  <2>4. /\ \A r \in Slots : r # s => call'[r] = call[r]
        /\ ~Doing(s, "set")' /\ ~Doing(s, "set") /\ ~Pending(s)
    BY <2>1, PendingMoves DEF Doing, Pending
  <2>5. \A r \in Slots : ~Doing(r, "set")' /\ ~Doing(r, "set") /\ ~Pending(r)
    BY <1>5, <2>1, <2>4
  <2>6. Kept' = Kept
    BY <2>1 DEF Kept
  <2>7. \A v \in Variant : doc[e].file[v] = 0 \/ doc[e].file[v] \in Kept
    BY <1>1, <1>3, <2>5 DEF FileSound, Stored, Setting
  <2>8. past'.left \ {0} \subseteq Kept'
    BY <1>2, <2>3, <2>6, <2>7
  <2>9. ASSUME NEW f \in Kept PROVE Seen(f)'
    <3>1. Seen(f)
      BY <1>2
    <3>2. f \in Named => f \in Named' \/ f \in past'.left
      BY <1>4, <2>2, <2>3
    <3>3. QED
      BY <2>3, <2>5, <3>1, <3>2 DEF Seen
  <2>10. QED
    BY <2>5, <2>6, <2>8, <2>9 DEF Shelf, Replaced
<1>11. ASSUME NEW s \in Slots, DocumentGone(s), Pending(s) PROVE Shelf'
  BY <1>2, <1>11 DEF Ready, DocumentGone
<1>12. QED
  BY <1>1, <1>6, <1>7, <1>8, <1>9, <1>10, <1>11, QuietSteps

LEMMA StoreStep ==
    ASSUME Base, StoresBounded, FilesSound, StoreSound, [Next]_vars, Base'
    PROVE  StoreSound'
<1>1. /\ \A f \in past.left : LeftSound(f)
      /\ faults = 0 => past.torn = {}
      /\ setting.alone => Single /\ \A s \in Slots : Ready(s)
  BY StoreParts
<1>2. setting' = setting /\ doc' \in [Docs -> Document]
  BY NextActs DEF Base
<1>3. \A f \in past'.left : LeftSound(f)'
  BY <1>1, LeftStep
<1>4. faults' = 0 => past'.torn = {}
  BY <1>1, FaultsStep
<1>5. setting.alone => Single' /\ \A s \in Slots : Ready(s)'
  BY <1>1, SingleStep, ReadyStep
<1>6. setting.alone /\ setting.inStore /\ faults' = 0 => Shelf'
  BY <1>2, ShelfStep
<1>7. QED
  BY <1>2, <1>3, <1>4, <1>5, <1>6, StorePartsNext
-----------------------------------------------------------------------------
(* The documents that were issued.                                         *)
SameRecord(d) ==
    /\ doc'[d].status = doc[d].status /\ doc'[d].type = doc[d].type
    /\ doc'[d].content = doc[d].content /\ doc'[d].claimants = doc[d].claimants
SameContent(d) ==
    /\ doc'[d].type = doc[d].type
    /\ doc'[d].content = doc[d].content /\ doc'[d].claimants = doc[d].claimants
OnDoc(s, d) == Busy(s) /\ call[s].doc = d
IsIssued(d) == doc[d].status = "Issued" /\ HasContent(d)

LEMMA ContentKept ==
    ASSUME NEW d, SameContent(d)
    PROVE  HasContent(d)' <=> HasContent(d)
BY DEF SameContent, HasContent, Transferable

LEMMA DocParts ==
    ASSUME NEW d
    PROVE  DocSound(d) <=>
              /\ \A r, s \in Slots : OnDoc(r, d) /\ OnDoc(s, d) => r = s
              /\ d \in past.issued => IsIssued(d)
              /\ \A s \in Slots : OnDoc(s, d) => CallKeeps(s)
BY DEF DocSound, OnDoc, IsIssued

LEMMA DocPartsNext ==
    ASSUME NEW d, \A r, s \in Slots : OnDoc(r, d)' /\ OnDoc(s, d)' => r = s,
           d \in past'.issued => IsIssued(d)',
           \A s \in Slots : OnDoc(s, d)' => CallKeeps(s)'
    PROVE  DocSound(d)'
BY DEF DocSound, OnDoc, IsIssued

(* A step of a call on another document.                                   *)
LEMMA OtherDoc ==
    ASSUME NEW d, DocSound(d), NEW s \in Slots,
           \A r \in Slots : r # s => call'[r] = call[r], ~OnDoc(s, d)',
           doc'[d] = doc[d], d \in past'.issued => d \in past.issued
    PROVE  DocSound(d)'
<1>1. /\ \A r, q \in Slots : OnDoc(r, d) /\ OnDoc(q, d) => r = q
      /\ d \in past.issued => IsIssued(d)
      /\ \A r \in Slots : OnDoc(r, d) => CallKeeps(r)
  BY DocParts
<1>2. \A r \in Slots : OnDoc(r, d)' => r # s /\ call'[r] = call[r] /\ OnDoc(r, d)
  BY DEF OnDoc, Busy
<1>3. HasContent(d)' <=> HasContent(d)
  BY ContentKept DEF SameContent
<1>4. d \in past'.issued => IsIssued(d)'
  BY <1>1, <1>3 DEF IsIssued
<1>5. ASSUME NEW r \in Slots, OnDoc(r, d)' PROVE CallKeeps(r)'
  <2>1. call'[r] = call[r] /\ call[r].doc = d /\ CallKeeps(r)
    BY <1>1, <1>2, <1>5 DEF OnDoc
  <2>2. \A do : Doing(r, do)' <=> Doing(r, do)
    BY <2>1, SamePending
  <2>3. doc'[call'[r].doc] = doc[call[r].doc]
    BY <2>1
  <2>4. QED
    BY <2>1, <2>2, <2>3 DEF CallKeeps, HasContent, Transferable
<1>6. QED
  BY <1>1, <1>2, <1>4, <1>5, DocPartsNext

(* A step of the only call on the document.                                *)
LEMMA OwnDoc ==
    ASSUME NEW d, DocSound(d), NEW s \in Slots, OnDoc(s, d),
           \A r \in Slots : r # s => call'[r] = call[r],
           d \in past'.issued => IsIssued(d)', OnDoc(s, d)' => CallKeeps(s)'
    PROVE  DocSound(d)'
<1>1. \A r \in Slots : OnDoc(r, d) => r = s
  BY DocParts
<1>2. \A r \in Slots : OnDoc(r, d)' => r = s
  BY <1>1 DEF OnDoc, Busy
<1>3. QED
  BY <1>2, DocPartsNext

LEMMA KeepsMoves ==
    ASSUME Base, NEW s \in Slots, NEW f, NEW status, Moves(s, f, status), NEW d,
           call[s].doc = d, Busy(s)',
           call[s].op = "issue" => HasContent(d)' /\ doc'[d].status = "Processing",
           Doing(s, "set") => status = doc'[d].status
    PROVE  CallKeeps(s)'
<1>1. /\ ~Doing(s, "insert")' /\ ~Doing(s, "processing")'
      /\ Doing(s, "restore")' => Doing(s, "set") /\ call'[s].status = status
      /\ call'[s].doc = d /\ call'[s].op = call[s].op
  BY PendingMoves
<1>2. call[s].op \notin {"update", "delete"}
  <2>1. /\ Busy(s) /\ CallSound(call[s]) /\ call[s].op # "none" /\ call[s].todo # <<>>
    BY Doer DEF Moves, Leaves, Goes, Busy
  <2>2. Fits(call[s].op, Head(call[s].todo), Len(call[s].todo))
    BY <2>1, Planned
  <2>3. Len(call[s].todo) # 1
    BY PendingLeaves DEF Moves, Goes
  <2>4. QED
    BY <2>2, <2>3 DEF Fits
<1>3. QED
  BY <1>1, <1>2 DEF CallKeeps, HasContent, Transferable

(* What the plan of a call says about its operation.                       *)
LEMMA Operations ==
    ASSUME Base, NEW s \in Slots, Busy(s)
    PROVE  /\ Doing(s, "insert") => call[s].op \in {"create", "create_from_file"}
           /\ Doing(s, "update") => call[s].op = "update"
           /\ Doing(s, "delete") => call[s].op = "delete"
           /\ Doing(s, "processing") => call[s].op = "issue"
           /\ Doing(s, "issued") => call[s].op = "issue" /\ Len(call[s].todo) = 1
<1>1. CallSound(call[s]) /\ call[s].op # "none" /\ call[s].todo # <<>>
  BY Doer DEF Busy
<1>2. Fits(call[s].op, Head(call[s].todo), Len(call[s].todo))
  BY <1>1, Planned
<1>3. QED
  BY <1>2 DEF Fits, Doing

LEMMA OwnSame ==
    ASSUME Base, NEW d \in Docs, DocSound(d), NEW s \in Slots, OnDoc(s, d),
           \/ Leaves(s)
           \/ \E f, status : /\ Moves(s, f, status)
                             /\ Doing(s, "set") => status = doc[d].status,
           ~Doing(s, "processing"), SameRecord(d), past'.issued = past.issued
    PROVE  DocSound(d)'
<1>1. (d \in past.issued => IsIssued(d)) /\ CallKeeps(s)
  BY DocParts
<1>2. call[s].doc = d
  BY DEF OnDoc
<1>3. doc'[d].status = doc[d].status /\ (HasContent(d)' <=> HasContent(d))
  BY ContentKept DEF SameRecord, SameContent
<1>4. d \in past'.issued => IsIssued(d)'
  BY <1>1, <1>3 DEF IsIssued
<1>5. call[s].op = "issue" => HasContent(d)' /\ doc'[d].status = "Processing"
  BY <1>1, <1>2, <1>3 DEF CallKeeps
<1>6. CASE Leaves(s)
  <2>1. (\A r \in Slots : r # s => call'[r] = call[r]) /\ ~OnDoc(s, d)'
    BY <1>6, PendingLeaves DEF OnDoc
  <2>2. QED
    BY <1>4, <2>1, OwnDoc
<1>7. ASSUME NEW f, NEW status, Moves(s, f, status), Doing(s, "set") => status = doc[d].status
      PROVE  DocSound(d)'
  <2>1. \A r \in Slots : r # s => call'[r] = call[r]
    BY <1>7, PendingMoves
  <2>2. OnDoc(s, d)' => CallKeeps(s)'
    BY <1>2, <1>3, <1>5, <1>7, KeepsMoves DEF OnDoc
  <2>3. QED
    BY <1>4, <2>1, <2>2, OwnDoc
<1>8. QED
  BY <1>6, <1>7

LEMMA StartDocs ==
    ASSUME Base, NEW s \in Slots, NEW c, Starts(s, c), NEW d \in Docs, d \notin past'.overlapped,
           d \notin past.overlapped => DocSound(d)
    PROVE  DocSound(d)'
<1>1. /\ doc' = doc /\ call[s] = Idle
      /\ past'.issued = past.issued /\ past.overlapped \subseteq past'.overlapped
      /\ (\E r \in Slots : Busy(r) /\ call[r].doc = c.doc) => c.doc \in past'.overlapped
  BY StartPast DEF Starts
<1>2. /\ \A r \in Slots : r # s => call'[r] = call[r]
      /\ call'[s] = c /\ ~Busy(s) /\ ~Doing(s, "restore")'
  BY PendingStarts
<1>3. DocSound(d)
  BY <1>1
<1>4. CASE c.doc # d
  BY <1>1, <1>2, <1>3, <1>4, OtherDoc DEF OnDoc
<1>5. CASE c.doc = d
  <2>1. \A r \in Slots : ~OnDoc(r, d)
    BY <1>1, <1>5 DEF OnDoc
  <2>2. \A r \in Slots : OnDoc(r, d)' => r = s
    BY <1>2, <2>1 DEF OnDoc, Busy
  <2>3. d \in past'.issued => IsIssued(d)'
    BY <1>1, <1>3, DocParts DEF IsIssued, HasContent, Transferable
  <2>4. /\ Head(c.todo).do = "insert" => doc[d].status = "absent"
        /\ c.op \in {"update", "delete"} => doc[d].status = "In_Progress"
        /\ c.op = "issue" => /\ doc[d].status = "In_Progress" /\ HasContent(d)
                             /\ Head(c.todo).do = "processing"
    BY <1>5 DEF Starts, Opens, Unused, IsReadyToIssue
  <2>5. c.todo # <<>>
    BY Planned DEF Starts
  <2>6. \A do : Doing(s, do)' <=> Head(c.todo).do = do
    BY <1>2, <2>5 DEF Doing
  <2>7. CallKeeps(s)'
    BY <1>1, <1>2, <1>5, <2>4, <2>6 DEF CallKeeps, HasContent, Transferable
  <2>8. QED
    BY <2>2, <2>3, <2>7, DocPartsNext
<1>6. QED
  BY <1>4, <1>5

LEMMA InsertOwn ==
    ASSUME Base, NEW s \in Slots, Insert(s), NEW d \in Docs, OnDoc(s, d), DocSound(d)
    PROVE  DocSound(d)'
<1>1. /\ Busy(s) /\ Moves(s, call[s].file, call[s].status) /\ Doing(s, "insert")
      /\ past' = past /\ call[s].doc = d
  BY StepActs DEF Insert, OnDoc
<1>2. (d \in past.issued => IsIssued(d)) /\ CallKeeps(s)
  BY DocParts
<1>3. d \notin past'.issued
  BY <1>1, <1>2 DEF CallKeeps, IsIssued
<1>4. call[s].op # "issue" /\ ~Doing(s, "set")
  BY <1>1, Operations DEF Doing
<1>5. OnDoc(s, d)' => CallKeeps(s)'
  BY <1>1, <1>4, KeepsMoves DEF OnDoc
<1>6. \A r \in Slots : r # s => call'[r] = call[r]
  BY <1>1, PendingMoves
<1>7. QED
  BY <1>3, <1>5, <1>6, OwnDoc

LEMMA UpdateOwn ==
    ASSUME Base, NEW s \in Slots, Update(s) \/ Delete(s), NEW d \in Docs, OnDoc(s, d), DocSound(d)
    PROVE  DocSound(d)'
<1>1. /\ Busy(s) /\ Moves(s, call[s].file, call[s].status) /\ call[s].doc = d
      /\ Doing(s, "update") \/ Doing(s, "delete")
  BY StepActs DEF Update, Delete, OnDoc
<1>2. (d \in past.issued => IsIssued(d)) /\ CallKeeps(s)
  BY DocParts
<1>3. call[s].op \in {"update", "delete"} /\ ~Doing(s, "set")
  BY <1>1, Operations DEF Doing
<1>4. past'.issued = past.issued
  BY DeletePast DEF Update
<1>5. d \notin past'.issued
  BY <1>1, <1>2, <1>3, <1>4 DEF CallKeeps, IsIssued
<1>6. OnDoc(s, d)' => CallKeeps(s)'
  BY <1>1, <1>3, KeepsMoves DEF OnDoc
<1>7. \A r \in Slots : r # s => call'[r] = call[r]
  BY <1>1, PendingMoves
<1>8. QED
  BY <1>5, <1>6, <1>7, OwnDoc

LEMMA SetStatusOwn ==
    ASSUME Base, NEW s \in Slots, SetStatus(s), NEW d \in Docs, OnDoc(s, d), DocSound(d)
    PROVE  DocSound(d)'
<1>1. /\ Busy(s) /\ Moves(s, call[s].file, call[s].status) /\ call[s].doc = d
      /\ Doing(s, "restore") \/ Doing(s, "processing") \/ Doing(s, "issued")
  BY StepActs DEF SetStatus, OnDoc
<1>2. (d \in past.issued => IsIssued(d)) /\ CallKeeps(s) /\ ~Doing(s, "set")
  BY <1>1, DocParts DEF Doing
<1>3. /\ SameContent(d) /\ doc'[d].status = NewStatus(s)
      /\ past'.issued = IF Doing(s, "issued") THEN past.issued \cup {d} ELSE past.issued
  BY <1>1, SetStatusDocs, SetStatusPast DEF SameContent
<1>4. HasContent(d)' <=> HasContent(d)
  BY <1>3, ContentKept
<1>5. \A r \in Slots : r # s => call'[r] = call[r]
  BY <1>1, PendingMoves
<1>6. CASE Doing(s, "restore")
  <2>1. NewStatus(s) = doc[d].status /\ ~Doing(s, "processing") /\ ~Doing(s, "issued")
    BY <1>1, <1>2, <1>6 DEF CallKeeps, NewStatus, Doing
  <2>2. SameRecord(d) /\ past'.issued = past.issued
    BY <1>3, <2>1 DEF SameRecord, SameContent
  <2>3. QED
    BY <1>1, <1>2, <2>1, <2>2, OwnSame
<1>7. CASE Doing(s, "processing")
  <2>1. ~Doing(s, "restore") /\ ~Doing(s, "issued") /\ call[s].op = "issue"
    BY <1>1, <1>7, Operations DEF Doing
  <2>2. doc'[d].status = "Processing" /\ HasContent(d)' /\ d \notin past'.issued
    BY <1>1, <1>2, <1>3, <1>4, <1>7, <2>1 DEF CallKeeps, IsIssued, NewStatus
  <2>3. OnDoc(s, d)' => CallKeeps(s)'
    BY <1>1, <1>2, <2>2, KeepsMoves DEF OnDoc
  <2>4. QED
    BY <1>5, <2>2, <2>3, OwnDoc
<1>8. CASE Doing(s, "issued")
  <2>1. /\ ~Doing(s, "restore") /\ ~Doing(s, "processing")
        /\ call[s].op = "issue" /\ Len(call[s].todo) = 1
    BY <1>1, <1>8, Operations DEF Doing
  <2>2. IsIssued(d)'
    BY <1>1, <1>2, <1>3, <1>4, <2>1 DEF CallKeeps, IsIssued, NewStatus
  <2>3. ~OnDoc(s, d)'
    BY <1>1, <2>1, PendingLeaves DEF Moves, Goes, OnDoc
  <2>4. QED
    BY <1>5, <2>2, <2>3, OwnDoc
<1>9. QED
  BY <1>1, <1>6, <1>7, <1>8

LEMMA IssuedStep ==
    ASSUME Base, StoresBounded, IssuedSound, [Next]_vars
    PROVE  IssuedSound'
<1>1. ASSUME NEW s \in Slots, NEW c, Starts(s, c) PROVE IssuedSound'
  <2>1. \A d \in Docs : d \notin past.overlapped => DocSound(d)
    BY DEF IssuedSound
  <2>2. ASSUME NEW d \in Docs, d \notin past'.overlapped PROVE DocSound(d)'
    BY <1>1, <2>1, <2>2, StartDocs
  <2>3. QED
    BY <2>2 DEF IssuedSound
(* A step changes the record of its document only.                         *)
<1>2. ASSUME NEW s \in Slots,
             \/ Insert(s) \/ Update(s) \/ Exists(s) \/ UploadFile(s) \/ ReplaceFile(s)
             \/ SetFile(s) \/ SetStatus(s) \/ DocumentGone(s) \/ Delete(s)
             \/ Share(s) \/ UpdateAccessCount(s) \/ Serve(s) \/ EndLink(s)
             \/ CallFails(s),
             NEW d \in Docs, DocSound(d)
      PROVE  DocSound(d)'
  <2>1. /\ Busy(s) /\ (Leaves(s) \/ \E f, status : Moves(s, f, status))
        /\ Doing(s, "set") => \/ Leaves(s)
                              \/ \E f : Moves(s, f, doc[call[s].doc].status)
    <3>1. CASE SetFile(s)
      BY <3>1, SetFileActs
    <3>2. CASE DocumentGone(s) \/ CallFails(s)
      BY <3>2, GoneActs, FailActs
    <3>3. CASE ~(SetFile(s) \/ DocumentGone(s) \/ CallFails(s))
      <4>1. ~Doing(s, "set")
        BY <1>2, <3>3 DEF Insert, Update, Exists, UploadFile, ReplaceFile, SetStatus, Delete,
                          Share, UpdateAccessCount, Serve, EndLink, Doing
      <4>2. Busy(s) /\ (Leaves(s) \/ \E f, status : Moves(s, f, status))
        BY <1>2, <3>3, StepActs, ExistsActs, UploadActs
      <4>3. QED
        BY <4>1, <4>2
    <3>4. QED
      BY <3>1, <3>2, <3>3
  <2>2. /\ \A r \in Slots : r # s => call'[r] = call[r]
        /\ Busy(s)' => call'[s].doc = call[s].doc
    BY <2>1, PendingLeaves, PendingMoves
  <2>3. /\ call[s].doc # d => doc'[d] = doc[d]
        /\ Insert(s) \/ Update(s) \/ Delete(s) \/ SetStatus(s) \/ SameRecord(d)
    <3>1. CASE Insert(s) \/ Update(s) \/ Delete(s) \/ SetStatus(s)
      BY <3>1, InsertDocs, UpdateDocs, DeleteDocs, SetStatusDocs
    <3>2. CASE SetFile(s)
      BY <3>2, SetFileDocs DEF SameRecord
    <3>3. CASE ~(Insert(s) \/ Update(s) \/ Delete(s) \/ SetStatus(s) \/ SetFile(s))
      BY <1>2, <3>3 DEF Exists, UploadFile, ReplaceFile, DocumentGone, Share,
                        UpdateAccessCount, Serve, EndLink, CallFails, SameRecord
    <3>4. QED
      BY <3>1, <3>2, <3>3
  <2>4. /\ call[s].doc # d /\ d \in past'.issued => d \in past.issued
        /\ ~SetStatus(s) => past'.issued = past.issued
    <3>1. CASE SetStatus(s)
      <4>1. \/ past'.issued = past.issued
            \/ past'.issued = past.issued \cup {call[s].doc}
        BY <3>1, SetStatusPast
      <4>2. call[s].doc # d /\ d \in past'.issued => d \in past.issued
        BY <4>1
      <4>3. QED
        BY <3>1, <4>2
    <3>2. CASE Serve(s) \/ Delete(s) \/ CallFails(s)
      <4>1. past'.issued = past.issued
        BY <3>2, ServePast, DeletePast, FailPast
      <4>2. QED
        BY <4>1
    <3>3. CASE ~(SetStatus(s) \/ Serve(s) \/ Delete(s) \/ CallFails(s))
      BY <1>2, <3>3 DEF Insert, Update, Exists, UploadFile, ReplaceFile, SetFile,
                        DocumentGone, Share, UpdateAccessCount, EndLink
    <3>4. QED
      BY <3>1, <3>2, <3>3
  <2>5. CASE call[s].doc # d
    <3>1. ~OnDoc(s, d)'
      BY <2>2, <2>5 DEF OnDoc
    <3>2. QED
      BY <1>2, <2>2, <2>3, <2>4, <2>5, <3>1, OtherDoc
  <2>6. CASE call[s].doc = d
    <3>1. OnDoc(s, d)
      BY <2>1, <2>6 DEF OnDoc
    <3>2. CASE Insert(s) \/ Update(s) \/ Delete(s) \/ SetStatus(s)
      BY <1>2, <3>1, <3>2, InsertOwn, UpdateOwn, SetStatusOwn
    <3>3. CASE ~(Insert(s) \/ Update(s) \/ Delete(s) \/ SetStatus(s))
      <4>1. \/ Leaves(s)
            \/ \E f, status : /\ Moves(s, f, status)
                              /\ Doing(s, "set") => status = doc[d].status
        BY <2>1, <2>6
      <4>2. CASE Leaves(s)
        <5>1. IsIssued(d)' <=> IsIssued(d)
          BY <2>3, <3>3, ContentKept DEF SameRecord, SameContent, IsIssued
        <5>2. d \in past'.issued => IsIssued(d)'
          BY <1>2, <2>4, <3>3, <5>1, DocParts
        <5>3. ~OnDoc(s, d)'
          BY <4>2, PendingLeaves DEF OnDoc
        <5>4. QED
          BY <1>2, <2>2, <3>1, <5>2, <5>3, OwnDoc
      <4>3. CASE ~Leaves(s)
        <5>1. ~Doing(s, "processing")
          BY <1>2, <3>3, <4>3, GoneActs, FailActs
             DEF Exists, UploadFile, ReplaceFile, SetFile, Share, UpdateAccessCount, Serve,
                 EndLink, Doing
        <5>2. QED
          BY <1>2, <2>3, <2>4, <3>1, <3>3, <4>1, <5>1, OwnSame
      <4>4. QED
        BY <4>2, <4>3
    <3>4. QED
      BY <3>2, <3>3
  <2>7. QED
    BY <2>5, <2>6
<1>3. ASSUME NEW s \in Slots,
             \/ Insert(s) \/ Update(s) \/ Exists(s) \/ UploadFile(s) \/ ReplaceFile(s)
             \/ SetFile(s) \/ SetStatus(s) \/ DocumentGone(s) \/ Delete(s)
             \/ Share(s) \/ UpdateAccessCount(s) \/ Serve(s) \/ EndLink(s)
             \/ CallFails(s)
      PROVE  IssuedSound'
  <2>1. past'.overlapped = past.overlapped
    <3>1. CASE SetStatus(s) \/ Serve(s) \/ Delete(s) \/ CallFails(s)
      BY <3>1, SetStatusPast, ServePast, DeletePast, FailPast
    <3>2. CASE ~(SetStatus(s) \/ Serve(s) \/ Delete(s) \/ CallFails(s))
      BY <1>3, <3>2 DEF Insert, Update, Exists, UploadFile, ReplaceFile, SetFile,
                        DocumentGone, Share, UpdateAccessCount, EndLink
    <3>3. QED
      BY <3>1, <3>2
  <2>2. ASSUME NEW d \in Docs, d \notin past'.overlapped PROVE DocSound(d)'
    <3>1. DocSound(d)
      BY <2>1, <2>2 DEF IssuedSound
    <3>2. QED
      BY <1>2, <1>3, <3>1
  <2>3. QED
    BY <2>2 DEF IssuedSound
<1>4. ASSUME UNCHANGED <<doc, call, past>> PROVE IssuedSound'
  BY <1>4 DEF IssuedSound, DocSound, CallKeeps, HasContent, Transferable, Doing, Busy
<1>5. QED
  BY <1>1, <1>3, <1>4, NextCases DEF Erase, TimePasses, vars
-----------------------------------------------------------------------------
(* The invariant holds.                                                    *)

LEMMA FirstDocument ==
    ASSUME Init
    PROVE  /\ doc \in [Docs -> Document]
           /\ \A d \in Docs : d # First => doc[d] = Absent
           /\ doc[First].status = "In_Progress" /\ doc[First].file["original"] = 1
           /\ \A v \in Variant : v # "original" => doc[First].file[v] = 0
<1> DEFINE g == [Absent.file EXCEPT !["original"] = 1]
           x == [Absent EXCEPT !.status = "In_Progress", !.content = "invoice",
                               !.claimants = TRUE, !.file = g]
<1>1. /\ First \in Docs /\ "invoice" \in Types /\ 0 \in File /\ 1 \in File
  BY DocumentsAssumption DEF File
<1>2. /\ g \in [Variant -> File] /\ g["original"] = 1
      /\ \A v \in Variant : v # "original" => g[v] = 0
  BY <1>1 DEF Absent, Variant
<1>3. doc = [[d \in Docs |-> Absent] EXCEPT ![First] = x]
  BY DEF Init, Absent
<1> HIDE DEF g
<1>4. x \in Document /\ x.status = "In_Progress" /\ x.file = g
  BY <1>1, <1>2 DEF Document, Absent, Status
<1> HIDE DEF x
<1>5. /\ doc \in [Docs -> Document] /\ doc[First] = x
      /\ \A d \in Docs : d # First => doc[d] = Absent
  BY <1>1, <1>3, <1>4, AbsentDocument
<1>6. QED
  BY <1>2, <1>4, <1>5

LEMMA InitOK == Init => IInv
<1> SUFFICES ASSUME Init PROVE IInv
  OBVIOUS
<1>1. /\ call = [s \in Slots |-> Idle] /\ disk = {1} /\ erasing = {} /\ links = <<>>
      /\ begun = 0 /\ stored = 1 /\ faults = 0
      /\ past = [served |-> [l \in 1..MaxLinks |-> 0],
                 unserved |-> [l \in 1..MaxLinks |-> 0],
                 torn |-> {}, left |-> {}, issued |-> {}, overlapped |-> {}]
      /\ setting \in [group : Groups, alone : BOOLEAN, inStore : BOOLEAN]
  BY DEF Init
<1>2. \A s \in Slots : /\ call[s] = Idle /\ ~Busy(s) /\ ~Pending(s)
                       /\ \A do : ~Doing(s, do)
  BY <1>1, IdleCall DEF Busy, Pending, Doing
<1>3. /\ links \in Seq(Link) /\ Len(links) = 0 /\ DOMAIN links = {}
  BY <1>1
<1>4. Base
  <2>1. 0 \in 0..MaxCalls /\ 0 \in 0..MaxFaults /\ 1 \in File \ {0} /\ 0 <= MaxLinks
    BY DocumentsAssumption DEF File
  <2>2. past \in Memory
    BY <1>1 DEF Memory
  <2>3. \A s \in Slots : CallSound(call[s]) /\ call[s].link <= Len(links)
    BY <1>2, <1>3, IdleCall
  <2>4. call \in [Slots -> CallState]
    BY <1>1, IdleCall
  <2>5. QED
    BY <1>1, <1>3, <2>1, <2>2, <2>3, <2>4, FirstDocument DEF Base
<1>5. StoresBounded
  <2>1. One = {} /\ Two = {}
    BY <1>2, IdleCall DEF One, Two, StoresOne, StoresTwo
  <2>2. QED
    BY <1>1, <2>1, FS_EmptySet DEF StoresBounded
<1>6. LinksSound
  BY <1>1, <1>3 DEF LinksSound
<1>7. FilesSound
  <2>1. /\ \A d \in Docs : d # First => doc[d].status = "absent"
        /\ \A d \in Docs, v \in Variant :
              doc[d].file[v] = IF d = First /\ v = "original" THEN 1 ELSE 0
    BY FirstDocument, AbsentDocument
  <2>2. Present(First) /\ 1 \in Kept /\ 0 \in 0..stored /\ 1 \in 0..stored
    BY <1>1, FirstDocument DEF Present, Kept
  <2>3. disk \subseteq 1..stored /\ erasing \subseteq 1..stored
    BY <1>1
  <2>4. ASSUME NEW d \in Docs, NEW v \in Variant PROVE FileSound(d, v) /\ Alone(d, v)
    BY <2>1, <2>2 DEF FileSound, Alone, Stored
  <2>5. \A s \in Slots : PendingSound(s)
    BY <1>2 DEF PendingSound
  <2>6. QED
    BY <2>3, <2>4, <2>5, FilesParts
<1>8. StoreSound
  <2>1. past.left = {} /\ past.torn = {}
    BY <1>1
  <2>2. Single /\ \A s \in Slots : Ready(s)
    BY <1>2 DEF Single, Ready
  <2>3. Seen(1)
    <3>1. 1 \in Named
      BY FirstDocument, DocumentsAssumption, NamedFile DEF Variant
    <3>2. QED
      BY <3>1 DEF Seen
  <2>4. Shelf
    BY <1>1, <1>2, <2>1, <2>3 DEF Shelf, Kept, Replaced
  <2>5. QED
    BY <2>1, <2>2, <2>4, StoreParts
<1>9. IssuedSound
  BY <1>1, <1>2 DEF IssuedSound, DocSound
<1>10. QED
  BY <1>4, <1>5, <1>6, <1>7, <1>8, <1>9 DEF IInv

LEMMA StepOK == IInv /\ [Next]_vars => IInv'
<1> SUFFICES ASSUME IInv, [Next]_vars PROVE IInv'
  OBVIOUS
<1>1. Base /\ StoresBounded /\ LinksSound /\ FilesSound /\ StoreSound /\ IssuedSound
  BY DEF IInv
<1>2. Base'
  BY <1>1, BaseStep
<1>3. QED
  BY <1>1, <1>2, StoresStep, LinksStep, FilesStep, StoreStep, IssuedStep DEF IInv

LEMMA InvariantHolds == Spec => []IInv
BY InitOK, StepOK, PTL DEF Spec
-----------------------------------------------------------------------------
(* Whatever requests, failures and deletions there are, records, files,    *)
(* links and calls keep their types: a call stores two files at most, so   *)
(* that there are never more than the calls made account for, and no link  *)
(* counts more accesses than were asked for (TradeDocumentsService,        *)
(* LocalFileStorageService, ShareLinksService).                            *)
THEOREM TypeCorrect == Spec => []TypeOK
<1>1. IInv => TypeOK
  <2> SUFFICES ASSUME IInv PROVE TypeOK
    OBVIOUS
  <2>1. Base
    BY DEF IInv
  <2>2. ASSUME NEW s \in Slots
        PROVE  /\ call[s].doc \in Docs \cup {NoDoc} /\ call[s].link \in 0..Len(links)
               /\ call[s].email \in Address \cup {NoAddress}
               /\ call[s].file \in File /\ call[s].status \in Status
               /\ call[s].todo \in Seq(Steps)
    <3>1. call[s] \in CallState /\ call[s].link <= Len(links) /\ Len(links) \in Nat
      BY <2>1, LinkTypes, DocumentsAssumption DEF Base
    <3>2. call[s].link \in 0..Len(links)
      BY <3>1, DocumentsAssumption DEF CallState
    <3>3. QED
      BY <3>1, <3>2 DEF CallState
  <2>3. QED
    BY <2>1, <2>2 DEF TypeOK, Base
<1>2. QED
  BY InvariantHolds, <1>1, PTL

(* The files a document names are in the store, whatever uploads, flows    *)
(* and deletions of it overlap, unless a call that replaces one of them is *)
(* between the deletion and the record, or ended there                     *)
(* (updateTradeDocumentFileById).                                          *)
THEOREM FilesAreStored == Spec => []NamedFilesStored
<1>1. IInv => NamedFilesStored
  <2> SUFFICES ASSUME IInv, NEW d \in Docs, d \notin past.torn,
                      ~\E s \in Slots : Replacing(s, d)
               PROVE  NamedFiles(d) \subseteq disk
    BY DEF NamedFilesStored
  <2>1. \A v \in Variant : FileSound(d, v)
    BY FilesParts DEF IInv
  <2>2. \A v \in Variant : ~\E s \in Slots : Setting(s, d, v)
    BY DEF Setting, Replacing
  <2>3. \A v \in Variant : doc[d].file[v] = 0 \/ doc[d].file[v] \in disk
    BY <2>1, <2>2 DEF FileSound, Stored, Kept
  <2>4. QED
    BY <2>3 DEF NamedFiles
<1>2. QED
  BY InvariantHolds, <1>1, PTL

(* Where calls are made one at a time, nothing fails and the server runs   *)
(* in the upload directory, the store holds what documents name and what   *)
(* deleted documents named, and no more: every file that is replaced goes, *)
(* and no file that is deleted with its document does                      *)
(* (deleteDocumentById).                                                   *)
THEOREM NothingIsLost == Spec => []NothingLeftBehind
<1>1. IInv => NothingLeftBehind
  <2> SUFFICES ASSUME IInv, setting.alone, setting.inStore, faults = 0, erasing = {},
                      \A s \in Slots : call[s] = Idle
               PROVE  disk = (UNION {NamedFiles(d) : d \in Docs}) \cup (past.left \ {0})
    BY DEF NothingLeftBehind
  <2>1. Base /\ FilesSound /\ StoreSound
    BY DEF IInv
  <2>2. Kept = disk /\ \A s \in Slots : \A do : ~Doing(s, do)
    BY IdleCall DEF Kept, Doing
  <2>3. \A f \in disk : f \in Named \/ f \in past.left
    BY <2>1, <2>2, StoreParts DEF Shelf, Seen, Pending
  <2>4. past.left \ {0} \subseteq disk /\ past.torn = {} /\ 0 \notin disk
    BY <2>1, <2>2, StoreParts, BaseFacts DEF Shelf
  <2>5. \A d \in Docs, v \in Variant : doc[d].file[v] = 0 \/ doc[d].file[v] \in disk
    BY <2>1, <2>2, <2>4, FilesParts DEF FileSound, Stored, Setting
  <2>6. \A f : f \in Named <=> \E d \in Docs : f \in NamedFiles(d)
    BY <2>1, NamedFile, BaseFacts DEF NamedFiles
  <2>7. \A f : f \in Named => f \in disk
    BY <2>5, <2>6 DEF NamedFiles
  <2>8. \A f : f \in UNION {NamedFiles(d) : d \in Docs} <=> f \in Named
    BY <2>6
  <2> DEFINE u == UNION {NamedFiles(d) : d \in Docs}
  <2>9. \A f : f \in u <=> f \in Named
    BY <2>8
  <2> HIDE DEF u
  <2>10. disk = u \cup (past.left \ {0})
    <3>1. disk \subseteq u \cup (past.left \ {0})
      BY <2>3, <2>4, <2>9
    <3>2. u \cup (past.left \ {0}) \subseteq disk
      BY <2>4, <2>7, <2>9
    <3>3. QED
      BY <3>1, <3>2
  <2>11. QED
    BY <2>10 DEF u
<1>2. QED
  BY InvariantHolds, <1>1, PTL

(* A document that was issued stays issued, with the content and claimants *)
(* that issuing asked for, unless a call on it overlapped another          *)
(* (isReadyToIssue, documentIsUpdatable, documentIsDeletable).             *)
THEOREM IssuedStays == Spec => []IssuedIsKept
<1>1. IInv => IssuedIsKept
  <2>1. ASSUME IInv, NEW d \in past.issued \ past.overlapped PROVE IsIssued(d)
    <3>1. d \in Docs
      BY <2>1, BaseFacts DEF IInv, Memory
    <3>2. DocSound(d)
      BY <2>1, <3>1 DEF IInv, IssuedSound
    <3>3. QED
      BY <2>1, <3>2, DocParts
  <2>2. QED
    BY <2>1 DEF IssuedIsKept, IsIssued
<1>2. QED
  BY InvariantHolds, <1>1, PTL

(* Every access a link counts was served, found nothing to serve or is     *)
(* being served, however many are made at once and whatever fails          *)
(* (updateAccessCount, accessShareLink, accessShareLinkFile).              *)
THEOREM AccessesAreCounted == Spec => []AccessesAccounted
<1>1. IInv => AccessesAccounted
  BY DEF IInv, LinksSound, Accounted, AccessesAccounted, Serving
<1>2. QED
  BY InvariantHolds, <1>1, PTL
=============================================================================
