------------------------------ MODULE Documents ------------------------------
(***************************************************************************)
(* Trade documents, the files that belong to them, and the links by which  *)
(* they are shared: TradeDocumentsService, LocalFileStorageService and     *)
(* ShareLinksService.                                                      *)
(*                                                                         *)
(* A call is a request or job that is being served.  Begin does what comes *)
(* before its first write; each of the steps after that is one operation   *)
(* on the database or the disk, and those of other calls come between.     *)
(* Files are numbered in the order they are stored (the code draws uuids), *)
(* links in the order they are made.  A file is in the record of its       *)
(* document under one of three variants.  Requests that only read, and     *)
(* audit entries, have no action.  Of the issue flow there is what it does *)
(* to the record and the files; its jobs and the chain are in IssueFlow.   *)
(***************************************************************************)
EXTENDS Naturals, Sequences, FiniteSets

CONSTANTS
    Docs,       \* the documents there are or may be made
    First,      \* the one there is at first, an invoice In Progress with a file
    Types,      \* the types a document may be of
    Slots,      \* the calls served at the same time
    Groups,     \* the sets of operations looked at together, each with a bound:
                \* how many calls are made
    NoDoc,      \* not a document
    MaxCalls,   \* bound: calls made, in any group
    MaxLinks,   \* bound: links made
    MaxFaults   \* bound: operations that fail and processes that die

ASSUME DocumentsAssumption ==
    /\ IsFiniteSet(Docs) /\ First \in Docs /\ NoDoc \notin Docs
    /\ "invoice" \in Types /\ Types \subseteq {"invoice", "other", "bill_of_lading"}
    /\ IsFiniteSet(Slots)
    /\ MaxCalls \in Nat /\ \A g \in Groups : g.calls \in 0..MaxCalls
    /\ MaxLinks \in Nat /\ MaxFaults \in Nat

VARIABLES
    setting,    \* which operations are in use, whether calls are made one at a
                \* time, and whether the server runs in the upload directory
    doc,        \* doc[d]: the record of d in tradedocuments
    disk,       \* the files in the upload directory
    erasing,    \* the files whose deletion was called and not awaited
    links,      \* links[l]: the l-th record of sharelinks
    call,       \* call[s]: the call that slot s is serving
    begun,      \* how many calls were begun
    stored,     \* how many files were ever stored
    faults,     \* how many faults have happened
    past        \* what the properties remember of the past

vars == <<setting, doc, disk, erasing, links, call, begun, stored, faults, past>>

File == 0..(1 + 2 * MaxCalls)     \* 0: no file
Variant == {"original", "issued", "tradeTrust"}
Status == {"In_Progress", "Processing", "Issued"}

(* content: the type a document had when its content was written. *)
Document == [status : Status \cup {"absent", "deleted"}, type : Types,
             content : Types \cup {"none"}, claimants : BOOLEAN,
             file : [Variant -> File]]
Absent == [status |-> "absent", type |-> "invoice", content |-> "none",
           claimants |-> FALSE, file |-> [v \in Variant |-> 0]]

(* Addresses, and what toLowerCase makes of them. *)
Address == {"ann", "Ann"}
NoAddress == "none"
ToLowerCase(a) == IF a = "Ann" THEN "ann" ELSE a

Link == [doc : Docs, expires : BOOLEAN, over : BOOLEAN, isExpired : BOOLEAN,
         allowed : SUBSET Address, accessCount : 0..MaxCalls,
         history : Seq(Address), deleted : BOOLEAN]

At(do, v) == [do |-> do, variant |-> v]
Simple(do) == At(do, "original")

(* Mutant of UploadSteps: the record is written first. *)
UploadStepsSetFirst(v) ==
    <<At("exists", v), At("store", v), At("set", v), At("replace", v), At("restore", v)>>

(* An upload: tradeDocumentExists, uploadFile, getDocumentFileById with the deletion
   it starts, and the writes of the record and of the status. *)
UploadSteps(v) ==
    <<At("exists", v), At("store", v), At("replace", v), At("set", v), At("restore", v)>>

Steps == [do : {"insert", "update", "exists", "store", "replace", "set", "restore", "delete",
                "processing", "issued", "share", "count", "mark", "serve", "unshare"},
          variant : Variant]
Idle == [op |-> "none", doc |-> NoDoc, link |-> 0, email |-> NoAddress,
         file |-> 0, status |-> "In_Progress", todo |-> <<>>]

TypeOK ==
    /\ setting.group \in Groups /\ {setting.alone, setting.inStore} \subseteq BOOLEAN
    /\ doc \in [Docs -> Document]
    /\ disk \subseteq File \ {0} /\ erasing \subseteq File \ {0}
    /\ links \in Seq(Link) /\ Len(links) <= MaxLinks
    /\ \A s \in Slots :
          /\ call[s].doc \in Docs \cup {NoDoc} /\ call[s].link \in 0..Len(links)
          /\ call[s].email \in Address \cup {NoAddress}
          /\ call[s].file \in File /\ call[s].status \in Status
          /\ call[s].todo \in Seq(Steps)
    /\ begun \in 0..MaxCalls /\ stored \in File /\ faults \in 0..MaxFaults

Init ==
    /\ setting \in [group : Groups, alone : BOOLEAN, inStore : BOOLEAN]
    /\ doc = [[d \in Docs |-> Absent] EXCEPT
                 ![First] = [Absent EXCEPT !.status = "In_Progress", !.content = "invoice",
                                           !.claimants = TRUE, !.file["original"] = 1]]
    /\ disk = {1} /\ erasing = {}
    /\ links = <<>>
    /\ call = [s \in Slots |-> Idle]
    /\ begun = 0 /\ stored = 1 /\ faults = 0
    /\ past = [served |-> [l \in 1..MaxLinks |-> 0],
               unserved |-> [l \in 1..MaxLinks |-> 0],
               torn |-> {}, left |-> {}, issued |-> {}, overlapped |-> {}]
-----------------------------------------------------------------------------
Present(d) == doc[d].status \notin {"absent", "deleted"}

(* The call op, on document d or by link l, which goes through the steps todo. *)
Begin(s, op, d, l, email, todo) ==
    /\ op \in setting.group.operations
    /\ begun < setting.group.calls
    /\ call[s] = Idle
    /\ setting.alone => \A r \in Slots : call[r] = Idle
    /\ call' = [call EXCEPT ![s] = [Idle EXCEPT !.op = op, !.doc = d, !.link = l,
                                                !.email = email, !.todo = todo]]
    /\ begun' = begun + 1
    /\ past' = IF \E r \in Slots : call[r].op # "none" /\ call[r].doc = d
               THEN [past EXCEPT !.overlapped = @ \cup {d}] ELSE past
    /\ UNCHANGED <<setting, doc, disk, erasing, links, stored, faults>>

Unused(d) == doc[d].status = "absent" /\ \A s \in Slots : call[s].doc # d

CreateTradeDocument(s, d) ==
    /\ Unused(d)
    /\ Begin(s, "create", d, 0, NoAddress, <<Simple("insert")>>)

CreateTradeDocumentFromFile(s, d) ==
    /\ Unused(d)
    /\ Begin(s, "create_from_file", d, 0, NoAddress,
             <<Simple("insert")>> \o UploadSteps("original"))

(* Any document that exists takes a file, whatever its status. *)
UploadTradeDocumentFile(s, d) ==
    /\ Present(d)
    /\ Begin(s, "upload", d, 0, NoAddress, UploadSteps("original"))

(* Mutant of DocumentIsUpdatable: a document may be updated while it is processed. *)
DocumentIsUpdatableAlways(d) == Present(d)

DocumentIsUpdatable(d) == doc[d].status = "In_Progress"

UpdateTradeDocument(s, d) ==
    /\ DocumentIsUpdatable(d)
    /\ Begin(s, "update", d, 0, NoAddress, <<Simple("update")>>)

DocumentIsDeletable(d) == doc[d].status = "In_Progress"

DeleteTradeDocument(s, d) ==
    /\ DocumentIsDeletable(d)
    /\ Begin(s, "delete", d, 0, NoAddress, <<Simple("delete")>>)

Transferable(type) == type = "invoice"

(* Content there must be of some types only, and it is always of the class that is
   asked for: plainToInstance makes it one by the type the document now has.
   Claimants that are missing throw. *)
HasContent(d) ==
    /\ doc[d].type \in {"invoice", "other"} => doc[d].content # "none"
    /\ Transferable(doc[d].type) => doc[d].claimants

IsReadyToIssue(d) == doc[d].status = "In_Progress" /\ HasContent(d)

(* issueTradeDocument and its flow, which stores two more files. *)
IssueTradeDocument(s, d) ==
    /\ IsReadyToIssue(d)
    /\ Begin(s, "issue", d, 0, NoAddress,
             <<Simple("processing")>> \o UploadSteps("issued")
                \o UploadSteps("tradeTrust") \o <<Simple("issued")>>)
-----------------------------------------------------------------------------
(* Share links. *)

CreateShareLink(s, d) ==
    /\ Present(d)
    /\ Begin(s, "share", d, 0, NoAddress, <<Simple("share")>>)

(* findByLinkId finds the links that are not deleted. *)
Found(l) == ~links[l].deleted

(* The address is looked for in lower case among those stored as they came. *)
Admitted(l, email) ==
    links[l].allowed = {} \/ ToLowerCase(email) \in links[l].allowed

(* accessShareLink and accessShareLinkFile, where the link admits the caller. *)
AccessShareLink(s, l, email, v) ==
    /\ Found(l) /\ ~links[l].isExpired /\ ~links[l].over
    /\ Admitted(l, email)
    /\ Begin(s, "access", links[l].doc, l, email, <<Simple("count"), At("serve", v)>>)

(* And where its time is over. *)
AccessOverLink(s, l) ==
    /\ Found(l) /\ ~links[l].isExpired /\ links[l].over
    /\ Begin(s, "access", links[l].doc, l, NoAddress, <<Simple("mark")>>)

DeleteShareLink(s, l) ==
    /\ Found(l)
    /\ Begin(s, "unshare", links[l].doc, l, NoAddress, <<Simple("unshare")>>)

(* The time a link expires at comes. *)
TimePasses(l) ==
    /\ Found(l) /\ links[l].expires /\ ~links[l].over
    /\ links' = [links EXCEPT ![l].over = TRUE]
    /\ UNCHANGED <<setting, doc, disk, erasing, call, begun, stored, faults, past>>
-----------------------------------------------------------------------------
(* Steps. *)

Doing(s, do) == call[s].todo # <<>> /\ Head(call[s].todo).do = do
VariantOf(s) == Head(call[s].todo).variant

(* The step of call s, which leaves it as c; a call that is over leaves its slot. *)
Step(s, c) ==
    /\ call' = [call EXCEPT ![s] = IF Len(c.todo) = 1 THEN Idle
                                   ELSE [c EXCEPT !.todo = Tail(@)]]
    /\ UNCHANGED <<setting, begun, faults>>

(* A step that throws ends the call. *)
Throw(s) == Step(s, [call[s] EXCEPT !.todo = SubSeq(@, 1, 1)])

(* A document made from a file comes without content. *)
Insert(s) ==
    LET d == call[s].doc IN
    /\ Doing(s, "insert") /\ Step(s, call[s])
    /\ \E type \in Types, content, claimants \in BOOLEAN :
          /\ call[s].op = "create_from_file" => ~content /\ ~claimants
          /\ doc' = [doc EXCEPT ![d] =
                        [doc[d] EXCEPT !.status = "In_Progress", !.type = type,
                                       !.content = IF content THEN type ELSE "none",
                                       !.claimants = claimants]]
    /\ UNCHANGED <<disk, erasing, links, stored, past>>

(* The repository's update sets the fields of the request, and unsets the claimants
   of a document of the type other: a request for both throws, as one without a
   type does. *)
Update(s) ==
    LET d == call[s].doc IN
    /\ Doing(s, "update") /\ Present(d) /\ Step(s, call[s])
    /\ \E type \in Types, content, claimants \in BOOLEAN :
          /\ ~(type = "other" /\ claimants)
          /\ doc' = [doc EXCEPT ![d] =
                        [doc[d] EXCEPT !.type = type, !.content = IF content THEN type ELSE @,
                                       !.claimants = type # "other" /\ (@ \/ claimants)]]
    /\ UNCHANGED <<disk, erasing, links, stored, past>>

Exists(s) ==
    /\ Doing(s, "exists")
    /\ IF Present(call[s].doc) THEN Step(s, call[s]) ELSE Throw(s)
    /\ UNCHANGED <<doc, disk, erasing, links, stored, past>>

UploadFile(s) ==
    /\ Doing(s, "store")
    /\ Step(s, [call[s] EXCEPT !.file = stored + 1])
    /\ stored' = stored + 1 /\ disk' = disk \cup {stored + 1}
    /\ UNCHANGED <<doc, erasing, links, past>>

(* Mutant of ReplaceFile: the file before is not deleted. *)
ReplaceFileKeeps(s) ==
    /\ Doing(s, "replace") /\ Step(s, call[s])
    /\ UNCHANGED <<doc, disk, erasing, links, stored, past>>

(* The file the document has of this variant is to be deleted. *)
ReplaceFile(s) ==
    LET current == doc[call[s].doc].file[VariantOf(s)] IN
    /\ Doing(s, "replace") /\ Step(s, call[s])
    /\ erasing' = IF Present(call[s].doc) /\ current # 0
                  THEN erasing \cup {current} ELSE erasing
    /\ UNCHANGED <<doc, disk, links, stored, past>>

(* deleteFile asks for the file where the server runs before it looks in the upload
   directory; elsewhere there is none, which is logged, and the file stays. *)
Erase(f) ==
    /\ f \in erasing
    /\ erasing' = erasing \ {f}
    /\ disk' = IF setting.inStore THEN disk \ {f} ELSE disk
    /\ UNCHANGED <<setting, doc, links, call, begun, stored, faults, past>>

(* updateTradeDocumentFileById of the repository returns the whole record. *)
SetFile(s) ==
    LET d == call[s].doc IN
    /\ Doing(s, "set") /\ Present(d)
    /\ Step(s, [call[s] EXCEPT !.status = doc[d].status])
    /\ doc' = [doc EXCEPT ![d].file[VariantOf(s)] = call[s].file]
    /\ UNCHANGED <<disk, erasing, links, stored, past>>

(* updateTradeDocumentStatus: the status of the record, or what a flow makes it. *)
SetStatus(s) ==
    LET d == call[s].doc
        status == CASE Doing(s, "restore") -> call[s].status
                    [] Doing(s, "processing") -> "Processing"
                    [] OTHER -> "Issued"
    IN  /\ Doing(s, "restore") \/ Doing(s, "processing") \/ Doing(s, "issued")
        /\ Present(d) /\ Step(s, call[s])
        /\ doc' = [doc EXCEPT ![d].status = status]
        /\ past' = IF Doing(s, "issued") THEN [past EXCEPT !.issued = @ \cup {d}] ELSE past
        /\ UNCHANGED <<disk, erasing, links, stored>>

(* A write to the record of a deleted document throws. *)
DocumentGone(s) ==
    /\ \E do \in {"update", "set", "restore", "processing", "issued"} : Doing(s, do)
    /\ ~Present(call[s].doc) /\ Throw(s)
    /\ UNCHANGED <<doc, disk, erasing, links, stored, past>>

(* The record goes; the files stay. *)
Delete(s) ==
    LET d == call[s].doc IN
    /\ Doing(s, "delete") /\ Step(s, call[s])
    /\ doc' = [doc EXCEPT ![d] = [Absent EXCEPT !.status = "deleted"]]
    /\ past' = [past EXCEPT !.left = @ \cup {doc[d].file[v] : v \in Variant}]
    /\ UNCHANGED <<disk, erasing, links, stored>>

Share(s) ==
    /\ Doing(s, "share") /\ Len(links) < MaxLinks /\ Step(s, call[s])
    /\ \E expires \in BOOLEAN, allowed \in {{}, {"ann"}, {"Ann"}} :
          links' = Append(links, [doc |-> call[s].doc, expires |-> expires,
                                  over |-> FALSE, isExpired |-> FALSE,
                                  allowed |-> allowed, accessCount |-> 0,
                                  history |-> <<>>, deleted |-> FALSE])
    /\ UNCHANGED <<doc, disk, erasing, stored, past>>

(* What updateAccessCount adds to the history. *)
Entry(s) == IF call[s].email = NoAddress THEN <<>> ELSE <<ToLowerCase(call[s].email)>>

(* Mutant of Counted: an access is counted when it comes with an address. *)
CountedByAddress(s, link) ==
    [link EXCEPT !.accessCount = @ + Len(Entry(s)), !.history = @ \o Entry(s)]

(* Mutant of Counted: the document and its file are counted each. *)
CountedTwice(s, link) == [link EXCEPT !.accessCount = @ + 2, !.history = @ \o Entry(s)]

Counted(s, link) == [link EXCEPT !.accessCount = @ + 1, !.history = @ \o Entry(s)]

(* updateAccessCount, which a deleted link is not there for. *)
UpdateAccessCount(s) ==
    LET l == call[s].link IN
    /\ Doing(s, "count") /\ Step(s, call[s])
    /\ links' = IF Found(l) THEN [links EXCEPT ![l] = Counted(s, @)] ELSE links
    /\ UNCHANGED <<doc, disk, erasing, stored, past>>

(* getDocumentById or getTradeDocumentFileStream, which throw if there is nothing. *)
Serve(s) ==
    LET l == call[s].link
        d == call[s].doc IN
    /\ Doing(s, "serve") /\ Step(s, call[s])
    /\ past' = IF Present(d) /\ (VariantOf(s) = "original" \/ doc[d].file[VariantOf(s)] # 0)
               THEN [past EXCEPT !.served[l] = @ + 1]
               ELSE [past EXCEPT !.unserved[l] = @ + 1]
    /\ UNCHANGED <<doc, disk, erasing, links, stored>>

(* markAsExpired and deleteShareLink. *)
EndLink(s) ==
    /\ Doing(s, "mark") \/ Doing(s, "unshare")
    /\ Step(s, call[s])
    /\ links' = IF Doing(s, "mark")
                THEN [links EXCEPT ![call[s].link].isExpired = TRUE]
                ELSE [links EXCEPT ![call[s].link].deleted = TRUE]
    /\ UNCHANGED <<doc, disk, erasing, stored, past>>

(* The next operation of a call throws, or its process dies. *)
CallFails(s) ==
    /\ call[s].todo # <<>> /\ faults < MaxFaults
    /\ faults' = faults + 1
    /\ call' = [call EXCEPT ![s] = Idle]
    /\ past' = [past EXCEPT
                  !.torn = @ \cup (IF Doing(s, "set") THEN {call[s].doc} ELSE {}),
                  !.unserved = IF Doing(s, "serve")
                               THEN [past.unserved EXCEPT ![call[s].link] = @ + 1] ELSE @]
    /\ UNCHANGED <<setting, doc, disk, erasing, links, begun, stored>>

Next ==
    \/ \E s \in Slots :
          \/ \E d \in Docs :
                \/ CreateTradeDocument(s, d) \/ CreateTradeDocumentFromFile(s, d)
                \/ UploadTradeDocumentFile(s, d) \/ UpdateTradeDocument(s, d)
                \/ DeleteTradeDocument(s, d) \/ IssueTradeDocument(s, d)
                \/ CreateShareLink(s, d)
          \/ \E l \in DOMAIN links :
                \/ \E email \in Address \cup {NoAddress}, v \in {"original", "issued"} :
                      AccessShareLink(s, l, email, v)
                \/ AccessOverLink(s, l) \/ DeleteShareLink(s, l)
          \/ Insert(s) \/ Update(s) \/ Exists(s) \/ UploadFile(s) \/ ReplaceFile(s) \/ SetFile(s)
          \/ SetStatus(s) \/ DocumentGone(s) \/ Delete(s)
          \/ Share(s) \/ UpdateAccessCount(s) \/ Serve(s) \/ EndLink(s)
          \/ CallFails(s)
    \/ \E f \in erasing : Erase(f)
    \/ \E l \in DOMAIN links : TimePasses(l)

Spec == Init /\ [][Next]_vars
-----------------------------------------------------------------------------
(* A call that has asked for the deletion of a file of d and has yet to name its own. *)
Replacing(s, d) == call[s].doc = d /\ Doing(s, "set")

NamedFiles(d) == {doc[d].file[v] : v \in Variant} \ {0}

(* The files a document names are in the store, whatever uploads, flows and deletions
   of it overlap: a file is deleted only by a call that goes on to name another.
   Between the two, and if the call ends there, the document names a file that is
   gone (updateTradeDocumentFileById deletes before it writes the record). *)
NamedFilesStored ==
    \A d \in Docs :
        d \in past.torn \/ (\E s \in Slots : Replacing(s, d)) \/ NamedFiles(d) \subseteq disk

(* Where calls are made one at a time, nothing fails and the server runs in the
   upload directory, the store holds what documents name, and what the documents
   that were deleted named: deleteDocumentById deletes no file. *)
NothingLeftBehind ==
    setting.alone /\ setting.inStore /\ faults = 0 /\ erasing = {}
    /\ (\A s \in Slots : call[s] = Idle)
    => disk = (UNION {NamedFiles(d) : d \in Docs}) \cup (past.left \ {0})

(* A document that was issued stays issued, with the content and claimants that
   issuing asked for, unless a call on it overlapped another: "it cannot be updated
   or deleted" (isReadyToIssue, documentIsUpdatable, documentIsDeletable). *)
IssuedIsKept ==
    \A d \in past.issued \ past.overlapped : doc[d].status = "Issued" /\ HasContent(d)

(* Every access a link counts was served or found nothing to serve, however many are
   made at once: what accessCount of a link that is not deleted says is the number of
   accesses admitted (updateAccessCount adds in the database). *)
AccessesAccounted ==
    \A l \in DOMAIN links : Found(l) =>
        links[l].accessCount = past.served[l] + past.unserved[l]
            + Cardinality({s \in Slots : call[s].link = l /\ Doing(s, "serve")})
=============================================================================
