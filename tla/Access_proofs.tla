--------------------------- MODULE Access_proofs ---------------------------
(* Signing in, for any number of users, requests served at the same time,  *)
(* calls and faults.                                                       *)
EXTENDS Access, FunctionTheorems, SequenceTheorems, TLAPS

(* What a call keeps between its steps: the plan, the mails that are left  *)
(* for it and the values it decided on when it read the user.              *)
Ops == {"none", "login", "change", "forgot", "reset", "forced", "force", "setup",
        "verify_setup", "disable", "regenerate", "create", "invite", "update", "status"}

LoginWrites == [failed : Nat, locked : {TRUE, Undefined}]
PasswordWrites == [password : Value]
ResetWrites == [password : Id, resetRequired : {FALSE}, failed : {0}, locked : {Undefined}]
ForceWrites == [resetRequired : {TRUE}]
SetupWrites == [secret : Id, codes : Id, enabled : {FALSE}]
VerifyWrites == [enabled : {TRUE}]
DisableWrites == [enabled : {FALSE}, secret : {Undefined}, codes : {Undefined}]
CodesWrites == [codes : Id]
CreateWrites == [password : Value, enabled : BOOLEAN, secret : Id, codes : Id,
                 setupRequired : {TRUE}]
StatusWrites == [status : (Status \cup RequestedStatus) \ {"absent"}]
Writes == {<<>>} \cup LoginWrites \cup PasswordWrites \cup ResetWrites \cup ForceWrites
          \cup SetupWrites \cup VerifyWrites \cup DisableWrites \cup CodesWrites
          \cup CreateWrites \cup StatusWrites
CallState == [op : Ops, user : Users \cup {Undefined}, id : Id, todo : Seq(Steps),
              updates : Writes, token : Id, mails : Seq(Mail)]

UpdatesSound(c) ==
    /\ c.op = "login" => c.updates \in LoginWrites
    /\ c.op \in {"change", "invite"} => c.updates \in PasswordWrites
    /\ c.op \in {"reset", "forced"} => c.updates \in ResetWrites
    /\ c.op = "force" => c.updates \in ForceWrites
    /\ c.op = "setup" => c.updates \in SetupWrites
    /\ c.op = "verify_setup" => c.updates \in VerifyWrites
    /\ c.op = "disable" => c.updates \in DisableWrites
    /\ c.op = "regenerate" => c.updates \in CodesWrites
    /\ c.op = "create" => c.updates \in CreateWrites
    /\ c.op \in {"update", "status"} => c.updates \in StatusWrites

(* What is left of the plan of each request, and of its mails. *)
NoMail == {<<"write">>, <<"write", "grant">>, <<"grant">>, <<"write", "mark">>,
           <<"mark">>, <<"create">>, <<"update">>, <<"set_status">>}
OneMail == {<<"mail">>, <<"write", "mail">>, <<"store", "mail">>, <<"create", "mail">>,
            <<"create", "write", "mail">>, <<"update", "mail">>}
TwoMails == {<<"mail", "mail">>, <<"write", "mail", "mail">>,
             <<"create", "write", "mail", "mail">>}
TodoSound(op, todo) ==
    /\ op = "login" => todo \in {<<"write", "grant">>, <<"write">>, <<"grant">>}
    /\ op \in {"change", "forced", "verify_setup", "disable"} => todo = <<"write">>
    /\ op = "forgot" => todo \in {<<"store", "mail">>, <<"mail">>}
    /\ op = "reset" => todo \in {<<"write", "mark">>, <<"mark">>}
    /\ op = "force" => todo \in {<<"write", "mail">>, <<"write">>, <<"mail">>}
    /\ op \in {"setup", "regenerate"} => todo \in {<<"write", "mail">>, <<"mail">>}
    /\ op = "create" =>
          todo \in {<<"create">>, <<"create", "mail">>, <<"create", "write", "mail">>,
                    <<"create", "write", "mail", "mail">>, <<"write", "mail">>,
                    <<"write", "mail", "mail">>, <<"mail">>, <<"mail", "mail">>}
    /\ op = "invite" => todo \in {<<"update", "mail">>, <<"mail">>}
    /\ op = "update" => todo = <<"update">>
    /\ op = "status" => todo = <<"set_status">>
MailsSound(c) ==
    /\ c.todo \in NoMail => Len(c.mails) = 0
    /\ c.todo \in OneMail => Len(c.mails) = 1
    /\ c.todo \in TwoMails => Len(c.mails) = 2

CallSound(c) ==
    /\ c \in CallState
    /\ c.op = "none" => c = Idle
    /\ c.op # "none" => c.user \in Users
    /\ UpdatesSound(c) /\ TodoSound(c.op, c.todo) /\ MailsSound(c)

Memory == [wrong : [Users -> Nat], uses : [Id -> Nat], proven : [Users -> SUBSET Value],
           raced : SUBSET Users, halfMade : SUBSET Users, overlapped : SUBSET Id]

(* A user that is not stored has nothing, and what is not about to create  *)
(* a user is about a user that is stored; one call at most creates a user; *)
(* a token is a stored user's.                                             *)
Busy(s) == call[s].op # "none"
UsersSound ==
    /\ \A u \in Users : ~Stored(u) => user[u] = Absent
    /\ \A k \in tokens : Stored(k.user)
    /\ \A s \in Slots :
          Busy(s) => (Stored(call[s].user) <=> call[s].todo[1] # "create")
    /\ \A r, s \in Slots :
          call[r].op = "create" /\ call[s].op = "create" /\ call[r].user = call[s].user
          => r = s

Base ==
    /\ TypeOK
    /\ call \in [Slots -> CallState] /\ (\A s \in Slots : CallSound(call[s]))
    /\ past \in Memory
    /\ UsersSound
-----------------------------------------------------------------------------
(* No attempt is counted that was not made. *)
LockSound ==
    /\ \A u \in Users : /\ user[u].failed <= past.wrong[u]
                        /\ user[u].locked => past.wrong[u] >= MaxFailed
    /\ \A s \in Slots : call[s].op = "login" =>
          /\ call[s].updates.failed <= past.wrong[call[s].user]
          /\ call[s].updates.locked = TRUE => past.wrong[call[s].user] >= MaxFailed

(* A reset takes hold of an unused token, which was used only as often as  *)
(* a fault kept a reset from marking it.                                   *)
Resets(s, t) == call[s].op = "reset" /\ call[s].token = t
Storing(s) == call[s].op = "forgot" /\ call[s].todo[1] = "store"
Marking(t) == \E s \in Slots : Resets(s, t) /\ call[s].todo[1] = "mark"
TokenSound(t) ==
    /\ past.uses[t] <= 1 + faults
    /\ \A r, s \in Slots : Resets(r, t) /\ Resets(s, t) => r = s
    /\ \A s \in Slots : Resets(s, t) /\ call[s].todo[1] = "write" => past.uses[t] <= faults
    /\ (\E k \in tokens : k.id = t /\ ~k.used) /\ ~Marking(t) => past.uses[t] <= faults
TokensSound ==
    /\ \A t \in Id \ past.overlapped : TokenSound(t)
    /\ \A t \in Id : t > begun => past.uses[t] = 0
    /\ \A k \in tokens : k.id <= begun
    /\ \A s \in Slots : call[s].token <= begun
    /\ \A s \in Slots : Storing(s) =>
          /\ past.uses[call[s].token] = 0
          /\ \A k \in tokens : k.id # call[s].token
          /\ \A r \in Slots : ~Resets(r, call[s].token)
          /\ \A r \in Slots : Storing(r) /\ call[r].token = call[s].token => r = s

(* A factor that counts was proven, unless its user is about to get one    *)
(* from an administrator; one that was proven is not changed unseen.       *)
Factored(u) ==
    \/ user[u].secret \in past.proven[u]
    \/ user[u].setupRequired \/ u \in past.raced
FactorSound ==
    /\ \A u \in Users : user[u].enabled =>
          \/ Factored(u) \/ u \in past.halfMade
          \/ \E s \in Slots : /\ call[s].op = "create" /\ call[s].user = u
                              /\ call[s].todo[1] = "write"
    /\ \A s \in Slots : call[s].op = "verify_setup" => Factored(call[s].user)
    /\ \A s \in Slots :
          call[s].op = "create" /\ call[s].updates.enabled
          /\ call[s].todo \in {<<"create">>, <<"create", "mail">>}
          => call[s].user \in past.halfMade

(* What is stored, or about to be, is mailed or about to be. *)
Due(u, m) == \E s \in Slots : call[s].user = u /\ m \in Range(call[s].mails)
Mailed(u, x) == \E m \in MailsOf(u, x) : m \in mails \cup told \cup lost \/ Due(u, m)
WritesCodes(s) ==
    \/ call[s].op \in {"setup", "regenerate"} /\ call[s].todo[1] = "write"
    \/ /\ call[s].op = "create"
       /\ call[s].todo \in {<<"create", "write", "mail">>,
                            <<"create", "write", "mail", "mail">>,
                            <<"write", "mail">>, <<"write", "mail", "mail">>}
MailSound ==
    /\ \A u \in Users : user[u].codes # Undefined => Mailed(u, user[u].codes)
    /\ \A k \in tokens : Mailed(k.user, k.id)
    /\ \A s \in Slots : /\ WritesCodes(s) => Mailed(call[s].user, call[s].updates.codes)
                        /\ Storing(s) => Mailed(call[s].user, call[s].token)

IInv == Base /\ LockSound /\ TokensSound /\ FactorSound /\ MailSound
-----------------------------------------------------------------------------
(* The plans. *)
Lists == NoMail \cup OneMail \cup TwoMails

LEMMA ListFacts ==
    ASSUME NEW t \in Lists
    PROVE  /\ t \in Seq(Steps) /\ Len(t) \in 1..4 /\ t # <<>> /\ Head(t) = t[1]
           /\ DOMAIN t = 1..Len(t) /\ Tail(t) \in Seq(Steps) /\ t[1] \in Steps
           /\ Len(t) = 1 <=> t \in {<<"write">>, <<"grant">>, <<"mark">>, <<"create">>,
                                    <<"update">>, <<"set_status">>, <<"mail">>}
<1>1. t \in Seq(Steps) /\ Len(t) \in 1..4 /\ t # <<>>
  <2>1. CASE t \in NoMail
    <3>1. {<<"write">>, <<"grant">>, <<"mark">>, <<"create">>, <<"update">>,
           <<"set_status">>, <<"write", "grant">>, <<"write", "mark">>} \subseteq Seq(Steps)
      BY DEF Steps
    <3>2. Len(t) \in 1..4 /\ t # <<>>
      BY <2>1 DEF NoMail
    <3>3. QED
      BY <2>1, <3>1, <3>2 DEF NoMail
  <2>2. CASE t \in OneMail
    <3>1. {<<"mail">>, <<"write", "mail">>, <<"store", "mail">>, <<"create", "mail">>,
           <<"create", "write", "mail">>, <<"update", "mail">>} \subseteq Seq(Steps)
      BY DEF Steps
    <3>2. Len(t) \in 1..4 /\ t # <<>>
      BY <2>2 DEF OneMail
    <3>3. QED
      BY <2>2, <3>1, <3>2 DEF OneMail
  <2>3. CASE t \in TwoMails
    <3>1. {<<"mail", "mail">>, <<"write", "mail", "mail">>,
           <<"create", "write", "mail", "mail">>} \subseteq Seq(Steps)
      BY DEF Steps
    <3>2. Len(t) \in 1..4 /\ t # <<>>
      BY <2>3 DEF TwoMails
    <3>3. QED
      BY <2>3, <3>1, <3>2 DEF TwoMails
  <2>4. QED
    BY <2>1, <2>2, <2>3 DEF Lists
<1>2. Len(t) = 1 <=> t \in {<<"write">>, <<"grant">>, <<"mark">>, <<"create">>,
                            <<"update">>, <<"set_status">>, <<"mail">>}
  BY DEF Lists, NoMail, OneMail, TwoMails
<1>3. Head(t) = t[1] /\ Tail(t) \in Seq(Steps) /\ DOMAIN t = 1..Len(t) /\ t[1] \in Steps
  BY <1>1, HeadTailProperties, LenProperties, ElementOfSeq
<1>4. QED
  BY <1>1, <1>2, <1>3

LEMMA Tails ==
    /\ Tail(<<"write", "grant">>) = <<"grant">> /\ Tail(<<"write", "mark">>) = <<"mark">>
    /\ Tail(<<"write", "mail">>) = <<"mail">> /\ Tail(<<"store", "mail">>) = <<"mail">>
    /\ Tail(<<"create", "mail">>) = <<"mail">> /\ Tail(<<"update", "mail">>) = <<"mail">>
    /\ Tail(<<"create", "write", "mail">>) = <<"write", "mail">>
    /\ Tail(<<"mail", "mail">>) = <<"mail">>
    /\ Tail(<<"write", "mail", "mail">>) = <<"mail", "mail">>
    /\ Tail(<<"create", "write", "mail", "mail">>) = <<"write", "mail", "mail">>
OBVIOUS

LEMMA TwoMailsLast ==
    ASSUME NEW t \in TwoMails
    PROVE  Len(t) # 1 /\ t[Len(t)] = "mail" /\ t[Len(t) - 1] = "mail"
<1>1. CASE t = <<"mail", "mail">>
  BY <1>1
<1>2. CASE t = <<"write", "mail", "mail">>
  BY <1>2
<1>3. CASE t = <<"create", "write", "mail", "mail">>
  BY <1>3
<1>4. QED
  BY <1>1, <1>2, <1>3 DEF TwoMails

LEMMA MailsApart ==
    NoMail \cap OneMail = {} /\ NoMail \cap TwoMails = {} /\ OneMail \cap TwoMails = {}
<1>1. NoMail \cap OneMail = {}
  <2> SUFFICES ASSUME NEW t \in NoMail, NEW r \in OneMail PROVE t # r
    OBVIOUS
  <2>1. t[Len(t)] # "mail"
    BY DEF NoMail
  <2>2. r[Len(r)] = "mail"
    BY DEF OneMail
  <2>3. QED
    BY <2>1, <2>2
<1>2. NoMail \cap TwoMails = {}
  <2> SUFFICES ASSUME NEW t \in NoMail, NEW r \in TwoMails PROVE t # r
    OBVIOUS
  <2>1. t[Len(t)] # "mail"
    BY DEF NoMail
  <2>2. r[Len(r)] = "mail"
    BY TwoMailsLast
  <2>3. QED
    BY <2>1, <2>2
<1>3. OneMail \cap TwoMails = {}
  <2> SUFFICES ASSUME NEW t \in OneMail, NEW r \in TwoMails PROVE t # r
    OBVIOUS
  <2>1. Len(t) = 1 \/ t[Len(t) - 1] # "mail"
    <3>1. CASE t = <<"mail">>
      BY <3>1
    <3>2. CASE t = <<"write", "mail">>
      BY <3>2
    <3>3. CASE t = <<"store", "mail">>
      BY <3>3
    <3>4. CASE t = <<"create", "mail">>
      BY <3>4
    <3>5. CASE t = <<"update", "mail">>
      BY <3>5
    <3>6. CASE t = <<"create", "write", "mail">>
      BY <3>6
    <3>7. QED
      BY <3>1, <3>2, <3>3, <3>4, <3>5, <3>6 DEF OneMail
  <2>2. Len(r) # 1 /\ r[Len(r) - 1] = "mail"
    BY TwoMailsLast
  <2>3. QED
    BY <2>1, <2>2
<1>4. QED
  BY <1>1, <1>2, <1>3

LEMMA IdleSound ==
    /\ CallSound(Idle) /\ Idle.op = "none" /\ Idle.todo = <<>> /\ Idle.mails = <<>>
    /\ Idle.token = 0 /\ Idle.user = Undefined
<1>1. /\ Idle.op = "none" /\ Idle.user = Undefined /\ Idle.id = 0 /\ Idle.todo = <<>>
      /\ Idle.updates = <<>> /\ Idle.token = 0 /\ Idle.mails = <<>>
  BY DEF Idle
<1>2. 0 \in Id
  BY AccessAssumption DEF Id
<1>3. Idle \in CallState
  BY <1>2 DEF Idle, CallState, Ops, Writes
<1>4. <<>> \notin NoMail \cup OneMail \cup TwoMails
  BY DEF NoMail, OneMail, TwoMails
<1>5. UpdatesSound(Idle)
  BY <1>1 DEF UpdatesSound
<1>6. TodoSound("none", <<>>)
  BY DEF TodoSound
<1>7. MailsSound(Idle)
  BY <1>1, <1>4 DEF MailsSound
<1>8. QED
  BY <1>1, <1>3, <1>5, <1>6, <1>7 DEF CallSound

(* A request that is served has a plan. *)
LEMMA Planned ==
    ASSUME NEW c, CallSound(c), c.op # "none"
    PROVE  c.todo \in Lists /\ c.user \in Users /\ c \in CallState
<1>1. c \in CallState /\ c.op \in Ops /\ c.user \in Users /\ TodoSound(c.op, c.todo)
  BY DEF CallSound, CallState
<1>2. c.todo \in Lists
  <2> DEFINE t == c.todo
  <2>1. CASE c.op \in {"login", "change", "forced", "verify_setup", "disable", "reset",
                       "update", "status"}
    BY <1>1, <2>1 DEF TodoSound, Lists, NoMail
  <2>2. CASE c.op \in {"forgot", "setup", "regenerate", "invite", "force"}
    BY <1>1, <2>2 DEF TodoSound, Lists, NoMail, OneMail
  <2>3. CASE c.op = "create"
    BY <1>1, <2>3 DEF TodoSound, Lists, NoMail, OneMail, TwoMails
  <2>4. QED
    BY <1>1, <2>1, <2>2, <2>3 DEF Ops
<1>3. QED
  BY <1>1, <1>2

(* A step that is not a mail leaves the rest of the plan. *)
LEMMA PlanGoesOn ==
    ASSUME NEW c, CallSound(c), c.op # "none", Len(c.todo) # 1, c.todo[1] # "mail"
    PROVE  /\ CallSound([c EXCEPT !.todo = Tail(c.todo)])
           /\ Tail(c.todo) \in Lists /\ Tail(c.todo)[1] # "create"
           /\ c.op \in {"login", "reset", "forgot", "force", "setup", "regenerate",
                        "create", "invite"}
<1> DEFINE t == c.todo
           d == [c EXCEPT !.todo = Tail(t)]
<1>1. c \in CallState /\ t \in Lists /\ c.user \in Users
  BY Planned
<1>2. /\ d \in CallState /\ d.op = c.op /\ d.user = c.user /\ d.updates = c.updates
      /\ d.mails = c.mails /\ d.todo = Tail(t)
  BY <1>1, ListFacts DEF CallState
<1>3. TodoSound(c.op, t) /\ UpdatesSound(c) /\ MailsSound(c)
  BY DEF CallSound
<1>4. Len(t) # 1 /\ t[1] # "mail"
  OBVIOUS
<1>5. /\ t \in {<<"write", "grant">>, <<"write", "mark">>}
         => t \in NoMail /\ Tail(t) \in NoMail
      /\ t \in {<<"write", "mail">>, <<"store", "mail">>, <<"create", "mail">>,
                <<"create", "write", "mail">>, <<"update", "mail">>}
         => t \in OneMail /\ Tail(t) \in OneMail
      /\ t \in {<<"write", "mail", "mail">>, <<"create", "write", "mail", "mail">>}
         => t \in TwoMails /\ Tail(t) \in TwoMails
  BY Tails DEF NoMail, OneMail, TwoMails
<1>6. t \in {<<"write", "grant">>, <<"write", "mark">>, <<"write", "mail">>,
             <<"store", "mail">>, <<"create", "mail">>, <<"create", "write", "mail">>,
             <<"update", "mail">>, <<"write", "mail", "mail">>,
             <<"create", "write", "mail", "mail">>}
  <2>1. t # <<"mail", "mail">>
    BY <1>4
  <2>2. QED
    BY <1>1, <1>4, <2>1, ListFacts DEF Lists, NoMail, OneMail, TwoMails
<1>7. Tail(t)[1] # "create"
  BY <1>6, Tails
<1>8. /\ TodoSound(c.op, Tail(t))
      /\ c.op \in {"login", "reset", "forgot", "force", "setup", "regenerate", "create",
                   "invite"}
  <2>1. CASE c.op \in {"change", "forced", "verify_setup", "disable", "update", "status"}
    <3>1. t \in {<<"write">>, <<"update">>, <<"set_status">>}
      BY <1>3, <2>1 DEF TodoSound
    <3>2. QED
      BY <1>4, <3>1
  <2>2. CASE c.op \in {"login", "reset", "forgot", "invite"}
    <3>1. CASE c.op = "login"
      <4>1. t = <<"write", "grant">>
        BY <1>3, <1>4, <3>1 DEF TodoSound
      <4>2. Tail(t) = <<"grant">>
        BY <4>1, Tails
      <4>3. QED
        BY <3>1, <4>2 DEF TodoSound
    <3>2. CASE c.op = "reset"
      <4>1. t = <<"write", "mark">>
        BY <1>3, <1>4, <3>2 DEF TodoSound
      <4>2. Tail(t) = <<"mark">>
        BY <4>1, Tails
      <4>3. QED
        BY <3>2, <4>2 DEF TodoSound
    <3>3. CASE c.op \in {"forgot", "invite"}
      <4>1. t \in {<<"store", "mail">>, <<"update", "mail">>}
        BY <1>3, <1>4, <3>3 DEF TodoSound
      <4>2. Tail(t) = <<"mail">>
        BY <4>1, Tails
      <4>3. QED
        BY <3>3, <4>2 DEF TodoSound
    <3>4. QED
      BY <2>2, <3>1, <3>2, <3>3
  <2>3. CASE c.op \in {"force", "setup", "regenerate"}
    <3>1. t = <<"write", "mail">>
      BY <1>3, <1>4, <2>3 DEF TodoSound
    <3>2. Tail(t) = <<"mail">>
      BY <3>1, Tails
    <3>3. QED
      BY <2>3, <3>2 DEF TodoSound
  <2>4. CASE c.op = "create"
    <3>1. t \in {<<"create">>, <<"create", "mail">>, <<"create", "write", "mail">>,
                 <<"create", "write", "mail", "mail">>, <<"write", "mail">>,
                 <<"write", "mail", "mail">>, <<"mail">>, <<"mail", "mail">>}
      BY <1>3, <2>4 DEF TodoSound
    <3>2. Tail(t) \in {<<"mail">>, <<"write", "mail">>, <<"write", "mail", "mail">>,
                       <<"mail", "mail">>}
      <4>1. t \in {<<"create", "mail">>, <<"create", "write", "mail">>,
                   <<"create", "write", "mail", "mail">>, <<"write", "mail">>,
                   <<"write", "mail", "mail">>}
        BY <1>4, <3>1
      <4>2. QED
        BY <4>1, Tails
    <3>3. QED
      BY <2>4, <3>2 DEF TodoSound
  <2>5. QED
    BY <1>1, <2>1, <2>2, <2>3, <2>4 DEF CallState, Ops
<1>9. MailsSound(d)
  <2>1. Tail(t) \in NoMail \cup OneMail \cup TwoMails
    BY <1>5, <1>6
  <2>2. CASE t \in NoMail /\ Tail(t) \in NoMail
    <3>1. Tail(t) \notin OneMail \cup TwoMails
      BY <2>2, MailsApart
    <3>2. QED
      BY <1>2, <1>3, <2>2, <3>1 DEF MailsSound
  <2>3. CASE t \in OneMail /\ Tail(t) \in OneMail
    <3>1. Tail(t) \notin NoMail \cup TwoMails
      BY <2>3, MailsApart
    <3>2. QED
      BY <1>2, <1>3, <2>3, <3>1 DEF MailsSound
  <2>4. CASE t \in TwoMails /\ Tail(t) \in TwoMails
    <3>1. Tail(t) \notin NoMail \cup OneMail
      BY <2>4, MailsApart
    <3>2. QED
      BY <1>2, <1>3, <2>4, <3>1 DEF MailsSound
  <2>5. QED
    BY <1>5, <1>6, <2>2, <2>3, <2>4
<1>10. Tail(t) \in Lists
  BY <1>5, <1>6 DEF Lists
<1>11. d.op # "none" /\ UpdatesSound(d)
  BY <1>2, <1>3 DEF UpdatesSound
<1>12. QED
  BY <1>1, <1>2, <1>7, <1>8, <1>9, <1>10, <1>11 DEF CallSound

(* A mail is what is left, or there is another one. *)
LEMMA MailsGoOn ==
    ASSUME NEW c, CallSound(c), c.op # "none", c.todo[1] = "mail"
    PROVE  /\ c.mails # <<>> /\ Head(c.mails) = c.mails[1] /\ c.mails[1] \in Mail
           /\ Len(c.todo) = 1 => Range(c.mails) = {c.mails[1]}
           /\ Len(c.todo) # 1 =>
                 /\ CallSound([c EXCEPT !.todo = Tail(c.todo), !.mails = Tail(c.mails)])
                 /\ c.op = "create" /\ Tail(c.todo) = <<"mail">>
                 /\ Range(c.mails) = {c.mails[1]} \cup Range(Tail(c.mails))
<1> DEFINE t == c.todo
           d == [c EXCEPT !.todo = Tail(t), !.mails = Tail(c.mails)]
<1>1. c \in CallState /\ t \in Lists /\ c.user \in Users
  BY Planned
<1>2. TodoSound(c.op, t) /\ UpdatesSound(c) /\ MailsSound(c) /\ c.mails \in Seq(Mail)
  BY <1>1 DEF CallSound, CallState
<1>3. t \in {<<"mail">>, <<"mail", "mail">>}
  BY <1>1 DEF Lists, NoMail, OneMail, TwoMails
<1>4. CASE t = <<"mail">>
  <2>1. Len(c.mails) = 1
    BY <1>2, <1>4 DEF MailsSound, OneMail
  <2>2. DOMAIN c.mails = {1} /\ c.mails[1] \in Mail /\ Head(c.mails) = c.mails[1]
    BY <1>2, <2>1, LenProperties, ElementOfSeq, HeadTailProperties
  <2>3. QED
    BY <1>4, <2>1, <2>2 DEF Range
<1>5. CASE t = <<"mail", "mail">>
  <2>1. Len(c.mails) = 2
    BY <1>2, <1>5 DEF MailsSound, TwoMails
  <2>2. /\ DOMAIN c.mails = {1, 2} /\ c.mails[1] \in Mail /\ c.mails[2] \in Mail
        /\ Head(c.mails) = c.mails[1] /\ c.mails # <<>>
    BY <1>2, <2>1, LenProperties, ElementOfSeq, HeadTailProperties
  <2>3. /\ Tail(c.mails) \in Seq(Mail) /\ Len(Tail(c.mails)) = 1
        /\ DOMAIN Tail(c.mails) = {1} /\ Tail(c.mails)[1] = c.mails[2]
    <3>1. /\ Tail(c.mails) \in Seq(Mail) /\ Len(Tail(c.mails)) = 1
          /\ \A i \in 1..Len(Tail(c.mails)) : Tail(c.mails)[i] = c.mails[i + 1]
      BY <1>2, <2>1, <2>2, HeadTailProperties
    <3>2. Tail(c.mails)[1] = c.mails[2]
      BY <3>1
    <3> DEFINE rest == Tail(c.mails)
    <3>3. rest \in Seq(Mail) /\ Len(rest) = 1
      BY <3>1
    <3> HIDE DEF rest
    <3>4. DOMAIN rest = {1}
      BY <3>3, LenProperties
    <3>5. QED
      BY <3>1, <3>2, <3>4 DEF rest
  <2>4. Range(c.mails) = {c.mails[1]} \cup Range(Tail(c.mails))
    BY <2>2, <2>3 DEF Range
  <2>5. Tail(t) = <<"mail">>
    BY <1>5, Tails
  <2>6. c.op = "create"
    BY <1>1, <1>2, <1>5 DEF TodoSound, CallState, Ops
  <2>7. /\ d \in CallState /\ d.op = c.op /\ d.user = c.user /\ d.updates = c.updates
        /\ d.mails = Tail(c.mails) /\ d.todo = <<"mail">>
    BY <1>1, <2>3, <2>5, ListFacts DEF CallState
  <2>8. UpdatesSound(d) /\ TodoSound(d.op, d.todo)
    BY <1>2, <2>6, <2>7 DEF UpdatesSound, TodoSound
  <2>9. MailsSound(d)
    <3>1. d.todo \in OneMail /\ d.todo \notin NoMail \cup TwoMails
      <4>1. d.todo \in OneMail
        BY <2>7 DEF OneMail
      <4>2. QED
        BY <4>1, MailsApart
    <3>2. QED
      BY <2>3, <2>7, <3>1 DEF MailsSound
  <2>10. QED
    BY <1>1, <1>5, <2>2, <2>4, <2>5, <2>6, <2>7, <2>8, <2>9 DEF CallSound
<1>6. QED
  BY <1>3, <1>4, <1>5
-----------------------------------------------------------------------------
(* What the writes make of a user. *)
Fields == {"status", "password", "resetRequired", "failed", "locked", "secret", "codes",
           "enabled", "setupRequired"}
Written(r, up, f) == IF f \in DOMAIN up /\ up[f] # Undefined THEN up[f] ELSE r[f]

LEMMA UndefinedApart ==
    /\ Undefined \notin Id /\ Undefined \notin BOOLEAN /\ Undefined \notin Nat
    /\ Undefined \notin Users /\ Id \subseteq Nat /\ Id \subseteq Value /\ 0 \in Id
    /\ MaxCalls \in Nat /\ MaxFaults \in Nat /\ MaxFailed \in Nat \ {0}
    /\ Undefined \in Value /\ Undefined # TRUE /\ Undefined # FALSE
<1>1. Undefined \notin Users /\ Undefined \notin BOOLEAN /\ Undefined \notin Nat
  BY AccessAssumption
<1>2. Undefined # TRUE /\ Undefined # FALSE
  BY <1>1, Zenon
<1>3. /\ MaxCalls \in Nat /\ MaxFaults \in Nat /\ MaxFailed \in Nat \ {0}
      /\ Id \subseteq Nat /\ 0 \in Id
  BY AccessAssumption DEF Id
<1>4. Undefined \notin Id /\ Id \subseteq Value /\ Undefined \in Value
  BY <1>1, <1>3 DEF Value
<1>5. QED
  BY <1>1, <1>2, <1>3, <1>4

LEMMA UserFields ==
    ASSUME NEW r \in UserRecord
    PROVE  /\ DOMAIN r = Fields
           /\ r.status \in Status \cup RequestedStatus /\ r.password \in Value
           /\ r.resetRequired \in BOOLEAN /\ r.failed \in Nat /\ r.locked \in BOOLEAN
           /\ r.secret \in Value /\ r.codes \in Value /\ r.enabled \in BOOLEAN
           /\ r.setupRequired \in BOOLEAN
BY DEF UserRecord, Fields

LEMMA SecurityFields ==
    ASSUME NEW r \in UserRecord, NEW up
    PROVE  LET w == UpdateSecurity(r, up) IN
           /\ \A f \in Fields : w[f] = Written(r, up, f)
           /\ /\ w.status \in Status \cup RequestedStatus /\ w.password \in Value
              /\ w.resetRequired \in BOOLEAN /\ w.failed \in Nat /\ w.locked \in BOOLEAN
              /\ w.secret \in Value /\ w.codes \in Value /\ w.enabled \in BOOLEAN
              /\ w.setupRequired \in BOOLEAN
              => w \in UserRecord
<1> DEFINE w == UpdateSecurity(r, up)
<1>1. w = [f \in Fields |-> Written(r, up, f)]
  BY UserFields DEF UpdateSecurity, Written
<1> HIDE DEF w
<1>2. \A f \in Fields : w[f] = Written(r, up, f)
  BY <1>1
<1>3. w = [status |-> w.status, password |-> w.password,
           resetRequired |-> w.resetRequired, failed |-> w.failed, locked |-> w.locked,
           secret |-> w.secret, codes |-> w.codes, enabled |-> w.enabled,
           setupRequired |-> w.setupRequired]
  BY <1>1 DEF Fields
<1>4. ASSUME w.status \in Status \cup RequestedStatus, w.password \in Value,
             w.resetRequired \in BOOLEAN, w.failed \in Nat, w.locked \in BOOLEAN,
             w.secret \in Value, w.codes \in Value, w.enabled \in BOOLEAN,
             w.setupRequired \in BOOLEAN
      PROVE  w \in UserRecord
  BY <1>3, <1>4 DEF UserRecord
<1>5. QED
  BY <1>2, <1>4 DEF w

LEMMA WriteLogin ==
    ASSUME NEW r \in UserRecord, NEW up \in LoginWrites
    PROVE  LET w == UpdateSecurity(r, up) IN
           /\ w \in UserRecord /\ w.failed = up.failed
           /\ w.locked = IF up.locked = TRUE THEN TRUE ELSE r.locked
           /\ w.status = r.status /\ w.secret = r.secret /\ w.codes = r.codes
           /\ w.enabled = r.enabled /\ w.setupRequired = r.setupRequired
<1> DEFINE w == UpdateSecurity(r, up)
<1>1. DOMAIN up = {"failed", "locked"} /\ up.failed \in Nat /\ up.locked \in {TRUE, Undefined}
  BY DEF LoginWrites
<1>2. \A f \in Fields : w[f] = Written(r, up, f)
  BY SecurityFields
<1> HIDE DEF w
<1>3. /\ w.failed = up.failed /\ w.locked = IF up.locked = TRUE THEN TRUE ELSE r.locked
      /\ w.status = r.status /\ w.secret = r.secret /\ w.codes = r.codes
      /\ w.enabled = r.enabled /\ w.setupRequired = r.setupRequired
      /\ w.password = r.password /\ w.resetRequired = r.resetRequired
  BY <1>1, <1>2, UndefinedApart DEF Fields, Written
<1>4. w \in UserRecord
  BY <1>1, <1>3, UserFields, SecurityFields, UndefinedApart DEF w
<1>5. QED
  BY <1>3, <1>4 DEF w

LEMMA WritePassword ==
    ASSUME NEW r \in UserRecord, NEW up \in PasswordWrites
    PROVE  LET w == UpdateSecurity(r, up) IN
           /\ w \in UserRecord /\ w.failed = r.failed /\ w.locked = r.locked
           /\ w.status = r.status /\ w.secret = r.secret /\ w.codes = r.codes
           /\ w.enabled = r.enabled /\ w.setupRequired = r.setupRequired
<1> DEFINE w == UpdateSecurity(r, up)
<1>1. DOMAIN up = {"password"} /\ up.password \in Value
  BY DEF PasswordWrites
<1>2. \A f \in Fields : w[f] = Written(r, up, f)
  BY SecurityFields
<1> HIDE DEF w
<1>3. /\ w.failed = r.failed /\ w.locked = r.locked
      /\ w.status = r.status /\ w.secret = r.secret /\ w.codes = r.codes
      /\ w.enabled = r.enabled /\ w.setupRequired = r.setupRequired
      /\ w.password \in {up.password, r.password} /\ w.resetRequired = r.resetRequired
  BY <1>1, <1>2 DEF Fields, Written
<1>4. w \in UserRecord
  BY <1>1, <1>3, UserFields, SecurityFields DEF w
<1>5. QED
  BY <1>3, <1>4 DEF w

LEMMA WriteReset ==
    ASSUME NEW r \in UserRecord, NEW up \in ResetWrites
    PROVE  LET w == UpdateSecurity(r, up) IN
           /\ w \in UserRecord /\ w.failed = 0 /\ w.locked = r.locked
           /\ w.status = r.status /\ w.secret = r.secret /\ w.codes = r.codes
           /\ w.enabled = r.enabled /\ w.setupRequired = r.setupRequired
<1> DEFINE w == UpdateSecurity(r, up)
<1>1. /\ DOMAIN up = {"password", "resetRequired", "failed", "locked"}
      /\ up.password \in Id /\ up.resetRequired = FALSE /\ up.failed = 0
      /\ up.locked = Undefined
  BY DEF ResetWrites
<1>2. \A f \in Fields : w[f] = Written(r, up, f)
  BY SecurityFields
<1> HIDE DEF w
<1>3. /\ w.failed = 0 /\ w.locked = r.locked
      /\ w.status = r.status /\ w.secret = r.secret /\ w.codes = r.codes
      /\ w.enabled = r.enabled /\ w.setupRequired = r.setupRequired
      /\ w.password = up.password /\ w.resetRequired = FALSE
  BY <1>1, <1>2, UndefinedApart DEF Fields, Written
<1>4. w \in UserRecord
  BY <1>1, <1>3, UserFields, SecurityFields, UndefinedApart DEF w
<1>5. QED
  BY <1>3, <1>4 DEF w

LEMMA WriteForce ==
    ASSUME NEW r \in UserRecord, NEW up \in ForceWrites
    PROVE  LET w == UpdateSecurity(r, up) IN
           /\ w \in UserRecord /\ w.failed = r.failed /\ w.locked = r.locked
           /\ w.status = r.status /\ w.secret = r.secret /\ w.codes = r.codes
           /\ w.enabled = r.enabled /\ w.setupRequired = r.setupRequired
<1> DEFINE w == UpdateSecurity(r, up)
<1>1. DOMAIN up = {"resetRequired"} /\ up.resetRequired = TRUE
  BY DEF ForceWrites
<1>2. \A f \in Fields : w[f] = Written(r, up, f)
  BY SecurityFields
<1> HIDE DEF w
<1>3. /\ w.failed = r.failed /\ w.locked = r.locked
      /\ w.status = r.status /\ w.secret = r.secret /\ w.codes = r.codes
      /\ w.enabled = r.enabled /\ w.setupRequired = r.setupRequired
      /\ w.password = r.password /\ w.resetRequired \in {TRUE, r.resetRequired}
  BY <1>1, <1>2 DEF Fields, Written
<1>4. w \in UserRecord
  BY <1>3, UserFields, SecurityFields DEF w
<1>5. QED
  BY <1>3, <1>4 DEF w

LEMMA WriteSetup ==
    ASSUME NEW r \in UserRecord, NEW up \in SetupWrites
    PROVE  LET w == UpdateSecurity(r, up) IN
           /\ w \in UserRecord /\ w.failed = r.failed /\ w.locked = r.locked
           /\ w.status = r.status /\ w.secret = up.secret /\ w.codes = up.codes
           /\ w.enabled = FALSE /\ w.setupRequired = r.setupRequired
<1> DEFINE w == UpdateSecurity(r, up)
<1>1. /\ DOMAIN up = {"secret", "codes", "enabled"}
      /\ up.secret \in Id /\ up.codes \in Id /\ up.enabled = FALSE
  BY DEF SetupWrites
<1>2. \A f \in Fields : w[f] = Written(r, up, f)
  BY SecurityFields
<1> HIDE DEF w
<1>3. /\ w.failed = r.failed /\ w.locked = r.locked
      /\ w.status = r.status /\ w.secret = up.secret /\ w.codes = up.codes
      /\ w.enabled = FALSE /\ w.setupRequired = r.setupRequired
      /\ w.password = r.password /\ w.resetRequired = r.resetRequired
  BY <1>1, <1>2, UndefinedApart DEF Fields, Written
<1>4. w \in UserRecord
  BY <1>1, <1>3, UserFields, SecurityFields, UndefinedApart DEF w
<1>5. QED
  BY <1>3, <1>4 DEF w

LEMMA WriteVerify ==
    ASSUME NEW r \in UserRecord, NEW up \in VerifyWrites
    PROVE  LET w == UpdateSecurity(r, up) IN
           /\ w \in UserRecord /\ w.failed = r.failed /\ w.locked = r.locked
           /\ w.status = r.status /\ w.secret = r.secret /\ w.codes = r.codes
           /\ w.enabled = TRUE /\ w.setupRequired = r.setupRequired
<1> DEFINE w == UpdateSecurity(r, up)
<1>1. DOMAIN up = {"enabled"} /\ up.enabled = TRUE
  BY DEF VerifyWrites
<1>2. \A f \in Fields : w[f] = Written(r, up, f)
  BY SecurityFields
<1> HIDE DEF w
<1>3. /\ w.failed = r.failed /\ w.locked = r.locked
      /\ w.status = r.status /\ w.secret = r.secret /\ w.codes = r.codes
      /\ w.enabled = TRUE /\ w.setupRequired = r.setupRequired
      /\ w.password = r.password /\ w.resetRequired = r.resetRequired
  BY <1>1, <1>2, UndefinedApart DEF Fields, Written
<1>4. w \in UserRecord
  BY <1>1, <1>3, UserFields, SecurityFields, UndefinedApart DEF w
<1>5. QED
  BY <1>3, <1>4 DEF w

LEMMA WriteDisable ==
    ASSUME NEW r \in UserRecord, NEW up \in DisableWrites
    PROVE  LET w == UpdateSecurity(r, up) IN
           /\ w \in UserRecord /\ w.failed = r.failed /\ w.locked = r.locked
           /\ w.status = r.status /\ w.secret = r.secret /\ w.codes = r.codes
           /\ w.enabled = FALSE /\ w.setupRequired = r.setupRequired
<1> DEFINE w == UpdateSecurity(r, up)
<1>1. /\ DOMAIN up = {"enabled", "secret", "codes"} /\ up.enabled = FALSE
      /\ up.secret = Undefined /\ up.codes = Undefined
  BY DEF DisableWrites
<1>2. \A f \in Fields : w[f] = Written(r, up, f)
  BY SecurityFields
<1> HIDE DEF w
<1>3. /\ w.failed = r.failed /\ w.locked = r.locked
      /\ w.status = r.status /\ w.secret = r.secret /\ w.codes = r.codes
      /\ w.enabled = FALSE /\ w.setupRequired = r.setupRequired
      /\ w.password = r.password /\ w.resetRequired = r.resetRequired
  BY <1>1, <1>2, UndefinedApart DEF Fields, Written
<1>4. w \in UserRecord
  BY <1>1, <1>3, UserFields, SecurityFields, UndefinedApart DEF w
<1>5. QED
  BY <1>3, <1>4 DEF w

LEMMA WriteCodes ==
    ASSUME NEW r \in UserRecord, NEW up \in CodesWrites
    PROVE  LET w == UpdateSecurity(r, up) IN
           /\ w \in UserRecord /\ w.failed = r.failed /\ w.locked = r.locked
           /\ w.status = r.status /\ w.secret = r.secret /\ w.codes = up.codes
           /\ w.enabled = r.enabled /\ w.setupRequired = r.setupRequired
<1> DEFINE w == UpdateSecurity(r, up)
<1>1. DOMAIN up = {"codes"} /\ up.codes \in Id
  BY DEF CodesWrites
<1>2. \A f \in Fields : w[f] = Written(r, up, f)
  BY SecurityFields
<1> HIDE DEF w
<1>3. /\ w.failed = r.failed /\ w.locked = r.locked
      /\ w.status = r.status /\ w.secret = r.secret /\ w.codes = up.codes
      /\ w.enabled = r.enabled /\ w.setupRequired = r.setupRequired
      /\ w.password = r.password /\ w.resetRequired = r.resetRequired
  BY <1>1, <1>2, UndefinedApart DEF Fields, Written
<1>4. w \in UserRecord
  BY <1>1, <1>3, UserFields, SecurityFields, UndefinedApart DEF w
<1>5. QED
  BY <1>3, <1>4 DEF w

LEMMA WriteCreate ==
    ASSUME NEW r \in UserRecord, NEW up \in CreateWrites
    PROVE  LET w == UpdateSecurity(r, up) IN
           /\ w \in UserRecord /\ w.failed = r.failed /\ w.locked = r.locked
           /\ w.status = r.status /\ w.secret = up.secret /\ w.codes = up.codes
           /\ w.enabled = up.enabled /\ w.setupRequired = TRUE
<1> DEFINE w == UpdateSecurity(r, up)
<1>1. /\ DOMAIN up = {"password", "enabled", "secret", "codes", "setupRequired"}
      /\ up.password \in Value /\ up.enabled \in BOOLEAN /\ up.secret \in Id
      /\ up.codes \in Id /\ up.setupRequired = TRUE
  BY DEF CreateWrites
<1>2. \A f \in Fields : w[f] = Written(r, up, f)
  BY SecurityFields
<1> HIDE DEF w
<1>3. /\ w.failed = r.failed /\ w.locked = r.locked
      /\ w.status = r.status /\ w.secret = up.secret /\ w.codes = up.codes
      /\ w.enabled = up.enabled /\ w.setupRequired = TRUE
      /\ w.password \in {up.password, r.password} /\ w.resetRequired = r.resetRequired
  BY <1>1, <1>2, UndefinedApart DEF Fields, Written
<1>4. w \in UserRecord
  BY <1>1, <1>3, UserFields, SecurityFields, UndefinedApart DEF w
<1>5. QED
  BY <1>3, <1>4 DEF w

(* Who takes which step. *)
LEMMA StepOps ==
    ASSUME NEW c, CallSound(c), c.op # "none"
    PROVE  /\ c.todo[1] = "create" => c.op = "create"
           /\ c.todo[1] = "write" =>
                 c.op \in {"login", "change", "reset", "forced", "force", "setup",
                           "verify_setup", "disable", "regenerate", "create"}
           /\ c.todo[1] = "update" => c.op \in {"invite", "update"}
           /\ c.todo[1] = "set_status" => c.op = "status"
           /\ c.todo[1] = "store" => c.op = "forgot"
           /\ c.todo[1] = "mark" => c.op = "reset"
           /\ c.todo[1] = "grant" => c.op = "login"
<1>1. TodoSound(c.op, c.todo) /\ c.op \in Ops
  BY DEF CallSound, CallState
<1>2. CASE c.op \in {"login", "reset", "forgot", "force", "invite"}
  <2>1. CASE c.op = "login"
    BY <1>1, <2>1 DEF TodoSound
  <2>2. CASE c.op = "reset"
    BY <1>1, <2>2 DEF TodoSound
  <2>3. CASE c.op \in {"forgot", "invite"}
    BY <1>1, <2>3 DEF TodoSound
  <2>4. CASE c.op = "force"
    BY <1>1, <2>4 DEF TodoSound
  <2>5. QED
    BY <1>2, <2>1, <2>2, <2>3, <2>4
<1>3. CASE c.op \in {"change", "forced", "verify_setup", "disable", "update", "status"}
  BY <1>1, <1>3 DEF TodoSound
<1>4. CASE c.op \in {"setup", "regenerate"}
  BY <1>1, <1>4 DEF TodoSound
<1>5. CASE c.op = "create"
  <2>1. c.todo[1] \in {"create", "write", "mail"}
    BY <1>1, <1>5 DEF TodoSound
  <2>2. QED
    BY <1>5, <2>1
<1>6. QED
  BY <1>1, <1>2, <1>3, <1>4, <1>5 DEF Ops

LEMMA SecurityWritten ==
    ASSUME NEW r \in UserRecord, NEW c, CallSound(c), c.op # "none", c.todo[1] = "write"
    PROVE  LET w == UpdateSecurity(r, c.updates) IN
           /\ w \in UserRecord /\ w.status = r.status
           /\ c.op = "login" => /\ w.failed = c.updates.failed
                                /\ w.locked => r.locked \/ c.updates.locked = TRUE
           /\ c.op # "login" => w.failed \in {0, r.failed} /\ w.locked = r.locked
           /\ c.op \notin {"setup", "create"} => w.secret = r.secret
           /\ c.op \in {"setup", "create", "regenerate"} => w.codes = c.updates.codes
           /\ c.op \notin {"setup", "create", "regenerate"} => w.codes = r.codes
           /\ c.op \in {"setup", "disable"} => w.enabled = FALSE
           /\ c.op \notin {"setup", "disable", "verify_setup", "create"} =>
                 w.enabled = r.enabled
           /\ c.op = "create" => w.setupRequired = TRUE
           /\ c.op # "create" => w.setupRequired = r.setupRequired
<1> DEFINE w == UpdateSecurity(r, c.updates)
<1>1. UpdatesSound(c)
  BY DEF CallSound
<1>2. CASE c.op = "login"
  <2>1. c.updates \in LoginWrites
    BY <1>1, <1>2 DEF UpdatesSound
  <2>2. /\ w \in UserRecord /\ w.failed = c.updates.failed
        /\ w.locked = IF c.updates.locked = TRUE THEN TRUE ELSE r.locked
        /\ w.status = r.status /\ w.secret = r.secret /\ w.codes = r.codes
        /\ w.enabled = r.enabled /\ w.setupRequired = r.setupRequired
    BY <2>1, WriteLogin
  <2>3. w.locked => r.locked \/ c.updates.locked = TRUE
    <3>1. CASE c.updates.locked = TRUE
      BY <3>1
    <3>2. CASE c.updates.locked # TRUE
      BY <2>2, <3>2
    <3>3. QED
      BY <3>1, <3>2
  <2> HIDE DEF w
  <2>4. QED
    BY <1>2, <2>2, <2>3 DEF w
<1>3. CASE c.op = "change"
  <2>1. c.updates \in PasswordWrites
    BY <1>1, <1>3 DEF UpdatesSound
  <2>2. QED
    BY <1>3, <2>1, WritePassword
<1>4. CASE c.op \in {"reset", "forced"}
  <2>1. c.updates \in ResetWrites
    BY <1>1, <1>4 DEF UpdatesSound
  <2>2. QED
    BY <1>4, <2>1, WriteReset
<1>5. CASE c.op = "force"
  <2>1. c.updates \in ForceWrites
    BY <1>1, <1>5 DEF UpdatesSound
  <2>2. QED
    BY <1>5, <2>1, WriteForce
<1>6. CASE c.op = "setup"
  <2>1. c.updates \in SetupWrites
    BY <1>1, <1>6 DEF UpdatesSound
  <2>2. QED
    BY <1>6, <2>1, WriteSetup
<1>7. CASE c.op = "verify_setup"
  <2>1. c.updates \in VerifyWrites
    BY <1>1, <1>7 DEF UpdatesSound
  <2>2. QED
    BY <1>7, <2>1, WriteVerify
<1>8. CASE c.op = "disable"
  <2>1. c.updates \in DisableWrites
    BY <1>1, <1>8 DEF UpdatesSound
  <2>2. QED
    BY <1>8, <2>1, WriteDisable
<1>9. CASE c.op = "regenerate"
  <2>1. c.updates \in CodesWrites
    BY <1>1, <1>9 DEF UpdatesSound
  <2>2. QED
    BY <1>9, <2>1, WriteCodes
<1>10. CASE c.op = "create"
  <2>1. c.updates \in CreateWrites
    BY <1>1, <1>10 DEF UpdatesSound
  <2>2. QED
    BY <1>10, <2>1, WriteCreate
<1>11. QED
  BY <1>2, <1>3, <1>4, <1>5, <1>6, <1>7, <1>8, <1>9, <1>10, StepOps
-----------------------------------------------------------------------------
(* How a call goes on. *)
Later(d, c) ==
    \/ d = c
    \/ d = Idle
    \/ /\ c.op # "none" /\ Len(c.todo) # 1
       /\ d.op = c.op /\ d.user = c.user /\ d.token = c.token /\ d.updates = c.updates
       /\ d.todo = Tail(c.todo)

CallsGoOn ==
    /\ call' \in [Slots -> CallState] /\ (\A r \in Slots : CallSound(call'[r]))
    /\ \A r \in Slots : Later(call'[r], call[r])

LEMMA AtStep ==
    ASSUME Base, NEW s \in Slots, NEW step, At(s, step)
    PROVE  /\ call[s] \in CallState /\ CallSound(call[s]) /\ Busy(s)
           /\ call[s].user \in Users /\ call[s].todo \in Lists /\ call[s].todo[1] = step
           /\ user[call[s].user] \in UserRecord
           /\ DOMAIN call[s] =
                 {"op", "user", "id", "todo", "updates", "token", "mails"}
<1>1. call[s] \in CallState /\ CallSound(call[s]) /\ call[s] # Idle
  BY DEF Base, At
<1>2. call[s].op # "none"
  BY <1>1 DEF CallSound
<1>3. call[s].todo \in Lists /\ call[s].user \in Users
  BY <1>1, <1>2, Planned
<1>4. call[s].todo[1] = step
  BY <1>3, ListFacts DEF At
<1>5. user[call[s].user] \in UserRecord
  BY <1>3 DEF Base, TypeOK
<1>6. DOMAIN call[s] = {"op", "user", "id", "todo", "updates", "token", "mails"}
  BY <1>1 DEF CallState
<1>7. QED
  BY <1>1, <1>2, <1>3, <1>4, <1>5, <1>6 DEF Busy

LEMMA Advances ==
    ASSUME Base, NEW s \in Slots, NEW step, At(s, step), step # "mail", Advance(s)
    PROVE  /\ CallsGoOn
           /\ \A r \in Slots \ {s} : call'[r] = call[r]
           /\ Len(call[s].todo) = 1 => call'[s] = Idle
           /\ Len(call[s].todo) # 1 =>
                 /\ call'[s].op = call[s].op /\ call'[s].user = call[s].user
                 /\ call'[s].token = call[s].token /\ call'[s].updates = call[s].updates
                 /\ call'[s].todo = Tail(call[s].todo)
           /\ \A u \in Users : \A m \in Mail : Due(u, m) => Due(u, m)'
<1> DEFINE c == call[s]
           d == [c EXCEPT !.todo = Tail(c.todo)]
           e == IF Len(c.todo) = 1 THEN Idle ELSE d
<1>1. /\ c \in CallState /\ CallSound(c) /\ c.op # "none" /\ c.todo \in Lists
      /\ c.todo[1] = step /\ call \in [Slots -> CallState]
      /\ \A r \in Slots : CallSound(call[r])
  BY AtStep DEF Busy, Base
<1>2. call' = [call EXCEPT ![s] = e]
  BY DEF Advance
<1>3. Len(c.todo) # 1 =>
        /\ CallSound(d) /\ d.op = c.op /\ d.user = c.user /\ d.token = c.token
        /\ d.updates = c.updates /\ d.todo = Tail(c.todo) /\ d.mails = c.mails
  <2>1. Len(c.todo) # 1 => CallSound(d)
    BY <1>1, PlanGoesOn
  <2>2. QED
    BY <1>1, <2>1 DEF CallState
<1>4. Len(c.todo) = 1 => c.mails = <<>>
  <2> SUFFICES ASSUME Len(c.todo) = 1 PROVE c.mails = <<>>
    OBVIOUS
  <2>1. c.todo \in {<<"write">>, <<"grant">>, <<"mark">>, <<"create">>, <<"update">>,
                    <<"set_status">>}
    BY <1>1, ListFacts
  <2>2. c.todo \in NoMail /\ MailsSound(c) /\ c.mails \in Seq(Mail)
    BY <1>1, <2>1 DEF NoMail, CallSound, CallState
  <2>3. Len(c.mails) = 0
    BY <2>2 DEF MailsSound
  <2>4. QED
    BY <2>2, <2>3, EmptySeq
<1>5. CallSound(e) /\ Later(e, c)
  BY <1>1, <1>3, IdleSound DEF Later
<1> HIDE DEF e, d
<1>6. call'[s] = e /\ \A r \in Slots \ {s} : call'[r] = call[r]
  BY <1>1, <1>2
<1>7. CallsGoOn
  <2>1. e \in CallState
    BY <1>5 DEF CallSound
  <2>2. call' \in [Slots -> CallState]
    BY <1>1, <1>2, <2>1
  <2>3. \A r \in Slots : CallSound(call'[r]) /\ Later(call'[r], call[r])
    BY <1>1, <1>5, <1>6 DEF Later
  <2>4. QED
    BY <2>2, <2>3 DEF CallsGoOn
<1>8. ASSUME NEW u \in Users, NEW m \in Mail, Due(u, m) PROVE Due(u, m)'
  <2>1. PICK r \in Slots : call[r].user = u /\ m \in Range(call[r].mails)
    BY <1>8 DEF Due
  <2>2. CASE r # s
    BY <1>6, <2>1, <2>2 DEF Due
  <2>3. CASE r = s
    <3>1. Len(c.todo) # 1
      BY <1>4, <2>1, <2>3 DEF Range
    <3>2. e.user = u /\ e.mails = c.mails
      BY <1>3, <2>1, <2>3, <3>1 DEF e
    <3>3. QED
      BY <1>6, <2>1, <2>3, <3>2 DEF Due
  <2>4. QED
    BY <2>2, <2>3
<1>9. Len(c.todo) # 1 =>
        /\ e.op = c.op /\ e.user = c.user /\ e.token = c.token
        /\ e.updates = c.updates /\ e.todo = Tail(c.todo)
  BY <1>3 DEF e
<1>10. Len(c.todo) = 1 => e = Idle
  BY DEF e
<1>11. QED
  BY <1>6, <1>7, <1>8, <1>9, <1>10

LEMMA MailAdvances ==
    ASSUME Base, NEW s \in Slots, At(s, "mail"), MailDone(s)
    PROVE  /\ CallsGoOn /\ \A r \in Slots \ {s} : call'[r] = call[r]
           /\ Head(call[s].mails) \in Mail
           /\ \A u \in Users : \A m \in Mail :
                 Due(u, m) /\ m # Head(call[s].mails) => Due(u, m)'
<1> DEFINE c == call[s]
           d == [c EXCEPT !.todo = Tail(c.todo), !.mails = Tail(c.mails)]
           e == IF Len(c.todo) = 1 THEN Idle ELSE d
<1>1. /\ c \in CallState /\ CallSound(c) /\ c.op # "none" /\ c.todo \in Lists
      /\ c.todo[1] = "mail" /\ call \in [Slots -> CallState]
      /\ \A r \in Slots : CallSound(call[r])
  BY AtStep DEF Busy, Base
<1>2. call' = [call EXCEPT ![s] = e]
  BY DEF MailDone
<1>3. /\ Head(c.mails) = c.mails[1] /\ c.mails[1] \in Mail
      /\ Len(c.todo) = 1 => Range(c.mails) = {c.mails[1]}
      /\ Len(c.todo) # 1 =>
            CallSound(d) /\ Range(c.mails) = {c.mails[1]} \cup Range(Tail(c.mails))
  BY <1>1, MailsGoOn
<1>4. Len(c.todo) # 1 =>
        /\ d.op = c.op /\ d.user = c.user /\ d.token = c.token
        /\ d.updates = c.updates /\ d.todo = Tail(c.todo) /\ d.mails = Tail(c.mails)
  BY <1>1 DEF CallState
<1>5. CallSound(e) /\ Later(e, c)
  BY <1>1, <1>3, <1>4, IdleSound DEF Later
<1>6. Len(c.todo) # 1 => e.user = c.user /\ e.mails = Tail(c.mails)
  BY <1>4
<1> HIDE DEF e, d
<1>7. call'[s] = e /\ \A r \in Slots \ {s} : call'[r] = call[r]
  BY <1>1, <1>2
<1>8. CallsGoOn
  <2>1. e \in CallState
    BY <1>5 DEF CallSound
  <2>2. call' \in [Slots -> CallState]
    BY <1>1, <1>2, <2>1
  <2>3. \A r \in Slots : CallSound(call'[r]) /\ Later(call'[r], call[r])
    BY <1>1, <1>5, <1>7 DEF Later
  <2>4. QED
    BY <2>2, <2>3 DEF CallsGoOn
<1>9. ASSUME NEW u \in Users, NEW m \in Mail, Due(u, m), m # Head(c.mails) PROVE Due(u, m)'
  <2>1. PICK r \in Slots : call[r].user = u /\ m \in Range(call[r].mails)
    BY <1>9 DEF Due
  <2>2. CASE r # s
    BY <1>7, <2>1, <2>2 DEF Due
  <2>3. CASE r = s
    <3>1. Len(c.todo) # 1 /\ m \in Range(Tail(c.mails))
      BY <1>3, <1>9, <2>1, <2>3
    <3>2. QED
      BY <1>6, <1>7, <2>1, <2>3, <3>1 DEF Due
  <2>4. QED
    BY <2>2, <2>3
<1>10. QED
  BY <1>3, <1>7, <1>8, <1>9

LEMMA EndsCalls ==
    ASSUME Base, NEW ended \in SUBSET Slots, CallsEnd(ended)
    PROVE  /\ CallsGoOn
           /\ \A r \in Slots : call'[r] = IF r \in ended THEN Idle ELSE call[r]
           /\ lost' \subseteq Mail /\ lost \subseteq lost'
           /\ \A u \in Users : \A m \in Mail : Due(u, m) => Due(u, m)' \/ m \in lost'
<1>1. call' = [s \in Slots |-> IF s \in ended THEN Idle ELSE call[s]]
  BY DEF CallsEnd
<1>2. call \in [Slots -> CallState] /\ \A r \in Slots : CallSound(call[r])
  BY DEF Base
<1>3. \A r \in Slots : call'[r] = IF r \in ended THEN Idle ELSE call[r]
  BY <1>1
<1>4. CallsGoOn
  <2>1. \A r \in Slots : CallSound(call'[r]) /\ Later(call'[r], call[r])
    BY <1>2, <1>3, IdleSound DEF Later
  <2>2. Idle \in CallState
    BY IdleSound DEF CallSound
  <2>3. call' \in [Slots -> CallState]
    BY <1>1, <1>2, <2>2
  <2>4. QED
    BY <2>1, <2>3 DEF CallsGoOn
<1>5. lost' = lost \cup UNION {Range(call[s].mails) : s \in ended}
  BY DEF CallsEnd
<1>6. \A s \in Slots : Range(call[s].mails) \subseteq Mail
  <2> SUFFICES ASSUME NEW s \in Slots PROVE Range(call[s].mails) \subseteq Mail
    OBVIOUS
  <2>1. call[s].mails \in Seq(Mail)
    BY <1>2 DEF CallState
  <2>2. \A i \in DOMAIN call[s].mails : call[s].mails[i] \in Mail
    BY <2>1, LenProperties, ElementOfSeq
  <2>3. QED
    BY <2>2 DEF Range
<1>7. lost' \subseteq Mail /\ lost \subseteq lost'
  BY <1>5, <1>6 DEF Base, TypeOK
<1>8. ASSUME NEW u \in Users, NEW m \in Mail, Due(u, m) PROVE Due(u, m)' \/ m \in lost'
  <2>1. PICK r \in Slots : call[r].user = u /\ m \in Range(call[r].mails)
    BY <1>8 DEF Due
  <2>2. CASE r \in ended
    BY <1>5, <2>1, <2>2
  <2>3. CASE r \notin ended
    BY <1>3, <2>1, <2>3 DEF Due
  <2>4. QED
    BY <2>2, <2>3
<1>9. QED
  BY <1>3, <1>4, <1>7, <1>8

LEMMA CallsStay ==
    ASSUME Base, UNCHANGED call
    PROVE  /\ CallsGoOn /\ \A r \in Slots : call'[r] = call[r]
           /\ \A u \in Users : \A m \in Mail : Due(u, m) => Due(u, m)'
BY DEF Base, CallsGoOn, Later, Due

(* A call that goes on has the same user, values and token; the rest of    *)
(* its plan has no first step but to write, mark, grant or mail.           *)
LEMMA GoneOn ==
    ASSUME Base, CallsGoOn, NEW r \in Slots, Busy(r)'
    PROVE  /\ Busy(r)
           /\ call'[r].op = call[r].op /\ call'[r].user = call[r].user
           /\ call'[r].token = call[r].token /\ call'[r].updates = call[r].updates
           /\ \/ call'[r] = call[r]
              \/ /\ call'[r].todo[1] \notin {"create", "store"}
                 /\ call'[r].todo[1] = "write" => call[r].op = "create"
                 /\ call'[r].todo = Tail(call[r].todo) /\ Len(call[r].todo) # 1
<1>1. CallSound(call[r]) /\ Later(call'[r], call[r]) /\ call'[r] # Idle
  BY IdleSound DEF CallsGoOn, Base, Busy
<1>2. CASE call'[r] = call[r]
  BY <1>2 DEF Busy
<1>3. CASE call'[r] # call[r]
  <2> DEFINE t == call[r].todo
  <2>1. /\ call[r].op # "none" /\ Len(t) # 1 /\ call'[r].op = call[r].op
        /\ call'[r].user = call[r].user /\ call'[r].token = call[r].token
        /\ call'[r].updates = call[r].updates /\ call'[r].todo = Tail(t)
    BY <1>1, <1>3 DEF Later
  <2>2. t \in Lists /\ TodoSound(call[r].op, t)
    BY <1>1, <2>1, Planned DEF CallSound
  <2>3. t \in {<<"write", "grant">>, <<"write", "mark">>, <<"write", "mail">>,
               <<"store", "mail">>, <<"create", "mail">>, <<"create", "write", "mail">>,
               <<"update", "mail">>, <<"mail", "mail">>, <<"write", "mail", "mail">>,
               <<"create", "write", "mail", "mail">>}
    BY <2>1, <2>2 DEF Lists, NoMail, OneMail, TwoMails
  <2>4. /\ Tail(t)[1] \notin {"create", "store"}
        /\ Tail(t)[1] = "write" => t[1] = "create"
    <3> DEFINE rest == Tail(t)
    <3>1. CASE t \in {<<"create", "write", "mail">>, <<"create", "write", "mail", "mail">>}
      <4>1. rest \in {<<"write", "mail">>, <<"write", "mail", "mail">>}
        BY <3>1, Tails
      <4> HIDE DEF rest
      <4>2. rest[1] = "write"
        BY <4>1
      <4>3. t[1] = "create"
        BY <3>1
      <4>4. QED
        BY <4>2, <4>3 DEF rest
    <3>2. CASE t \in {<<"write", "grant">>, <<"write", "mark">>, <<"write", "mail">>,
                      <<"store", "mail">>, <<"create", "mail">>, <<"update", "mail">>,
                      <<"mail", "mail">>, <<"write", "mail", "mail">>}
      <4>1. rest \in {<<"grant">>, <<"mark">>, <<"mail">>, <<"mail", "mail">>}
        BY <3>2, Tails
      <4> HIDE DEF rest
      <4>2. rest[1] \notin {"create", "store", "write"}
        BY <4>1
      <4>3. QED
        BY <4>2 DEF rest
    <3>3. QED
      BY <2>3, <3>1, <3>2
  <2>5. t[1] = "create" => call[r].op = "create"
    BY <1>1, <2>1, StepOps
  <2>6. QED
    BY <2>1, <2>4, <2>5 DEF Busy
<1>4. QED
  BY <1>2, <1>3
-----------------------------------------------------------------------------
(* What a step that begins no request keeps, part by part. *)
LEMMA TypeMoves ==
    ASSUME Base, call' \in [Slots -> CallState], UNCHANGED setting,
           user' \in [Users -> UserRecord], tokens' \subseteq Token, sessions' \subseteq Users,
           mails' \subseteq Mail, told' \subseteq Mail, lost' \subseteq Mail,
           begun' \in 0..MaxCalls, faults' \in 0..MaxFaults
    PROVE  TypeOK'
<1>1. \A s \in Slots :
         /\ call'[s].user \in Users \cup {Undefined}
         /\ call'[s].todo \in Seq(Steps) /\ call'[s].mails \in Seq(Mail)
         /\ {call'[s].id, call'[s].token} \subseteq Id
  BY DEF CallState
<1>2. setting'.mfa \in BOOLEAN /\ setting'.group \in Groups
  BY DEF Base, TypeOK
<1>3. QED
  BY <1>1, <1>2 DEF TypeOK

LEMMA UsersMove ==
    ASSUME Base, CallsGoOn,
           \A u \in Users : /\ Stored(u)' <=> Stored(u)
                            /\ ~Stored(u) => user'[u] = user[u],
           \A r \in Slots : Busy(r) /\ call[r].todo[1] = "create"
                            => call'[r] = call[r] \/ call'[r] = Idle,
           tokens' \subseteq Token, \A k \in tokens' : Stored(k.user)
    PROVE  UsersSound'
<1>1. \A u \in Users : (~Stored(u))' => user'[u] = Absent
  BY DEF Base, UsersSound
<1>2. ASSUME NEW s \in Slots, Busy(s)'
      PROVE  (Stored(call[s].user) <=> call[s].todo[1] # "create")'
  <2>1. /\ Busy(s) /\ call'[s].user = call[s].user
        /\ call'[s] = call[s] \/ call'[s].todo[1] # "create"
    BY <1>2, GoneOn
  <2>2. call[s].user \in Users /\ (Stored(call[s].user) <=> call[s].todo[1] # "create")
    BY <2>1, Planned DEF Base, UsersSound, Busy
  <2>3. CASE call[s].todo[1] = "create"
    <3>1. call'[s] = call[s]
      BY <1>2, <2>1, <2>3, IdleSound DEF Busy
    <3>2. QED
      BY <2>2, <3>1 DEF Stored
  <2>4. CASE call[s].todo[1] # "create"
    <3>1. call'[s].todo[1] # "create"
      BY <2>1, <2>4
    <3>2. user'[call[s].user].status # "absent"
      BY <2>2, <2>4 DEF Stored
    <3>3. QED
      BY <2>1, <3>1, <3>2 DEF Stored
  <2>5. QED
    BY <2>3, <2>4
<1>3. ASSUME NEW r \in Slots, NEW s \in Slots, call'[r].op = "create", call'[s].op = "create",
             call'[r].user = call'[s].user
      PROVE  r = s
  <2>1. Busy(r)' /\ Busy(s)'
    BY <1>3 DEF Busy
  <2>2. call[r].op = "create" /\ call[s].op = "create" /\ call[r].user = call[s].user
    BY <1>3, <2>1, GoneOn
  <2>3. QED
    BY <2>2 DEF Base, UsersSound
<1>4. \A k \in tokens' : Stored(k.user)'
  BY DEF Stored, Token
<1>5. QED
  BY <1>1, <1>2, <1>3, <1>4 DEF UsersSound

LEMMA LocksMove ==
    ASSUME Base, LockSound, CallsGoOn, past'.wrong = past.wrong,
           \A u \in Users : /\ user'[u].failed <= past.wrong[u]
                            /\ user'[u].locked => past.wrong[u] >= MaxFailed
    PROVE  LockSound'
<1>1. ASSUME NEW s \in Slots, call'[s].op = "login"
      PROVE  /\ call'[s].updates.failed <= past'.wrong[call'[s].user]
             /\ call'[s].updates.locked = TRUE => past'.wrong[call'[s].user] >= MaxFailed
  <2>1. Busy(s)'
    BY <1>1 DEF Busy
  <2>2. /\ call[s].op = "login" /\ call'[s].user = call[s].user
        /\ call'[s].updates = call[s].updates
    BY <1>1, <2>1, GoneOn
  <2>3. QED
    BY <2>2 DEF LockSound
<1>2. QED
  BY <1>1 DEF LockSound

LEMMA TokensMove ==
    ASSUME Base, TokensSound, CallsGoOn, UNCHANGED begun, tokens' \subseteq tokens,
           faults' \in Nat, faults <= faults',
           past'.uses = past.uses, past'.overlapped = past.overlapped,
           \/ faults' >= faults + 1
           \/ \A r \in Slots : call[r].op = "reset" /\ call[r].todo[1] = "mark"
                               => call'[r] = call[r]
    PROVE  TokensSound'
<1>1. \A t : \A r \in Slots : Resets(r, t)' =>
        /\ Resets(r, t)
        /\ call'[r].todo[1] = "write" => call[r].todo[1] = "write"
  <2> SUFFICES ASSUME NEW t, NEW r \in Slots, Resets(r, t)'
               PROVE  /\ Resets(r, t)
                      /\ call'[r].todo[1] = "write" => call[r].todo[1] = "write"
    OBVIOUS
  <2>1. Busy(r)' /\ call'[r].op = "reset"
    BY DEF Resets, Busy
  <2>2. QED
    BY <2>1, GoneOn DEF Resets
<1>2. \A r \in Slots : Storing(r)' => Storing(r) /\ call'[r].token = call[r].token
  <2> SUFFICES ASSUME NEW r \in Slots, Storing(r)'
               PROVE  Storing(r) /\ call'[r].token = call[r].token
    OBVIOUS
  <2>1. Busy(r)' /\ call'[r].op = "forgot" /\ call'[r].todo[1] = "store"
    BY DEF Storing, Busy
  <2>2. QED
    BY <2>1, GoneOn DEF Storing
<1>3. /\ past.uses \in [Id -> Nat] /\ faults \in Nat
      /\ past.overlapped \subseteq Id
  BY UndefinedApart DEF Base, Memory, TypeOK
<1>4. ASSUME NEW t \in Id \ past.overlapped PROVE TokenSound(t)'
  <2>1. TokenSound(t) /\ past.uses[t] \in Nat /\ past'.uses[t] = past.uses[t]
    BY <1>3, <1>4 DEF TokensSound
  <2>2. past'.uses[t] <= 1 + faults'
    BY <1>3, <2>1 DEF TokenSound
  <2>3. \A r, s \in Slots : Resets(r, t)' /\ Resets(s, t)' => r = s
    BY <1>1, <2>1 DEF TokenSound
  <2>4. \A s \in Slots : Resets(s, t)' /\ call'[s].todo[1] = "write"
                         => past'.uses[t] <= faults'
    BY <1>1, <1>3, <2>1 DEF TokenSound
  <2>5. ASSUME \E k \in tokens' : k.id = t /\ ~k.used, ~Marking(t)'
        PROVE  past'.uses[t] <= faults'
    <3>1. CASE faults' >= faults + 1
      BY <1>3, <2>1, <3>1 DEF TokenSound
    <3>2. CASE ~(faults' >= faults + 1)
      <4>1. ~Marking(t)
        BY <2>5, <3>2 DEF Marking, Resets
      <4>2. \E k \in tokens : k.id = t /\ ~k.used
        BY <2>5
      <4>3. past.uses[t] <= faults
        BY <2>1, <4>1, <4>2 DEF TokenSound
      <4>4. QED
        BY <1>3, <2>1, <4>3
    <3>3. QED
      BY <3>1, <3>2
  <2>6. QED
    BY <2>2, <2>3, <2>4, <2>5 DEF TokenSound
<1>5. \A s \in Slots : call'[s].token <= begun
  <2> SUFFICES ASSUME NEW s \in Slots PROVE call'[s].token <= begun
    OBVIOUS
  <2>1. CASE Busy(s)'
    <3>1. call'[s].token = call[s].token
      BY <2>1, GoneOn
    <3>2. QED
      BY <3>1 DEF TokensSound
  <2>2. CASE ~Busy(s)'
    <3>1. call'[s] = Idle /\ begun \in Nat
      BY <2>2, UndefinedApart DEF Busy, CallsGoOn, CallSound, Base, TypeOK
    <3>2. QED
      BY <3>1, IdleSound
  <2>3. QED
    BY <2>1, <2>2
<1>6. ASSUME NEW s \in Slots, Storing(s)'
      PROVE  /\ past'.uses[call'[s].token] = 0
             /\ \A k \in tokens' : k.id # call'[s].token
             /\ \A r \in Slots : ~(call'[r].op = "reset" /\ call'[r].token = call'[s].token)
             /\ \A r \in Slots : Storing(r)' /\ call'[r].token = call'[s].token => r = s
  <2>1. Storing(s) /\ call'[s].token = call[s].token
    BY <1>2, <1>6
  <2> DEFINE n == call[s].token
  <2>2. /\ past.uses[n] = 0 /\ \A k \in tokens : k.id # n
        /\ \A r \in Slots : ~Resets(r, n)
        /\ \A r \in Slots : Storing(r) /\ call[r].token = n => r = s
    BY <2>1 DEF TokensSound
  <2>3. \A r \in Slots : ~(call'[r].op = "reset" /\ call'[r].token = n)
    BY <1>1, <2>2 DEF Resets
  <2>4. \A r \in Slots : Storing(r)' /\ call'[r].token = n => r = s
    BY <1>2, <2>2
  <2> HIDE DEF n
  <2>5. \A r \in Slots : ~(call'[r].op = "reset" /\ call'[r].token = call'[s].token)
    BY <2>1, <2>3 DEF n
  <2>6. QED
    BY <2>1, <2>2, <2>4, <2>5 DEF Resets, n
<1>7. \A s \in Slots : Storing(s)' =>
         /\ past'.uses[call'[s].token] = 0
         /\ \A k \in tokens' : k.id # call'[s].token
         /\ \A r \in Slots : ~(call'[r].op = "reset" /\ call'[r].token = call'[s].token)
         /\ \A r \in Slots : Storing(r)' /\ call'[r].token = call'[s].token => r = s
  BY <1>6
<1>8. /\ \A t \in Id : t > begun => past'.uses[t] = 0
      /\ \A k \in tokens' : k.id <= begun
  BY DEF TokensSound
<1>9. QED
  BY <1>4, <1>5, <1>7, <1>8 DEF TokensSound, Resets

LEMMA FactorsMove ==
    ASSUME Base, FactorSound, CallsGoOn, past'.proven = past.proven,
           past'.raced = past.raced, past.halfMade \subseteq past'.halfMade,
           \A u \in Users : /\ user'[u].enabled = user[u].enabled
                            /\ user'[u].secret = user[u].secret
                            /\ user'[u].setupRequired = user[u].setupRequired,
           \A s \in Slots : call[s].op = "create" /\ call[s].todo[1] = "write"
                            => call'[s] = call[s] \/ call[s].user \in past'.halfMade
    PROVE  FactorSound'
<1>1. \A u \in Users : Factored(u) => Factored(u)'
  BY DEF Factored
<1>2. ASSUME NEW u \in Users, user'[u].enabled
      PROVE  \/ Factored(u)' \/ u \in past'.halfMade
             \/ \E s \in Slots : /\ call'[s].op = "create" /\ call'[s].user = u
                                 /\ call'[s].todo[1] = "write"
  <2>1. user[u].enabled
    BY <1>2
  <2>2. CASE Factored(u) \/ u \in past.halfMade
    BY <1>1, <2>2
  <2>3. CASE \E s \in Slots : /\ call[s].op = "create" /\ call[s].user = u
                              /\ call[s].todo[1] = "write"
    BY <2>3
  <2>4. QED
    BY <2>1, <2>2, <2>3 DEF FactorSound
<1>3. ASSUME NEW s \in Slots, call'[s].op = "verify_setup"
      PROVE  Factored(call[s].user)' /\ call'[s].user = call[s].user
  <2>1. Busy(s)'
    BY <1>3 DEF Busy
  <2>2. call[s].op = "verify_setup" /\ call'[s].user = call[s].user /\ Busy(s)
    BY <1>3, <2>1, GoneOn
  <2>3. call[s].user \in Users
    BY <2>2, Planned DEF Base, Busy
  <2>4. PICK u \in Users : u = call[s].user
    BY <2>3
  <2>5. Factored(u)'
    BY <1>1, <2>2, <2>4 DEF FactorSound
  <2>6. QED
    BY <2>2, <2>4, <2>5 DEF Factored
<1>4. ASSUME NEW s \in Slots, call'[s].op = "create", call'[s].updates.enabled,
             call'[s].todo \in {<<"create">>, <<"create", "mail">>}
      PROVE  call'[s].user \in past'.halfMade
  <2>1. Busy(s)'
    BY <1>4 DEF Busy
  <2>2. call'[s].todo[1] = "create"
    BY <1>4
  <2>3. call'[s] = call[s]
    BY <2>1, <2>2, GoneOn
  <2>4. QED
    BY <1>4, <2>3 DEF FactorSound
<1>5. QED
  BY <1>2, <1>3, <1>4 DEF FactorSound, Factored

(* What is mailed stays so. *)
OutKept ==
    \A u \in Users : \A m \in Mail :
        m \in mails \cup told \cup lost \/ Due(u, m)
        => m \in mails' \cup told' \cup lost' \/ Due(u, m)'

LEMMA MailedStays ==
    ASSUME OutKept, NEW u \in Users, NEW x, Mailed(u, x) PROVE Mailed(u, x)'
<1>1. PICK m \in MailsOf(u, x) : m \in mails \cup told \cup lost \/ Due(u, m)
  BY DEF Mailed
<1>2. m \in Mail
  BY DEF MailsOf
<1>3. m \in mails' \cup told' \cup lost' \/ Due(u, m)'
  BY <1>1, <1>2 DEF OutKept
<1>4. QED
  BY <1>3 DEF Mailed, MailsOf

LEMMA WritesStay ==
    ASSUME Base, CallsGoOn, NEW s \in Slots
    PROVE  /\ WritesCodes(s)' => WritesCodes(s)
           /\ Storing(s)' => Storing(s)
           /\ WritesCodes(s)' \/ Storing(s)' =>
                 /\ call'[s].user = call[s].user /\ call'[s].token = call[s].token
                 /\ call'[s].updates = call[s].updates /\ call[s].user \in Users
<1>1. (WritesCodes(s) \/ Storing(s))' => Busy(s)'
  BY DEF WritesCodes, Storing, Busy
<1>2. Busy(s)' => Busy(s) /\ call[s].user \in Users
  BY GoneOn, Planned DEF Base, Busy
<1>3. Storing(s)' => Storing(s)
  BY <1>1, GoneOn DEF Storing
<1>4. WritesCodes(s)' => WritesCodes(s)
  <2> SUFFICES ASSUME WritesCodes(s)' PROVE WritesCodes(s)
    OBVIOUS
  <2>1. Busy(s)'
    BY <1>1
  <2>2. CASE call'[s] = call[s]
    BY <2>2 DEF WritesCodes
  <2>3. CASE call'[s] # call[s]
    <3>1. /\ call'[s].op = call[s].op /\ Len(call[s].todo) # 1
          /\ call'[s].todo = Tail(call[s].todo)
          /\ call'[s].todo[1] = "write" => call[s].op = "create"
          /\ call'[s].todo[1] # "create"
      BY <2>1, <2>3, GoneOn
    <3>2. /\ call'[s].op = "create" /\ call[s].op = "create"
          /\ call'[s].todo \in {<<"create", "write", "mail">>,
                                <<"create", "write", "mail", "mail">>,
                                <<"write", "mail">>, <<"write", "mail", "mail">>}
      BY <3>1 DEF WritesCodes
    <3>3. call'[s].todo \in {<<"write", "mail">>, <<"write", "mail", "mail">>}
      <4> DEFINE now == call'[s].todo
      <4>1. now[1] # "create"
        BY <3>1
      <4>2. now \in {<<"create", "write", "mail">>, <<"create", "write", "mail", "mail">>,
                    <<"write", "mail">>, <<"write", "mail", "mail">>}
        BY <3>2
      <4> HIDE DEF now
      <4>3. now # <<"create", "write", "mail">> /\ now # <<"create", "write", "mail", "mail">>
        BY <4>1
      <4>4. QED
        BY <4>2, <4>3 DEF now
    <3>4. call[s].todo \in {<<"create">>, <<"create", "mail">>, <<"create", "write", "mail">>,
                            <<"create", "write", "mail", "mail">>, <<"write", "mail">>,
                            <<"write", "mail", "mail">>, <<"mail">>, <<"mail", "mail">>}
      BY <3>2 DEF Base, CallSound, TodoSound
    <3>5. call[s].todo \notin {<<"create", "mail">>, <<"mail", "mail">>, <<"create">>,
                               <<"mail">>}
      <4> DEFINE rest == Tail(call[s].todo)
      <4>1. CASE call[s].todo \in {<<"create", "mail">>, <<"mail", "mail">>}
        <5>1. rest = <<"mail">>
          BY <4>1, Tails
        <5> HIDE DEF rest
        <5>2. rest[1] = "mail"
          BY <5>1
        <5>3. call'[s].todo[1] = "write"
          BY <3>3
        <5>4. QED
          BY <3>1, <5>2, <5>3 DEF rest
      <4>2. QED
        BY <3>1, <4>1
    <3>6. QED
      BY <3>2, <3>4, <3>5 DEF WritesCodes
  <2>4. QED
    BY <2>2, <2>3
<1>5. QED
  BY <1>1, <1>2, <1>3, <1>4, GoneOn

LEMMA MailsMove ==
    ASSUME Base, MailSound, CallsGoOn, OutKept, tokens' \subseteq Token,
           \A u \in Users : user'[u].codes \in {user[u].codes, Undefined}
                            \/ Mailed(u, user'[u].codes),
           \A k \in tokens' : \/ \E i \in tokens : i.id = k.id /\ i.user = k.user
                              \/ Mailed(k.user, k.id)
    PROVE  MailSound'
<1>1. ASSUME NEW u \in Users, user'[u].codes # Undefined
      PROVE  Mailed(u, user[u].codes)'
  <2>1. PICK x : x = user'[u].codes
    OBVIOUS
  <2>2. Mailed(u, x)
    BY <1>1, <2>1 DEF MailSound
  <2>3. Mailed(u, x)'
    BY <2>2, MailedStays
  <2>4. QED
    BY <2>1, <2>3 DEF Mailed, MailsOf
<1>2. ASSUME NEW k \in tokens' PROVE Mailed(k.user, k.id)'
  <2>1. k.user \in Users
    BY <1>2 DEF Token
  <2>2. Mailed(k.user, k.id)
    BY <1>2 DEF MailSound
  <2>3. QED
    BY <2>1, <2>2, MailedStays
<1>3. ASSUME NEW s \in Slots, WritesCodes(s)'
      PROVE  Mailed(call[s].user, call[s].updates.codes)'
  <2>1. /\ WritesCodes(s) /\ call'[s].user = call[s].user /\ call[s].user \in Users
        /\ call'[s].updates = call[s].updates
    BY <1>3, WritesStay
  <2>2. PICK u, x : u = call[s].user /\ x = call[s].updates.codes
    BY <2>1
  <2>3. Mailed(u, x)
    BY <2>1, <2>2 DEF MailSound
  <2>4. Mailed(u, x)'
    BY <2>1, <2>2, <2>3, MailedStays
  <2>5. QED
    BY <2>1, <2>2, <2>4 DEF Mailed, MailsOf
<1>4. ASSUME NEW s \in Slots, Storing(s)'
      PROVE  Mailed(call[s].user, call[s].token)'
  <2>1. /\ Storing(s) /\ call'[s].user = call[s].user /\ call[s].user \in Users
        /\ call'[s].token = call[s].token
    BY <1>4, WritesStay
  <2>2. PICK u, x : u = call[s].user /\ x = call[s].token
    BY <2>1
  <2>3. Mailed(u, x)
    BY <2>1, <2>2 DEF MailSound
  <2>4. Mailed(u, x)'
    BY <2>1, <2>2, <2>3, MailedStays
  <2>5. QED
    BY <2>1, <2>2, <2>4 DEF Mailed, MailsOf
<1>5. QED
  BY <1>1, <1>2, <1>3, <1>4 DEF MailSound
-----------------------------------------------------------------------------
(* What a request that is begun keeps, part by part. *)
Started(s, c) ==
    /\ call[s] = Idle /\ call' = [call EXCEPT ![s] = c]
    /\ CallSound(c) /\ c.op # "none" /\ c.token <= begun + 1
    /\ begun' = begun + 1 /\ begun' \in 0..MaxCalls
    /\ UNCHANGED <<setting, user, tokens, sessions, mails, told, lost, faults>>

LEMMA StartedCall ==
    ASSUME Base, NEW s \in Slots, NEW c, Started(s, c)
    PROVE  /\ call'[s] = c /\ \A r \in Slots \ {s} : call'[r] = call[r]
           /\ ~Busy(s) /\ call' \in [Slots -> CallState] /\ c \in CallState
           /\ c.user \in Users /\ c.todo \in Lists
           /\ \A r \in Slots : CallSound(call'[r])
<1>1. c \in CallState /\ c.user \in Users /\ c.todo \in Lists
  BY Planned DEF Started
<1>2. call'[s] = c /\ \A r \in Slots \ {s} : call'[r] = call[r]
  BY DEF Base, Started
<1>3. call' \in [Slots -> CallState] /\ \A r \in Slots : CallSound(call'[r])
  BY <1>1, <1>2 DEF Base, Started
<1>4. ~Busy(s)
  BY IdleSound DEF Started, Busy
<1>5. QED
  BY <1>1, <1>2, <1>3, <1>4

LEMMA StartsBase ==
    ASSUME Base, NEW s \in Slots, NEW c, Started(s, c), past' \in Memory,
           Stored(c.user) <=> c.todo[1] # "create",
           c.op = "create" =>
              \A r \in Slots : ~(call[r].op = "create" /\ call[r].user = c.user)
    PROVE  Base'
<1>1. /\ call'[s] = c /\ \A r \in Slots \ {s} : call'[r] = call[r]
      /\ ~Busy(s) /\ call' \in [Slots -> CallState]
      /\ \A r \in Slots : CallSound(call'[r])
  BY StartedCall
<1>2. TypeOK'
  <2>1. /\ user' \in [Users -> UserRecord] /\ tokens' \subseteq Token
        /\ sessions' \subseteq Users /\ mails' \subseteq Mail /\ told' \subseteq Mail
        /\ lost' \subseteq Mail /\ begun' \in 0..MaxCalls /\ faults' \in 0..MaxFaults
        /\ UNCHANGED setting
    BY DEF Base, TypeOK, Started
  <2>2. QED
    BY <1>1, <2>1, TypeMoves
<1>3. UsersSound'
  <2>1. \A u \in Users : (Stored(u)' <=> Stored(u)) /\ user'[u] = user[u]
    BY DEF Started, Stored
  <2>2. \A u \in Users : (~Stored(u))' => user'[u] = Absent
    BY <2>1 DEF Base, UsersSound
  <2>3. ASSUME NEW r \in Slots, Busy(r)'
        PROVE  user'[call'[r].user].status # "absent" <=> call'[r].todo[1] # "create"
    <3>1. CASE r = s
      BY <1>1, <3>1 DEF Started, Stored
    <3>2. CASE r # s
      <4>1. call'[r] = call[r] /\ Busy(r) /\ user' = user
        BY <1>1, <2>3, <3>2 DEF Busy, Started
      <4>2. QED
        BY <4>1 DEF Base, UsersSound, Stored
    <3>3. QED
      BY <3>1, <3>2
  <2>4. ASSUME NEW p \in Slots, NEW r \in Slots, call'[p].op = "create",
               call'[r].op = "create", call'[p].user = call'[r].user
        PROVE  p = r
    BY <1>1, <2>4 DEF Base, UsersSound
  <2>5. \A k \in tokens' : user'[k.user].status # "absent"
    BY <1>2 DEF Started, Base, UsersSound, Stored
  <2>6. QED
    BY <2>2, <2>3, <2>4, <2>5 DEF UsersSound, Stored
<1>4. QED
  BY <1>1, <1>2, <1>3 DEF Base

LEMMA StartsLocks ==
    ASSUME Base, LockSound, NEW s \in Slots, NEW c, Started(s, c), past' \in Memory,
           \A u \in Users : past.wrong[u] <= past'.wrong[u],
           c.op = "login" =>
              /\ c.updates.failed <= past'.wrong[c.user]
              /\ c.updates.locked = TRUE => past'.wrong[c.user] >= MaxFailed
    PROVE  LockSound'
<1>1. call'[s] = c /\ \A r \in Slots \ {s} : call'[r] = call[r]
  BY StartedCall
<1>2. /\ past.wrong \in [Users -> Nat] /\ past'.wrong \in [Users -> Nat] /\ MaxFailed \in Nat
      /\ user' = user /\ user \in [Users -> UserRecord]
  BY UndefinedApart DEF Base, TypeOK, Memory, Started
<1>3. ASSUME NEW u \in Users
      PROVE  /\ user'[u].failed <= past'.wrong[u]
             /\ user'[u].locked => past'.wrong[u] >= MaxFailed
  <2>1. user[u].failed \in Nat /\ past.wrong[u] \in Nat /\ past'.wrong[u] \in Nat
    BY <1>2, UserFields
  <2>2. QED
    BY <1>2, <2>1 DEF LockSound
<1>4. ASSUME NEW r \in Slots \ {s}, call[r].op = "login"
      PROVE  /\ call[r].updates.failed <= past'.wrong[call[r].user]
             /\ call[r].updates.locked = TRUE => past'.wrong[call[r].user] >= MaxFailed
  <2>1. call[r].user \in Users /\ call[r].updates \in LoginWrites
    BY <1>4 DEF Base, CallSound, UpdatesSound
  <2>2. call[r].updates.failed \in Nat
    BY <2>1 DEF LoginWrites
  <2>3. past.wrong[call[r].user] \in Nat /\ past'.wrong[call[r].user] \in Nat
    BY <1>2, <2>1
  <2>4. past.wrong[call[r].user] <= past'.wrong[call[r].user]
    BY <2>1
  <2>5. /\ call[r].updates.failed <= past.wrong[call[r].user]
        /\ call[r].updates.locked = TRUE => past.wrong[call[r].user] >= MaxFailed
    BY <1>4 DEF LockSound
  <2>6. QED
    BY <1>2, <2>2, <2>3, <2>4, <2>5
<1>5. ASSUME NEW r \in Slots, call'[r].op = "login"
      PROVE  /\ call'[r].updates.failed <= past'.wrong[call'[r].user]
             /\ call'[r].updates.locked = TRUE => past'.wrong[call'[r].user] >= MaxFailed
  BY <1>1, <1>4, <1>5
<1>6. QED
  BY <1>3, <1>5 DEF LockSound

LEMMA StartsTokens ==
    ASSUME Base, TokensSound, NEW s \in Slots, NEW c, Started(s, c), past' \in Memory,
           past'.uses = past.uses, past.overlapped \subseteq past'.overlapped,
           c.op = "reset" =>
              /\ c.todo[1] = "write" /\ \E k \in tokens : k.id = c.token /\ ~k.used
              /\ \/ c.token \in past'.overlapped
                 \/ \A r \in Slots : ~Resets(r, c.token),
           c.op = "forgot" => c.token = begun + 1
    PROVE  TokensSound'
<1>1. /\ call'[s] = c /\ (\A r \in Slots \ {s} : call'[r] = call[r]) /\ call[s].op = "none"
      /\ c \in CallState
  BY StartedCall DEF Busy
<1>2. /\ tokens' = tokens /\ faults' = faults /\ begun' = begun + 1 /\ begun' \in Id
      /\ begun \in Nat /\ c.token <= begun + 1 /\ c.token \in Nat /\ c.token \in Id
      /\ faults \in Nat /\ past.uses \in [Id -> Nat] /\ past'.overlapped \subseteq Id
  <2>1. /\ tokens' = tokens /\ faults' = faults /\ begun' = begun + 1
        /\ begun' \in 0..MaxCalls /\ c.token <= begun + 1
    BY DEF Started
  <2>2. /\ begun \in 0..MaxCalls /\ faults \in 0..MaxFaults /\ past.uses \in [Id -> Nat]
        /\ past'.overlapped \subseteq Id /\ c.token \in Id
    BY <1>1 DEF Base, TypeOK, Memory, CallState
  <2>3. QED
    BY <2>1, <2>2, UndefinedApart DEF Id
<1>3. /\ \A t \in Id : t > begun => past.uses[t] = 0
      /\ \A k \in tokens : k.id <= begun
      /\ \A r \in Slots : call[r].token <= begun
  BY DEF TokensSound
<1>4. /\ \A k \in tokens : k.id \in Nat
      /\ \A r \in Slots : call[r].token \in Nat
      /\ \A t \in Id : t \in Nat
  BY UndefinedApart DEF Base, TypeOK, Token, CallState
<1>5. ASSUME NEW t \in Id \ past'.overlapped PROVE TokenSound(t)'
  <2>1. TokenSound(t) /\ past'.uses[t] = past.uses[t]
    BY <1>5 DEF TokensSound
  <2>2. \A r \in Slots \ {s} : Resets(r, t)' <=> Resets(r, t)
    BY <1>1 DEF Resets
  <2>3. Resets(s, t)' => /\ c.todo[1] = "write" /\ past.uses[t] <= faults
                         /\ \A r \in Slots : ~Resets(r, t)
    <3> SUFFICES ASSUME Resets(s, t)'
                 PROVE  /\ c.todo[1] = "write" /\ past.uses[t] <= faults
                        /\ \A r \in Slots : ~Resets(r, t)
      OBVIOUS
    <3>1. c.op = "reset" /\ c.token = t
      BY <1>1 DEF Resets
    <3>2. /\ c.todo[1] = "write" /\ (\E k \in tokens : k.id = t /\ ~k.used)
          /\ \A r \in Slots : ~Resets(r, t)
      BY <1>5, <3>1
    <3>3. ~Marking(t)
      BY <3>2 DEF Marking
    <3>4. QED
      BY <2>1, <3>2, <3>3 DEF TokenSound
  <2>4. Marking(t) => Marking(t)'
    <3> SUFFICES ASSUME Marking(t) PROVE Marking(t)'
      OBVIOUS
    <3>1. PICK r \in Slots : Resets(r, t) /\ call[r].todo[1] = "mark"
      BY DEF Marking
    <3>2. r # s
      BY <1>1, <3>1 DEF Resets
    <3>3. QED
      BY <1>1, <2>2, <3>1, <3>2 DEF Marking
  <2>5. past'.uses[t] <= 1 + faults'
    BY <1>2, <2>1 DEF TokenSound
  <2>6. \A p, r \in Slots : Resets(p, t)' /\ Resets(r, t)' => p = r
    BY <2>1, <2>2, <2>3 DEF TokenSound
  <2>7. \A r \in Slots : Resets(r, t)' /\ call'[r].todo[1] = "write"
                         => past'.uses[t] <= faults'
    BY <1>1, <1>2, <2>1, <2>2, <2>3 DEF TokenSound
  <2>8. (\E k \in tokens' : k.id = t /\ ~k.used) /\ ~Marking(t)'
        => past'.uses[t] <= faults'
    BY <1>2, <2>1, <2>4 DEF TokenSound
  <2>9. QED
    BY <2>5, <2>6, <2>7, <2>8 DEF TokenSound
<1>6. ASSUME NEW r \in Slots PROVE call'[r].token <= begun'
  <2>1. CASE r = s
    BY <1>1, <1>2, <2>1
  <2>2. CASE r # s
    <3>1. call'[r].token = call[r].token /\ call[r].token \in Nat /\ call[r].token <= begun
      BY <1>1, <1>3, <1>4, <2>2
    <3>2. QED
      BY <1>2, <3>1
  <2>3. QED
    BY <2>1, <2>2
<1>7. ASSUME NEW r \in Slots, Storing(r)'
      PROVE  /\ past'.uses[call'[r].token] = 0
             /\ \A k \in tokens' : k.id # call'[r].token
             /\ \A q \in Slots : ~(call'[q].op = "reset" /\ call'[q].token = call'[r].token)
             /\ \A q \in Slots : Storing(q)' /\ call'[q].token = call'[r].token => q = r
  <2>1. CASE r = s
    <3>1. c.op = "forgot" /\ c.token = begun + 1
      BY <1>1, <1>7, <2>1 DEF Storing
    <3>2. past.uses[begun + 1] = 0
      BY <1>2, <1>3
    <3>3. \A k \in tokens : k.id # begun + 1
      BY <1>2, <1>3, <1>4
    <3>4. \A q \in Slots \ {s} : call'[q].token # begun + 1
      BY <1>1, <1>2, <1>3, <1>4
    <3>5. QED
      BY <1>1, <1>2, <2>1, <3>1, <3>2, <3>3, <3>4
  <2>2. CASE r # s
    <3> DEFINE n == call[r].token
    <3>1. Storing(r) /\ call'[r].token = n
      BY <1>1, <1>7, <2>2 DEF Storing
    <3>2. /\ past.uses[n] = 0 /\ \A k \in tokens : k.id # n
          /\ \A q \in Slots : ~Resets(q, n)
          /\ \A q \in Slots : Storing(q) /\ call[q].token = n => q = r
      BY <3>1 DEF TokensSound
    <3>3. n # begun + 1
      BY <1>2, <1>3, <1>4
    <3> HIDE DEF n
    <3>4. ~(c.op = "reset" /\ c.token = n) /\ ~(c.op = "forgot" /\ c.token = n)
      BY <3>2, <3>3
    <3>5. \A q \in Slots : ~(call'[q].op = "reset" /\ call'[q].token = n)
      BY <1>1, <3>2, <3>4 DEF Resets
    <3>6. \A q \in Slots : Storing(q)' /\ call'[q].token = n => q = r
      BY <1>1, <3>2, <3>4 DEF Storing
    <3>7. QED
      BY <1>2, <3>1, <3>2, <3>5, <3>6
  <2>3. QED
    BY <2>1, <2>2
<1>8. \A r \in Slots : Storing(r)' =>
         /\ past'.uses[call'[r].token] = 0
         /\ \A k \in tokens' : k.id # call'[r].token
         /\ \A q \in Slots : ~(call'[q].op = "reset" /\ call'[q].token = call'[r].token)
         /\ \A q \in Slots : Storing(q)' /\ call'[q].token = call'[r].token => q = r
  BY <1>7
<1>9. /\ \A t \in Id : t > begun' => past'.uses[t] = 0
      /\ \A k \in tokens' : k.id <= begun'
  BY <1>2, <1>3, <1>4
<1>10. QED
  BY <1>5, <1>6, <1>8, <1>9 DEF TokensSound, Resets

LEMMA StartsFactors ==
    ASSUME Base, FactorSound, NEW s \in Slots, NEW c, Started(s, c), past' \in Memory,
           \A u \in Users : past.proven[u] \subseteq past'.proven[u],
           past'.raced = past.raced, past.halfMade \subseteq past'.halfMade,
           c.op = "verify_setup" => user[c.user].secret \in past'.proven[c.user],
           c.op = "create" /\ c.updates.enabled
           /\ c.todo \in {<<"create">>, <<"create", "mail">>}
           => c.user \in past'.halfMade
    PROVE  FactorSound'
<1>1. /\ call'[s] = c /\ (\A r \in Slots \ {s} : call'[r] = call[r]) /\ call[s].op = "none"
      /\ user' = user
  BY StartedCall DEF Busy, Started
<1>2. \A u \in Users : Factored(u) => Factored(u)'
  BY <1>1 DEF Factored
<1>3. ASSUME NEW u \in Users, user'[u].enabled
      PROVE  \/ Factored(u)' \/ u \in past'.halfMade
             \/ \E r \in Slots : /\ call'[r].op = "create" /\ call'[r].user = u
                                 /\ call'[r].todo[1] = "write"
  <2>1. user[u].enabled
    BY <1>1, <1>3
  <2>2. CASE Factored(u) \/ u \in past.halfMade
    BY <1>2, <2>2
  <2>3. CASE \E r \in Slots : /\ call[r].op = "create" /\ call[r].user = u
                              /\ call[r].todo[1] = "write"
    <3>1. PICK r \in Slots : /\ call[r].op = "create" /\ call[r].user = u
                             /\ call[r].todo[1] = "write"
      BY <2>3
    <3>2. call'[r] = call[r]
      BY <1>1, <3>1
    <3>3. QED
      BY <3>1, <3>2
  <2>4. QED
    BY <2>1, <2>2, <2>3 DEF FactorSound
<1>4. ASSUME NEW r \in Slots, call'[r].op = "verify_setup"
      PROVE  \/ user'[call'[r].user].secret \in past'.proven[call'[r].user]
             \/ user'[call'[r].user].setupRequired \/ call'[r].user \in past'.raced
  <2>1. CASE r = s
    BY <1>1, <1>4, <2>1
  <2>2. CASE r # s
    <3>1. call'[r] = call[r] /\ call[r].op = "verify_setup"
      BY <1>1, <1>4, <2>2
    <3>2. PICK u \in Users : u = call[r].user
      BY <3>1 DEF Base, CallSound
    <3>3. Factored(u)'
      BY <1>2, <3>1, <3>2 DEF FactorSound
    <3>4. QED
      BY <3>1, <3>2, <3>3 DEF Factored
  <2>3. QED
    BY <2>1, <2>2
<1>5. ASSUME NEW r \in Slots, call'[r].op = "create", call'[r].updates.enabled,
             call'[r].todo \in {<<"create">>, <<"create", "mail">>}
      PROVE  call'[r].user \in past'.halfMade
  <2>1. CASE r = s
    BY <1>1, <1>5, <2>1
  <2>2. CASE r # s
    <3>1. call'[r] = call[r]
      BY <1>1, <2>2
    <3>2. call[r].user \in past.halfMade
      BY <1>5, <3>1 DEF FactorSound
    <3>3. QED
      BY <3>1, <3>2
  <2>3. QED
    BY <2>1, <2>2
<1>6. QED
  BY <1>3, <1>4, <1>5 DEF FactorSound, Factored

LEMMA StartsMails ==
    ASSUME Base, MailSound, NEW s \in Slots, NEW c, Started(s, c),
           \/ c.op \in {"setup", "regenerate"}
           \/ c.op = "create" /\ c.todo \in {<<"create", "write", "mail">>,
                                            <<"create", "write", "mail", "mail">>,
                                            <<"write", "mail">>, <<"write", "mail", "mail">>}
           => \E m \in MailsOf(c.user, c.updates.codes) : m \in Range(c.mails),
           c.op = "forgot" => \E m \in MailsOf(c.user, c.token) : m \in Range(c.mails)
    PROVE  MailSound'
<1>1. /\ call'[s] = c /\ (\A r \in Slots \ {s} : call'[r] = call[r]) /\ call[s] = Idle
      /\ c.user \in Users
  BY StartedCall DEF Started
<1>2. /\ user' = user /\ tokens' = tokens /\ mails' = mails /\ told' = told /\ lost' = lost
      /\ \A k \in tokens : k.user \in Users
  BY DEF Started, Base, TypeOK, Token
<1>3. OutKept
  <2>1. ASSUME NEW u \in Users, NEW m \in Mail, Due(u, m) PROVE Due(u, m)'
    <3>1. PICK r \in Slots : call[r].user = u /\ m \in Range(call[r].mails)
      BY <2>1 DEF Due
    <3>2. r # s
      BY <1>1, <3>1, IdleSound DEF Range
    <3>3. QED
      BY <1>1, <3>1, <3>2 DEF Due
  <2>2. QED
    BY <1>2, <2>1 DEF OutKept
<1>4. ASSUME NEW u \in Users, user'[u].codes # Undefined PROVE Mailed(u, user[u].codes)'
  <2>1. PICK x : x = user[u].codes
    OBVIOUS
  <2>2. Mailed(u, x)
    BY <1>2, <1>4, <2>1 DEF MailSound
  <2>3. Mailed(u, x)'
    BY <1>3, <2>2, MailedStays
  <2>4. QED
    BY <1>2, <2>1, <2>3 DEF Mailed, MailsOf
<1>5. ASSUME NEW k \in tokens PROVE Mailed(k.user, k.id)'
  BY <1>2, <1>3, MailedStays DEF MailSound
<1>6. ASSUME NEW r \in Slots, WritesCodes(r)'
      PROVE  Mailed(call[r].user, call[r].updates.codes)'
  <2>1. CASE r = s
    <3>1. \E m \in MailsOf(c.user, c.updates.codes) : m \in Range(c.mails)
      BY <1>1, <1>6, <2>1 DEF WritesCodes
    <3>2. QED
      BY <1>1, <2>1, <3>1 DEF Mailed, MailsOf, Due
  <2>2. CASE r # s
    <3>1. call'[r] = call[r] /\ WritesCodes(r)
      BY <1>1, <1>6, <2>2 DEF WritesCodes
    <3>2. call[r].user \in Users
      BY <3>1 DEF WritesCodes, Base, CallSound
    <3>3. PICK u, x : u = call[r].user /\ x = call[r].updates.codes
      OBVIOUS
    <3>4. Mailed(u, x)'
      BY <1>3, <3>1, <3>2, <3>3, MailedStays DEF MailSound
    <3>5. QED
      BY <3>1, <3>3, <3>4 DEF Mailed, MailsOf
  <2>3. QED
    BY <2>1, <2>2
<1>7. ASSUME NEW r \in Slots, Storing(r)'
      PROVE  Mailed(call[r].user, call[r].token)'
  <2>1. CASE r = s
    <3>1. \E m \in MailsOf(c.user, c.token) : m \in Range(c.mails)
      BY <1>1, <1>7, <2>1 DEF Storing
    <3>2. QED
      BY <1>1, <2>1, <3>1 DEF Mailed, MailsOf, Due
  <2>2. CASE r # s
    <3>1. call'[r] = call[r] /\ Storing(r)
      BY <1>1, <1>7, <2>2 DEF Storing
    <3>2. call[r].user \in Users
      BY <3>1 DEF Storing, Base, CallSound
    <3>3. PICK u, x : u = call[r].user /\ x = call[r].token
      OBVIOUS
    <3>4. Mailed(u, x)'
      BY <1>3, <3>1, <3>2, <3>3, MailedStays DEF MailSound
    <3>5. QED
      BY <3>1, <3>3, <3>4 DEF Mailed, MailsOf
  <2>3. QED
    BY <2>1, <2>2
<1>8. \A k \in tokens' : Mailed(k.user, k.id)'
  BY <1>2, <1>5
<1>9. QED
  BY <1>2, <1>4, <1>6, <1>7, <1>8 DEF MailSound
-----------------------------------------------------------------------------
(* The requests. *)
CallOf(op, u, todo, updates, token, msgs) ==
    [op |-> op, user |-> u, id |-> New, todo |-> todo, updates |-> updates,
     token |-> token, mails |-> msgs]

LEMMA BeginStarts ==
    ASSUME Base, NEW s \in Slots, NEW op \in Ops \ {"none"}, NEW u \in Users,
           NEW todo \in Lists, NEW updates \in Writes, NEW token \in Nat, token <= New,
           NEW msgs \in Seq(Mail), TodoSound(op, todo),
           UpdatesSound([op |-> op, updates |-> updates]),
           MailsSound([todo |-> todo, mails |-> msgs]),
           Begin(s, op, u, todo, updates, token, msgs)
    PROVE  Started(s, CallOf(op, u, todo, updates, token, msgs))
<1> DEFINE c == CallOf(op, u, todo, updates, token, msgs)
<1>1. /\ c.op = op /\ c.user = u /\ c.id = New /\ c.todo = todo /\ c.updates = updates
      /\ c.token = token /\ c.mails = msgs
  BY DEF CallOf
<1>2. setting.group.calls \in 0..MaxCalls /\ begun \in 0..MaxCalls /\ MaxCalls \in Nat
  BY UndefinedApart, AccessAssumption DEF Base, TypeOK
<1>3. begun < setting.group.calls
  BY DEF Begin
<1>4. New \in Id /\ begun + 1 \in 0..MaxCalls /\ token \in Id
  BY <1>2, <1>3 DEF New, Id
<1>5. c \in CallState
  BY <1>4, ListFacts DEF CallOf, CallState
<1>6. UpdatesSound(c) /\ TodoSound(c.op, c.todo) /\ MailsSound(c)
  BY <1>1 DEF UpdatesSound, MailsSound
<1>7. CallSound(c)
  BY <1>1, <1>5, <1>6 DEF CallSound
<1> HIDE DEF c
<1>8. call[s] = Idle /\ call' = [call EXCEPT ![s] = c] /\ begun' = begun + 1
  BY DEF Begin, New, c, CallOf
<1>9. UNCHANGED <<setting, user, tokens, sessions, mails, told, lost, faults>>
  BY DEF Begin
<1>10. c.token <= begun + 1 /\ c.op # "none" /\ begun' \in 0..MaxCalls
  BY <1>1, <1>4, <1>8 DEF New
<1>11. QED
  BY <1>7, <1>8, <1>9, <1>10 DEF Started, c

(* Those that neither count, use a token, prove a factor nor owe a mail. *)
LEMMA PlainStarts ==
    ASSUME IInv, NEW s \in Slots,
           NEW op \in {"login", "change", "forced", "force", "disable", "invite", "update",
                       "status"},
           NEW u \in Users, Stored(u), NEW todo \in Lists, todo[1] # "create",
           NEW updates \in Writes, NEW msgs \in Seq(Mail), TodoSound(op, todo),
           UpdatesSound([op |-> op, updates |-> updates]),
           MailsSound([todo |-> todo, mails |-> msgs]),
           Begin(s, op, u, todo, updates, 0, msgs), past' \in Memory,
           \A v \in Users : past.wrong[v] <= past'.wrong[v],
           op = "login" => /\ updates.failed <= past'.wrong[u]
                           /\ updates.locked = TRUE => past'.wrong[u] >= MaxFailed,
           past' = [past EXCEPT !.wrong = past'.wrong]
    PROVE  IInv'
<1> DEFINE c == CallOf(op, u, todo, updates, 0, msgs)
<1>1. /\ c.op = op /\ c.user = u /\ c.todo = todo /\ c.updates = updates
  BY DEF CallOf
<1>2. Started(s, c)
  <2>1. 0 <= New /\ Base
    BY UndefinedApart DEF New, IInv, Base, TypeOK
  <2>2. op \in Ops \ {"none"}
    BY DEF Ops
  <2>3. QED
    BY <2>1, <2>2, BeginStarts
<1> HIDE DEF c
<1>3. /\ past'.uses = past.uses /\ past'.proven = past.proven /\ past'.raced = past.raced
      /\ past'.halfMade = past.halfMade /\ past'.overlapped = past.overlapped
  <2>1. past \in Memory
    BY DEF IInv, Base
  <2> DEFINE wrong == past'.wrong
  <2>2. past' = [past EXCEPT !.wrong = wrong]
    OBVIOUS
  <2> HIDE DEF wrong
  <2>3. QED
    BY <2>1, <2>2 DEF Memory
<1>4. Base /\ LockSound /\ TokensSound /\ FactorSound /\ MailSound
  BY DEF IInv
<1>5. Base'
  BY <1>1, <1>2, <1>4, StartsBase
<1>6. LockSound'
  BY <1>1, <1>2, <1>4, StartsLocks
<1>7. TokensSound'
  BY <1>1, <1>2, <1>3, <1>4, StartsTokens
<1>8. FactorSound'
  BY <1>1, <1>2, <1>3, <1>4, StartsFactors
<1>9. MailSound'
  BY <1>1, <1>2, <1>4, StartsMails
<1>10. QED
  BY <1>5, <1>6, <1>7, <1>8, <1>9 DEF IInv

(* A user that has anything is stored. *)
LEMMA HasIsStored ==
    ASSUME Base, NEW u \in Users
    PROVE  /\ Found(u) => Stored(u)
           /\ user[u].password # Undefined => Stored(u)
           /\ user[u].secret # Undefined => Stored(u)
           /\ user[u] \in UserRecord
BY DEF Base, TypeOK, UsersSound, Found, Stored, Absent

LEMMA PlanMails ==
    /\ MailsSound([todo |-> <<"write">>, mails |-> <<>>])
    /\ MailsSound([todo |-> <<"grant">>, mails |-> <<>>])
    /\ MailsSound([todo |-> <<"write", "grant">>, mails |-> <<>>])
    /\ MailsSound([todo |-> <<"write", "mark">>, mails |-> <<>>])
    /\ MailsSound([todo |-> <<"update">>, mails |-> <<>>])
    /\ MailsSound([todo |-> <<"set_status">>, mails |-> <<>>])
    /\ MailsSound([todo |-> <<"create">>, mails |-> <<>>])
    /\ \A m \in Mail : /\ <<m>> \in Seq(Mail)
                       /\ MailsSound([todo |-> <<"write", "mail">>, mails |-> <<m>>])
                       /\ MailsSound([todo |-> <<"store", "mail">>, mails |-> <<m>>])
                       /\ MailsSound([todo |-> <<"update", "mail">>, mails |-> <<m>>])
                       /\ MailsSound([todo |-> <<"create", "mail">>, mails |-> <<m>>])
                       /\ MailsSound([todo |-> <<"create", "write", "mail">>,
                                      mails |-> <<m>>])
    /\ \A m, n \in Mail :
          /\ <<m, n>> \in Seq(Mail)
          /\ MailsSound([todo |-> <<"create", "write", "mail", "mail">>,
                         mails |-> <<m, n>>])
    /\ <<>> \in Seq(Mail)
<1>1. \A t \in NoMail : MailsSound([todo |-> t, mails |-> <<>>])
  BY MailsApart DEF MailsSound
<1>2. \A t \in OneMail : \A m \in Mail :
         <<m>> \in Seq(Mail) /\ MailsSound([todo |-> t, mails |-> <<m>>])
  BY MailsApart DEF MailsSound
<1>3. \A t \in TwoMails : \A m, n \in Mail :
         <<m, n>> \in Seq(Mail) /\ MailsSound([todo |-> t, mails |-> <<m, n>>])
  BY MailsApart DEF MailsSound
<1>4. {<<"write">>, <<"grant">>, <<"write", "grant">>, <<"write", "mark">>, <<"update">>,
       <<"set_status">>, <<"create">>} \subseteq NoMail
  BY DEF NoMail
<1>5. {<<"write", "mail">>, <<"store", "mail">>, <<"update", "mail">>, <<"create", "mail">>,
       <<"create", "write", "mail">>} \subseteq OneMail
  BY DEF OneMail
<1>6. <<"create", "write", "mail", "mail">> \in TwoMails
  BY DEF TwoMails
<1>7. /\ MailsSound([todo |-> <<"write">>, mails |-> <<>>])
      /\ MailsSound([todo |-> <<"grant">>, mails |-> <<>>])
      /\ MailsSound([todo |-> <<"write", "grant">>, mails |-> <<>>])
      /\ MailsSound([todo |-> <<"write", "mark">>, mails |-> <<>>])
      /\ MailsSound([todo |-> <<"update">>, mails |-> <<>>])
      /\ MailsSound([todo |-> <<"set_status">>, mails |-> <<>>])
      /\ MailsSound([todo |-> <<"create">>, mails |-> <<>>])
  BY <1>1, <1>4, Zenon
<1>8. ASSUME NEW m \in Mail
      PROVE  /\ <<m>> \in Seq(Mail)
             /\ MailsSound([todo |-> <<"write", "mail">>, mails |-> <<m>>])
             /\ MailsSound([todo |-> <<"store", "mail">>, mails |-> <<m>>])
             /\ MailsSound([todo |-> <<"update", "mail">>, mails |-> <<m>>])
             /\ MailsSound([todo |-> <<"create", "mail">>, mails |-> <<m>>])
             /\ MailsSound([todo |-> <<"create", "write", "mail">>, mails |-> <<m>>])
  <2>1. \A t \in OneMail : MailsSound([todo |-> t, mails |-> <<m>>])
    BY <1>2
  <2>2. <<m>> \in Seq(Mail)
    BY <1>2, <1>5
  <2>3. QED
    BY <1>5, <2>1, <2>2, Zenon
<1>9. ASSUME NEW m \in Mail, NEW n \in Mail
      PROVE  /\ <<m, n>> \in Seq(Mail)
             /\ MailsSound([todo |-> <<"create", "write", "mail", "mail">>,
                            mails |-> <<m, n>>])
  BY <1>3, <1>6, Zenon
<1>10. <<>> \in Seq(Mail)
  BY EmptySeq
<1>11. QED
  BY <1>7, <1>8, <1>9, <1>10, Zenon

LEMMA Plans ==
    /\ {<<"write">>, <<"grant">>, <<"write", "grant">>, <<"write", "mark">>, <<"update">>,
        <<"set_status">>, <<"create">>} \subseteq Lists
    /\ {<<"write", "mail">>, <<"store", "mail">>, <<"update", "mail">>, <<"create", "mail">>,
        <<"create", "write", "mail">>, <<"create", "write", "mail", "mail">>} \subseteq Lists
    /\ <<"write">>[1] = "write" /\ <<"grant">>[1] = "grant"
    /\ <<"write", "grant">>[1] = "write" /\ <<"write", "mark">>[1] = "write"
    /\ <<"update">>[1] = "update" /\ <<"set_status">>[1] = "set_status"
    /\ <<"write", "mail">>[1] = "write" /\ <<"store", "mail">>[1] = "store"
    /\ <<"update", "mail">>[1] = "update"
<1>1. {<<"write">>, <<"grant">>, <<"write", "grant">>, <<"write", "mark">>, <<"update">>,
       <<"set_status">>, <<"create">>} \subseteq Lists
  BY DEF Lists, NoMail
<1>2. {<<"write", "mail">>, <<"store", "mail">>, <<"update", "mail">>, <<"create", "mail">>,
       <<"create", "write", "mail">>} \subseteq Lists
  BY DEF Lists, OneMail
<1>3. <<"create", "write", "mail", "mail">> \in Lists
  BY DEF Lists, TwoMails
<1>4. QED
  BY <1>1, <1>2, <1>3

LEMMA Joins ==
    /\ \A a, b : <<a>> \o <<b>> = <<a, b>>
    /\ \A a, b, c : <<a>> \o <<b, c>> = <<a, b, c>>
    /\ \A a, b, c, d : <<a, b, c>> \o <<d>> = <<a, b, c, d>>
<1>1. ASSUME NEW a, NEW b PROVE <<a>> \o <<b>> = <<a, b>>
  <2>1. <<a>> \in Seq({a, b}) /\ <<b>> \in Seq({a, b}) /\ <<a, b>> \in Seq({a, b})
    OBVIOUS
  <2> DEFINE r == <<a>> \o <<b>>
  <2>2. /\ r \in Seq({a, b}) /\ Len(r) = Len(<<a>>) + Len(<<b>>)
        /\ \A i \in 1..Len(<<a>>) + Len(<<b>>) :
              r[i] = IF i <= Len(<<a>>) THEN <<a>>[i] ELSE <<b>>[i - Len(<<a>>)]
    BY <2>1, ConcatProperties
  <2> HIDE DEF r
  <2>3. Len(r) = 2 /\ r[1] = a /\ r[2] = b
    BY <2>2
  <2>4. r = <<a, b>>
    BY <2>1, <2>2, <2>3, SeqEqual
  <2>5. QED
    BY <2>4 DEF r
<1>2. ASSUME NEW a, NEW b, NEW c PROVE <<a>> \o <<b, c>> = <<a, b, c>>
  <2>1. /\ <<a>> \in Seq({a, b, c}) /\ <<b, c>> \in Seq({a, b, c})
        /\ <<a, b, c>> \in Seq({a, b, c})
    OBVIOUS
  <2> DEFINE r == <<a>> \o <<b, c>>
  <2>2. /\ r \in Seq({a, b, c}) /\ Len(r) = Len(<<a>>) + Len(<<b, c>>)
        /\ \A i \in 1..Len(<<a>>) + Len(<<b, c>>) :
              r[i] = IF i <= Len(<<a>>) THEN <<a>>[i] ELSE <<b, c>>[i - Len(<<a>>)]
    BY <2>1, ConcatProperties
  <2> HIDE DEF r
  <2>3. Len(r) = 3 /\ r[1] = a /\ r[2] = b /\ r[3] = c
    BY <2>2
  <2>4. r = <<a, b, c>>
    BY <2>1, <2>2, <2>3, SeqEqual
  <2>5. QED
    BY <2>4 DEF r
<1>3. ASSUME NEW a, NEW b, NEW c, NEW d PROVE <<a, b, c>> \o <<d>> = <<a, b, c, d>>
  <2>1. /\ <<a, b, c>> \in Seq({a, b, c, d}) /\ <<d>> \in Seq({a, b, c, d})
        /\ <<a, b, c, d>> \in Seq({a, b, c, d})
    OBVIOUS
  <2> DEFINE r == <<a, b, c>> \o <<d>>
  <2>2. /\ r \in Seq({a, b, c, d}) /\ Len(r) = Len(<<a, b, c>>) + Len(<<d>>)
        /\ \A i \in 1..Len(<<a, b, c>>) + Len(<<d>>) :
              r[i] = IF i <= Len(<<a, b, c>>) THEN <<a, b, c>>[i]
                     ELSE <<d>>[i - Len(<<a, b, c>>)]
    BY <2>1, ConcatProperties
  <2> HIDE DEF r
  <2>3. Len(r) = 4 /\ r[1] = a /\ r[2] = b /\ r[3] = c /\ r[4] = d
    BY <2>2
  <2>4. r = <<a, b, c, d>>
    BY <2>1, <2>2, <2>3, SeqEqual
  <2>5. QED
    BY <2>4 DEF r
<1>4. QED
  BY <1>1, <1>2, <1>3

LEMMA NewId ==
    ASSUME Base, NEW s \in Slots, NEW op, NEW u, NEW todo, NEW updates, NEW token, NEW msgs,
           Begin(s, op, u, todo, updates, token, msgs)
    PROVE  New \in Id /\ New \in Nat /\ New \in Value /\ New # Undefined /\ New = begun + 1
<1>1. setting.group.calls \in 0..MaxCalls /\ begun \in 0..MaxCalls /\ MaxCalls \in Nat
  BY UndefinedApart, AccessAssumption DEF Base, TypeOK
<1>2. begun < setting.group.calls
  BY DEF Begin
<1>3. New \in Id /\ New \in Nat /\ New = begun + 1
  BY <1>1, <1>2 DEF New, Id
<1>4. QED
  BY <1>3, UndefinedApart

(* The past when only wrong passwords are added to it, or nothing. *)
LEMMA PastStays ==
    ASSUME Base, UNCHANGED past
    PROVE  /\ past' \in Memory /\ past' = [past EXCEPT !.wrong = past'.wrong]
           /\ \A v \in Users : past.wrong[v] <= past'.wrong[v]
<1>1. past \in Memory /\ \A v \in Users : past.wrong[v] \in Nat
  BY DEF Base, Memory
<1>2. past = [past EXCEPT !.wrong = past.wrong]
  BY <1>1 DEF Memory
<1>3. QED
  BY <1>1, <1>2

LEMMA WrongPasswordStep ==
    ASSUME IInv, NEW s \in Slots, NEW u \in Users, WrongPassword(s, u) PROVE IInv'
<1> DEFINE failed == user[u].failed + 1
           updates == [failed |-> failed,
                       locked |-> IF failed >= MaxFailed THEN TRUE ELSE Undefined]
<1>1. /\ Found(u) /\ Begin(s, "login", u, <<"write">>, updates, 0, <<>>)
      /\ past' = [past EXCEPT !.wrong[u] = @ + 1]
  BY DEF WrongPassword
<1>2. Base /\ LockSound /\ past \in Memory
  BY DEF IInv, Base
<1>3. Stored(u) /\ user[u].failed \in Nat
  BY <1>1, <1>2, HasIsStored, UserFields
<1>4. failed \in Nat /\ updates \in LoginWrites /\ updates.failed = failed
      /\ (updates.locked = TRUE => failed >= MaxFailed)
  <2> DEFINE lock == IF failed >= MaxFailed THEN TRUE ELSE Undefined
  <2>1. failed \in Nat /\ Undefined # TRUE
    <3>1. failed \in Nat
      BY <1>3
    <3>2. QED
      BY <3>1, UndefinedApart, Zenon
  <2>2. lock \in {TRUE, Undefined} /\ (lock = TRUE => failed >= MaxFailed)
    <3>1. CASE failed >= MaxFailed
      BY <3>1
    <3>2. CASE ~(failed >= MaxFailed)
      BY <2>1, <3>2
    <3>3. QED
      BY <3>1, <3>2
  <2>3. updates = [failed |-> failed, locked |-> lock]
    OBVIOUS
  <2> HIDE DEF updates, lock, failed
  <2>4. QED
    BY <2>1, <2>2, <2>3 DEF LoginWrites
<1> HIDE DEF updates
<1>5. /\ past' \in Memory /\ past' = [past EXCEPT !.wrong = past'.wrong]
      /\ past'.wrong[u] = past.wrong[u] + 1
      /\ \A v \in Users : past.wrong[v] <= past'.wrong[v]
  <2> DEFINE wrong == [past.wrong EXCEPT ![u] = @ + 1]
  <2>1. past' = [past EXCEPT !.wrong = wrong]
    BY <1>1
  <2>2. /\ wrong \in [Users -> Nat] /\ wrong[u] = past.wrong[u] + 1
        /\ \A v \in Users : past.wrong[v] <= wrong[v]
    BY <1>2 DEF Memory
  <2> HIDE DEF wrong
  <2>3. past' \in Memory /\ past'.wrong = wrong
    BY <1>2, <2>1, <2>2 DEF Memory
  <2>4. QED
    BY <2>1, <2>2, <2>3
<1>6. user[u].failed <= past.wrong[u] /\ past.wrong[u] \in Nat
  BY <1>2 DEF LockSound, Memory
<1>7. failed <= past'.wrong[u] /\ (updates.locked = TRUE => past'.wrong[u] >= MaxFailed)
  BY <1>3, <1>4, <1>5, <1>6, UndefinedApart
<1>8. updates \in Writes /\ UpdatesSound([op |-> "login", updates |-> updates])
  BY <1>4 DEF Writes, UpdatesSound
<1>9. TodoSound("login", <<"write">>)
  BY DEF TodoSound
<1> HIDE DEF failed
<1>10. QED
  BY <1>1, <1>3, <1>4, <1>5, <1>7, <1>8, <1>9, Plans, PlanMails, PlainStarts

LEMMA RightPasswordStep ==
    ASSUME IInv, NEW s \in Slots, NEW u \in Users, RightPassword(s, u) PROVE IInv'
<1> DEFINE todo == (IF user[u].failed > 0 THEN <<"write">> ELSE <<>>) \o
                   (IF user[u].resetRequired \/ MfaRequired(user[u]) THEN <<>>
                    ELSE <<"grant">>)
           updates == [failed |-> 0, locked |-> Undefined]
<1>1. /\ Found(u) /\ Begin(s, "login", u, todo, updates, 0, <<>>) /\ UNCHANGED past
  BY DEF RightPassword
<1>2. Base /\ LockSound /\ past \in Memory
  BY DEF IInv, Base
<1>3. Stored(u)
  BY <1>1, <1>2, HasIsStored
<1>4. updates \in LoginWrites /\ updates.failed = 0 /\ updates.locked # TRUE
  BY UndefinedApart DEF LoginWrites
<1>5. updates \in Writes /\ UpdatesSound([op |-> "login", updates |-> updates])
  BY <1>4 DEF Writes, UpdatesSound
<1>6. todo # <<>>
  BY <1>1 DEF Begin
<1>7. todo \in {<<"write", "grant">>, <<"write">>, <<"grant">>}
  <2>1. /\ <<"write">> \o <<"grant">> = <<"write", "grant">>
        /\ <<"write">> \o <<>> = <<"write">> /\ <<>> \o <<"grant">> = <<"grant">>
        /\ <<>> \o <<>> = <<>>
    <3>1. /\ <<"write">> \in Seq({"write", "grant"}) /\ <<"grant">> \in Seq({"write", "grant"})
          /\ <<>> \in Seq({"write", "grant"})
      OBVIOUS
    <3>2. /\ <<"write">> \o <<>> = <<"write">> /\ <<>> \o <<"grant">> = <<"grant">>
          /\ <<>> \o <<>> = <<>>
      BY <3>1, ConcatEmptySeq
    <3>3. <<"write">> \o <<"grant">> = <<"write", "grant">>
      BY Joins
    <3>4. QED
      BY <3>2, <3>3
  <2> DEFINE A == user[u].failed > 0
             B == user[u].resetRequired \/ MfaRequired(user[u])
  <2>2. todo = (IF A THEN <<"write">> ELSE <<>>) \o (IF B THEN <<>> ELSE <<"grant">>)
    OBVIOUS
  <2> HIDE DEF A, B, todo
  <2>3. QED
    BY <1>6, <2>1, <2>2
<1> HIDE DEF todo, updates
<1>8. TodoSound("login", todo)
  BY <1>7 DEF TodoSound
<1>9. /\ past' \in Memory /\ past' = [past EXCEPT !.wrong = past'.wrong]
      /\ \A v \in Users : past.wrong[v] <= past'.wrong[v]
  BY <1>1, <1>2, PastStays
<1>10. updates.failed <= past'.wrong[u]
  BY <1>4, <1>9 DEF Memory
<1>11. /\ todo \in Lists /\ todo[1] # "create"
       /\ MailsSound([todo |-> todo, mails |-> <<>>]) /\ <<>> \in Seq(Mail)
  <2>1. CASE todo = <<"write", "grant">>
    BY <2>1, Plans, PlanMails
  <2>2. CASE todo = <<"write">>
    BY <2>2, Plans, PlanMails
  <2>3. CASE todo = <<"grant">>
    BY <2>3, Plans, PlanMails
  <2>4. QED
    BY <1>7, <2>1, <2>2, <2>3
<1>12. QED
  BY <1>1, <1>3, <1>4, <1>5, <1>8, <1>9, <1>10, <1>11, PlainStarts

LEMMA ChangePasswordStep ==
    ASSUME IInv, NEW s \in Slots, NEW u \in Users, ChangePassword(s, u) PROVE IInv'
<1> DEFINE updates == [password |-> New]
<1>1. /\ Begin(s, "change", u, <<"write">>, updates, 0, <<>>)
      /\ UNCHANGED past /\ user[u].password # Undefined
  BY DEF ChangePassword
<1>2. Base
  BY DEF IInv
<1>3. Stored(u)
  BY <1>1, <1>2, HasIsStored
<1>4. New \in Id /\ New \in Value /\ New \in Nat
  BY <1>1, <1>2, NewId
<1>5. updates \in PasswordWrites
  BY <1>4 DEF PasswordWrites
<1> HIDE DEF updates
<1>6. updates \in Writes /\ UpdatesSound([op |-> "change", updates |-> updates])
  BY <1>5 DEF Writes, UpdatesSound
<1>7. TodoSound("change", <<"write">>)
  BY DEF TodoSound
<1>8. /\ past' \in Memory /\ past' = [past EXCEPT !.wrong = past'.wrong]
      /\ \A v \in Users : past.wrong[v] <= past'.wrong[v]
  BY <1>1, <1>2, PastStays
<1>10. <<"write">> \in Lists /\ <<"write">>[1] # "create"
  BY Plans
<1>11. <<>> \in Seq(Mail) /\ MailsSound([todo |-> <<"write">>, mails |-> <<>>])
  BY PlanMails
<1>12. QED
  BY <1>1, <1>3, <1>6, <1>7, <1>8, <1>10, <1>11, PlainStarts

LEMMA ForcedPasswordResetStep ==
    ASSUME IInv, NEW s \in Slots, NEW u \in Users, ForcedPasswordReset(s, u) PROVE IInv'
<1> DEFINE updates == ResetUpdates
<1>1. /\ Begin(s, "forced", u, <<"write">>, updates, 0, <<>>)
      /\ UNCHANGED past /\ Found(u)
  BY DEF ForcedPasswordReset
<1>2. Base
  BY DEF IInv
<1>3. Stored(u)
  BY <1>1, <1>2, HasIsStored
<1>4. New \in Id /\ New \in Value /\ New \in Nat
  BY <1>1, <1>2, NewId
<1>5. updates \in ResetWrites
  BY <1>4 DEF ResetWrites, ResetUpdates
<1> HIDE DEF updates
<1>6. updates \in Writes /\ UpdatesSound([op |-> "forced", updates |-> updates])
  BY <1>5 DEF Writes, UpdatesSound
<1>7. TodoSound("forced", <<"write">>)
  BY DEF TodoSound
<1>8. /\ past' \in Memory /\ past' = [past EXCEPT !.wrong = past'.wrong]
      /\ \A v \in Users : past.wrong[v] <= past'.wrong[v]
  BY <1>1, <1>2, PastStays
<1>10. <<"write">> \in Lists /\ <<"write">>[1] # "create"
  BY Plans
<1>11. <<>> \in Seq(Mail) /\ MailsSound([todo |-> <<"write">>, mails |-> <<>>])
  BY PlanMails
<1>12. QED
  BY <1>1, <1>3, <1>6, <1>7, <1>8, <1>10, <1>11, PlainStarts

LEMMA DisableMfaStep ==
    ASSUME IInv, NEW s \in Slots, NEW u \in Users, DisableMfa(s, u) PROVE IInv'
<1> DEFINE updates == [enabled |-> FALSE, secret |-> Undefined,
                       codes |-> Undefined]
<1>1. /\ Begin(s, "disable", u, <<"write">>, updates, 0, <<>>)
      /\ UNCHANGED past /\ user[u].secret # Undefined
  BY DEF DisableMfa
<1>2. Base
  BY DEF IInv
<1>3. Stored(u)
  BY <1>1, <1>2, HasIsStored
<1>4. New \in Id /\ New \in Value /\ New \in Nat
  BY <1>1, <1>2, NewId
<1>5. updates \in DisableWrites
  BY <1>4 DEF DisableWrites
<1> HIDE DEF updates
<1>6. updates \in Writes /\ UpdatesSound([op |-> "disable", updates |-> updates])
  BY <1>5 DEF Writes, UpdatesSound
<1>7. TodoSound("disable", <<"write">>)
  BY DEF TodoSound
<1>8. /\ past' \in Memory /\ past' = [past EXCEPT !.wrong = past'.wrong]
      /\ \A v \in Users : past.wrong[v] <= past'.wrong[v]
  BY <1>1, <1>2, PastStays
<1>10. <<"write">> \in Lists /\ <<"write">>[1] # "create"
  BY Plans
<1>11. <<>> \in Seq(Mail) /\ MailsSound([todo |-> <<"write">>, mails |-> <<>>])
  BY PlanMails
<1>12. QED
  BY <1>1, <1>3, <1>6, <1>7, <1>8, <1>10, <1>11, PlainStarts

LEMMA InviteUserStep ==
    ASSUME IInv, NEW s \in Slots, NEW u \in Users, InviteUser(s, u) PROVE IInv'
<1> DEFINE updates == [password |-> New]
<1>1. /\ Begin(s, "invite", u, <<"update", "mail">>, updates, 0, <<InvitationMail(u, New)>>)
      /\ UNCHANGED past /\ Stored(u)
  BY DEF InviteUser
<1>2. Base
  BY DEF IInv
<1>3. Stored(u)
  BY <1>1, <1>2, HasIsStored
<1>4. New \in Id /\ New \in Value /\ New \in Nat
  BY <1>1, <1>2, NewId
<1>5. updates \in PasswordWrites
  BY <1>4 DEF PasswordWrites
<1> HIDE DEF updates
<1>6. updates \in Writes /\ UpdatesSound([op |-> "invite", updates |-> updates])
  BY <1>5 DEF Writes, UpdatesSound
<1>7. TodoSound("invite", <<"update", "mail">>)
  BY DEF TodoSound
<1>8. /\ past' \in Memory /\ past' = [past EXCEPT !.wrong = past'.wrong]
      /\ \A v \in Users : past.wrong[v] <= past'.wrong[v]
  BY <1>1, <1>2, PastStays
<1>9. InvitationMail(u, New) \in Mail
  BY <1>4 DEF InvitationMail, Mail, Kinds
<1>10. <<"update", "mail">> \in Lists /\ <<"update", "mail">>[1] # "create"
  BY Plans
<1>11. /\ <<InvitationMail(u, New)>> \in Seq(Mail)
       /\ MailsSound([todo |-> <<"update", "mail">>, mails |-> <<InvitationMail(u, New)>>])
  BY <1>9, PlanMails
<1>12. QED
  BY <1>1, <1>3, <1>6, <1>7, <1>8, <1>10, <1>11, PlainStarts

LEMMA UpdateAccountUserStep ==
    ASSUME IInv, NEW s \in Slots, NEW u \in Users, NEW status \in Status,
           UpdateAccountUser(s, u, status)
    PROVE  IInv'
<1> DEFINE updates == [status |-> status]
<1>1. /\ Begin(s, "update", u, <<"update">>, updates, 0, <<>>)
      /\ UNCHANGED past /\ Stored(u) /\ status # "absent"
  BY DEF UpdateAccountUser
<1>2. Base
  BY DEF IInv
<1>3. Stored(u)
  BY <1>1, <1>2, HasIsStored
<1>4. New \in Id /\ New \in Value /\ New \in Nat
  BY <1>1, <1>2, NewId
<1>5. updates \in StatusWrites
  BY <1>4, <1>1 DEF StatusWrites
<1> HIDE DEF updates
<1>6. updates \in Writes /\ UpdatesSound([op |-> "update", updates |-> updates])
  BY <1>5 DEF Writes, UpdatesSound
<1>7. TodoSound("update", <<"update">>)
  BY DEF TodoSound
<1>8. /\ past' \in Memory /\ past' = [past EXCEPT !.wrong = past'.wrong]
      /\ \A v \in Users : past.wrong[v] <= past'.wrong[v]
  BY <1>1, <1>2, PastStays
<1>10. <<"update">> \in Lists /\ <<"update">>[1] # "create"
  BY Plans
<1>11. <<>> \in Seq(Mail) /\ MailsSound([todo |-> <<"update">>, mails |-> <<>>])
  BY PlanMails
<1>12. QED
  BY <1>1, <1>3, <1>6, <1>7, <1>8, <1>10, <1>11, PlainStarts

LEMMA UpdateUserStatusStep ==
    ASSUME IInv, NEW s \in Slots, NEW u \in Users, NEW status \in RequestedStatus,
           UpdateUserStatus(s, u, status) PROVE IInv'
<1> DEFINE updates == [status |-> status]
<1>1. /\ Begin(s, "status", u, <<"set_status">>, updates, 0, <<>>)
      /\ UNCHANGED past /\ Stored(u)
  BY DEF UpdateUserStatus
<1>2. Base
  BY DEF IInv
<1>3. Stored(u)
  BY <1>1, <1>2, HasIsStored
<1>4. New \in Id /\ New \in Value /\ New \in Nat
  BY <1>1, <1>2, NewId
<1>5. updates \in StatusWrites
  BY <1>4 DEF StatusWrites, RequestedStatus
<1> HIDE DEF updates
<1>6. updates \in Writes /\ UpdatesSound([op |-> "status", updates |-> updates])
  BY <1>5 DEF Writes, UpdatesSound
<1>7. TodoSound("status", <<"set_status">>)
  BY DEF TodoSound
<1>8. /\ past' \in Memory /\ past' = [past EXCEPT !.wrong = past'.wrong]
      /\ \A v \in Users : past.wrong[v] <= past'.wrong[v]
  BY <1>1, <1>2, PastStays
<1>10. <<"set_status">> \in Lists /\ <<"set_status">>[1] # "create"
  BY Plans
<1>11. <<>> \in Seq(Mail) /\ MailsSound([todo |-> <<"set_status">>, mails |-> <<>>])
  BY PlanMails
<1>12. QED
  BY <1>1, <1>3, <1>6, <1>7, <1>8, <1>10, <1>11, PlainStarts

LEMMA ForcePasswordResetStep ==
    ASSUME IInv, NEW s \in Slots, NEW u \in Users, NEW sendEmail \in BOOLEAN,
           ForcePasswordReset(s, u, sendEmail)
    PROVE  IInv'
<1> DEFINE updates == [resetRequired |-> TRUE]
           todo == IF sendEmail THEN <<"write", "mail">> ELSE <<"write">>
           msgs == IF sendEmail THEN <<ForcedResetMail(u)>> ELSE <<>>
<1>1. Begin(s, "force", u, todo, updates, 0, msgs) /\ UNCHANGED past /\ Found(u)
  BY DEF ForcePasswordReset
<1>2. Base
  BY DEF IInv
<1>3. Stored(u)
  BY <1>1, <1>2, HasIsStored
<1>4. updates \in ForceWrites
  BY DEF ForceWrites
<1> HIDE DEF updates
<1>5. updates \in Writes /\ UpdatesSound([op |-> "force", updates |-> updates])
  BY <1>4 DEF Writes, UpdatesSound
<1>6. ForcedResetMail(u) \in Mail
  BY UndefinedApart DEF ForcedResetMail, Mail, Kinds
<1>7. /\ todo \in Lists /\ todo[1] # "create" /\ TodoSound("force", todo)
      /\ msgs \in Seq(Mail) /\ MailsSound([todo |-> todo, mails |-> msgs])
  <2>1. CASE sendEmail
    <3>1. todo = <<"write", "mail">> /\ msgs = <<ForcedResetMail(u)>>
      BY <2>1
    <3> HIDE DEF todo, msgs
    <3>2. QED
      BY <1>6, <3>1, Plans, PlanMails DEF TodoSound
  <2>2. CASE ~sendEmail
    <3>1. todo = <<"write">> /\ msgs = <<>>
      BY <2>2
    <3> HIDE DEF todo, msgs
    <3>2. QED
      BY <3>1, Plans, PlanMails DEF TodoSound
  <2>3. QED
    BY <2>1, <2>2
<1>8. /\ past' \in Memory /\ past' = [past EXCEPT !.wrong = past'.wrong]
      /\ \A v \in Users : past.wrong[v] <= past'.wrong[v]
  BY <1>1, <1>2, PastStays
<1> HIDE DEF todo, msgs
<1>9. QED
  BY <1>1, <1>3, <1>5, <1>7, <1>8, PlainStarts

(* The parts of the invariant, and the past that stays, for those that     *)
(* follow.                                                                 *)
LEMMA SamePast ==
    ASSUME Base, UNCHANGED past
    PROVE  /\ past' \in Memory /\ past'.uses = past.uses /\ past'.raced = past.raced
           /\ past.halfMade \subseteq past'.halfMade
           /\ past.overlapped \subseteq past'.overlapped
           /\ \A v \in Users : past.wrong[v] <= past'.wrong[v]
           /\ \A v \in Users : past.proven[v] \subseteq past'.proven[v]
<1>1. past \in Memory /\ \A v \in Users : past.wrong[v] \in Nat
  BY DEF Base, Memory
<1>2. QED
  BY <1>1

LEMMA ForgotPasswordStep ==
    ASSUME IInv, NEW s \in Slots, NEW u \in Users, ForgotPassword(s, u) PROVE IInv'
<1> DEFINE msgs == <<PasswordResetMail(u, New)>>
           c == CallOf("forgot", u, <<"store", "mail">>, <<>>, New, msgs)
<1>1. /\ Found(u) /\ UNCHANGED past
      /\ Begin(s, "forgot", u, <<"store", "mail">>, <<>>, New, msgs)
  BY DEF ForgotPassword
<1>2. Base /\ LockSound /\ TokensSound /\ FactorSound /\ MailSound
  BY DEF IInv
<1>3. New \in Id /\ New \in Nat /\ New \in Value /\ New = begun + 1
  BY <1>1, <1>2, NewId
<1>4. PasswordResetMail(u, New) \in MailsOf(u, New) /\ PasswordResetMail(u, New) \in Mail
  BY <1>3 DEF PasswordResetMail, MailsOf, Mail, Kinds
<1>5. /\ msgs \in Seq(Mail) /\ MailsSound([todo |-> <<"store", "mail">>, mails |-> msgs])
      /\ PasswordResetMail(u, New) \in Range(msgs)
  <2>1. \A m : m \in Range(<<m>>)
    BY DEF Range
  <2>2. QED
    BY <1>4, <2>1, PlanMails
<1>6. /\ c.op = "forgot" /\ c.user = u /\ c.todo = <<"store", "mail">> /\ c.token = New
      /\ c.mails = msgs
  BY DEF CallOf
<1> HIDE DEF msgs
<1>7. Started(s, c)
  <2>1. "forgot" \in Ops \ {"none"} /\ <<>> \in Writes /\ <<"store", "mail">> \in Lists
    BY Plans DEF Ops, Writes
  <2>2. TodoSound("forgot", <<"store", "mail">>)
    BY DEF TodoSound
  <2>3. UpdatesSound([op |-> "forgot", updates |-> <<>>])
    BY DEF UpdatesSound
  <2>4. New <= New
    BY <1>3
  <2>5. QED
    BY <1>1, <1>2, <1>3, <1>5, <2>1, <2>2, <2>3, <2>4, BeginStarts
<1> HIDE DEF c
<1>8. /\ past' \in Memory /\ past'.uses = past.uses /\ past'.raced = past.raced
      /\ past.halfMade \subseteq past'.halfMade
      /\ past.overlapped \subseteq past'.overlapped
      /\ \A v \in Users : past.wrong[v] <= past'.wrong[v]
      /\ \A v \in Users : past.proven[v] \subseteq past'.proven[v]
  BY <1>1, <1>2, SamePast
<1>9. Base'
  <2>1. Stored(c.user) /\ c.todo[1] # "create" /\ c.op # "create"
    BY <1>1, <1>2, <1>6, HasIsStored, Plans
  <2>2. QED
    BY <1>2, <1>7, <1>8, <2>1, StartsBase
<1>10. LockSound'
  BY <1>2, <1>6, <1>7, <1>8, StartsLocks
<1>11. TokensSound'
  BY <1>2, <1>3, <1>6, <1>7, <1>8, StartsTokens
<1>12. FactorSound'
  BY <1>2, <1>6, <1>7, <1>8, StartsFactors
<1>13. MailSound'
  <2>1. \E m \in MailsOf(c.user, c.token) : m \in Range(c.mails)
    BY <1>4, <1>5, <1>6
  <2>2. QED
    BY <1>2, <1>6, <1>7, <2>1, StartsMails
<1>14. QED
  BY <1>9, <1>10, <1>11, <1>12, <1>13 DEF IInv

LEMMA ResetPasswordStep ==
    ASSUME IInv, NEW s \in Slots, NEW t \in tokens, ResetPassword(s, t) PROVE IInv'
<1> DEFINE c == CallOf("reset", t.user, <<"write", "mark">>, ResetUpdates, t.id, <<>>)
<1>1. /\ ~t.used
      /\ Begin(s, "reset", t.user, <<"write", "mark">>, ResetUpdates, t.id, <<>>)
      /\ past' = IF \E r \in Slots : call[r].op = "reset" /\ call[r].token = t.id
                 THEN [past EXCEPT !.overlapped = @ \cup {t.id}] ELSE past
      /\ PasswordResetMail(t.user, t.id) \in told
  BY DEF ResetPassword
<1>2. Base /\ LockSound /\ TokensSound /\ FactorSound /\ MailSound
  BY DEF IInv
<1>3. New \in Id /\ New \in Nat /\ New \in Value /\ New = begun + 1
  BY <1>1, <1>2, NewId
<1>4. t.id \in Id /\ t.id \in Nat /\ t.user \in Users /\ t.id <= begun /\ begun \in Nat
  <2>1. t \in Token /\ begun \in 0..MaxCalls
    BY <1>2 DEF Base, TypeOK
  <2>2. t.id <= begun
    BY <1>2 DEF TokensSound
  <2>3. t.id \in Id /\ t.user \in Users
    BY <2>1 DEF Token
  <2>4. Id \subseteq Nat /\ MaxCalls \in Nat
    BY UndefinedApart
  <2>5. begun \in Nat
    BY <2>1, <2>4
  <2>6. QED
    BY <2>2, <2>3, <2>4, <2>5
<1>5. /\ c.op = "reset" /\ c.user = t.user /\ c.todo = <<"write", "mark">>
      /\ c.token = t.id /\ c.todo[1] = "write"
  BY Plans DEF CallOf
<1>6. Started(s, c)
  <2>1. "reset" \in Ops \ {"none"} /\ <<"write", "mark">> \in Lists
    BY Plans DEF Ops
  <2>2. ResetUpdates \in ResetWrites
    BY <1>3 DEF ResetUpdates, ResetWrites
  <2>3. ResetUpdates \in Writes /\ UpdatesSound([op |-> "reset", updates |-> ResetUpdates])
    BY <2>2 DEF Writes, UpdatesSound
  <2>4. TodoSound("reset", <<"write", "mark">>)
    BY DEF TodoSound
  <2>5. t.id <= New
    BY <1>3, <1>4
  <2>6. /\ <<>> \in Seq(Mail)
        /\ MailsSound([todo |-> <<"write", "mark">>, mails |-> <<>>])
    BY PlanMails
  <2>7. QED
    BY <1>1, <1>2, <1>4, <2>1, <2>3, <2>4, <2>5, <2>6, BeginStarts
<1> HIDE DEF c
<1>7. /\ past' \in Memory /\ past'.uses = past.uses /\ past'.raced = past.raced
      /\ past'.halfMade = past.halfMade /\ past'.wrong = past.wrong
      /\ past'.proven = past.proven /\ past.overlapped \subseteq past'.overlapped
      /\ t.id \in past'.overlapped \/ \A r \in Slots : ~Resets(r, t.id)
  <2>1. past \in Memory
    BY <1>2 DEF Base
  <2>2. CASE \E r \in Slots : call[r].op = "reset" /\ call[r].token = t.id
    <3>1. past' = [past EXCEPT !.overlapped = @ \cup {t.id}]
      BY <1>1, <2>2
    <3>2. QED
      BY <1>4, <2>1, <3>1 DEF Memory
  <2>3. CASE ~\E r \in Slots : call[r].op = "reset" /\ call[r].token = t.id
    <3>1. past' = past
      BY <1>1, <2>3
    <3>2. QED
      BY <2>1, <2>3, <3>1 DEF Resets
  <2>4. QED
    BY <2>2, <2>3
<1>8. \A v \in Users : past.wrong[v] <= past'.wrong[v]
  <2>1. \A v \in Users : past.wrong[v] \in Nat
    BY <1>2 DEF Base, Memory
  <2>2. QED
    BY <1>7, <2>1
<1>9. Stored(t.user)
  BY <1>2 DEF Base, UsersSound
<1>10. Base'
  BY <1>2, <1>5, <1>6, <1>7, <1>9, StartsBase
<1>11. LockSound'
  BY <1>2, <1>5, <1>6, <1>7, <1>8, StartsLocks
<1>12. TokensSound'
  <2>1. \E k \in tokens : k.id = c.token /\ ~k.used
    BY <1>1, <1>5
  <2>2. c.token \in past'.overlapped \/ \A r \in Slots : ~Resets(r, c.token)
    BY <1>5, <1>7
  <2>3. QED
    BY <1>2, <1>5, <1>6, <1>7, <2>1, <2>2, StartsTokens
<1>13. FactorSound'
  BY <1>2, <1>5, <1>6, <1>7, StartsFactors
<1>14. MailSound'
  BY <1>2, <1>5, <1>6, StartsMails
<1>15. QED
  BY <1>10, <1>11, <1>12, <1>13, <1>14 DEF IInv

(* Requests that write codes and mail them. *)
LEMMA MailingStarts ==
    ASSUME IInv, NEW s \in Slots, NEW op \in {"setup", "regenerate"}, NEW u \in Users,
           Stored(u), NEW updates \in Writes,
           UpdatesSound([op |-> op, updates |-> updates]), updates.codes = New,
           NEW m \in MailsOf(u, New),
           Begin(s, op, u, <<"write", "mail">>, updates, 0, <<m>>), UNCHANGED past
    PROVE  IInv'
<1> DEFINE msgs == <<m>>
           c == CallOf(op, u, <<"write", "mail">>, updates, 0, msgs)
<1>1. Base /\ LockSound /\ TokensSound /\ FactorSound /\ MailSound
  BY DEF IInv
<1>2. New \in Id /\ New \in Nat
  BY <1>1, NewId
<1>3. m \in Mail /\ m \in Range(msgs)
  BY DEF MailsOf, Range
<1>4. msgs \in Seq(Mail) /\ MailsSound([todo |-> <<"write", "mail">>, mails |-> msgs])
  BY <1>3, PlanMails
<1>5. /\ c.op = op /\ c.user = u /\ c.todo = <<"write", "mail">> /\ c.updates = updates
      /\ c.mails = msgs /\ c.todo[1] = "write"
  BY Plans DEF CallOf
<1>6. Begin(s, op, u, <<"write", "mail">>, updates, 0, msgs)
  OBVIOUS
<1> HIDE DEF msgs
<1>7. Started(s, c)
  <2>1. op \in Ops \ {"none"} /\ <<"write", "mail">> \in Lists
    BY Plans DEF Ops
  <2>2. TodoSound(op, <<"write", "mail">>)
    BY DEF TodoSound
  <2>3. 0 <= New
    BY <1>2
  <2>4. QED
    BY <1>1, <1>4, <1>6, <2>1, <2>2, <2>3, BeginStarts
<1> HIDE DEF c
<1>8. /\ past' \in Memory /\ past'.uses = past.uses /\ past'.raced = past.raced
      /\ past.halfMade \subseteq past'.halfMade
      /\ past.overlapped \subseteq past'.overlapped
      /\ \A v \in Users : past.wrong[v] <= past'.wrong[v]
      /\ \A v \in Users : past.proven[v] \subseteq past'.proven[v]
  BY <1>1, SamePast
<1>9. Base'
  BY <1>1, <1>5, <1>7, <1>8, StartsBase
<1>10. LockSound'
  BY <1>1, <1>5, <1>7, <1>8, StartsLocks
<1>11. TokensSound'
  BY <1>1, <1>5, <1>7, <1>8, StartsTokens
<1>12. FactorSound'
  BY <1>1, <1>5, <1>7, <1>8, StartsFactors
<1>13. MailSound'
  <2>1. \E n \in MailsOf(c.user, c.updates.codes) : n \in Range(c.mails)
    BY <1>3, <1>5
  <2>2. c.op # "forgot"
    BY <1>5
  <2>3. QED
    BY <1>1, <1>7, <2>1, <2>2, StartsMails
<1>14. QED
  BY <1>9, <1>10, <1>11, <1>12, <1>13 DEF IInv

LEMMA SetupMfaStep ==
    ASSUME IInv, NEW s \in Slots, NEW u \in Users, SetupMfa(s, u) PROVE IInv'
<1> DEFINE updates == [secret |-> New, codes |-> New, enabled |-> FALSE]
           m == MfaSetupMail(u, New)
<1>1. /\ Begin(s, "setup", u, <<"write", "mail">>, updates, 0, <<m>>)
      /\ UNCHANGED past /\ Stored(u)
  BY DEF SetupMfa
<1>2. Base
  BY DEF IInv
<1>3. Stored(u)
  BY <1>1, <1>2, HasIsStored
<1>4. New \in Id /\ New \in Value
  BY <1>1, <1>2, NewId
<1>5. updates \in SetupWrites /\ updates.codes = New
  BY <1>4 DEF SetupWrites
<1>6. m \in MailsOf(u, New)
  BY <1>4 DEF MfaSetupMail, MailsOf, Mail, Kinds
<1> HIDE DEF updates, m
<1>7. updates \in Writes /\ UpdatesSound([op |-> "setup", updates |-> updates])
  BY <1>5 DEF Writes, UpdatesSound
<1>8. QED
  BY <1>1, <1>3, <1>5, <1>6, <1>7, MailingStarts

LEMMA RegenerateBackupCodesStep ==
    ASSUME IInv, NEW s \in Slots, NEW u \in Users, RegenerateBackupCodes(s, u) PROVE IInv'
<1> DEFINE updates == [codes |-> New]
           m == BackupCodesMail(u, New)
<1>1. /\ Begin(s, "regenerate", u, <<"write", "mail">>, updates, 0, <<m>>)
      /\ UNCHANGED past /\ user[u].secret # Undefined
  BY DEF RegenerateBackupCodes
<1>2. Base
  BY DEF IInv
<1>3. Stored(u)
  BY <1>1, <1>2, HasIsStored
<1>4. New \in Id /\ New \in Value
  BY <1>1, <1>2, NewId
<1>5. updates \in CodesWrites /\ updates.codes = New
  BY <1>4 DEF CodesWrites
<1>6. m \in MailsOf(u, New)
  BY <1>4 DEF BackupCodesMail, MailsOf, Mail, Kinds
<1> HIDE DEF updates, m
<1>7. updates \in Writes /\ UpdatesSound([op |-> "regenerate", updates |-> updates])
  BY <1>5 DEF Writes, UpdatesSound
<1>8. QED
  BY <1>1, <1>3, <1>5, <1>6, <1>7, MailingStarts

LEMMA VerifyMfaSetupStep ==
    ASSUME IInv, NEW s \in Slots, NEW u \in Users, VerifyMfaSetup(s, u) PROVE IInv'
<1> DEFINE updates == [enabled |-> TRUE]
           c == CallOf("verify_setup", u, <<"write">>, updates, 0, <<>>)
<1>1. /\ Begin(s, "verify_setup", u, <<"write">>, updates, 0, <<>>)
      /\ past' = [past EXCEPT !.proven[u] = @ \cup {user[u].secret}]
      /\ user[u].secret # Undefined
  BY DEF VerifyMfaSetup
<1>2. Base /\ LockSound /\ TokensSound /\ FactorSound /\ MailSound
  BY DEF IInv
<1>3. Stored(u) /\ user[u].secret \in Value
  BY <1>1, <1>2, HasIsStored, UserFields
<1>4. updates \in VerifyWrites
  BY DEF VerifyWrites
<1> HIDE DEF updates
<1>5. updates \in Writes /\ UpdatesSound([op |-> "verify_setup", updates |-> updates])
  BY <1>4 DEF Writes, UpdatesSound
<1>6. /\ c.op = "verify_setup" /\ c.user = u /\ c.todo = <<"write">>
      /\ c.todo[1] = "write"
  BY Plans DEF CallOf
<1>7. Started(s, c)
  <2>1. "verify_setup" \in Ops \ {"none"} /\ <<"write">> \in Lists
    BY Plans DEF Ops
  <2>2. TodoSound("verify_setup", <<"write">>)
    BY DEF TodoSound
  <2>3. 0 <= New
    BY <1>1, <1>2, NewId
  <2>4. <<>> \in Seq(Mail) /\ MailsSound([todo |-> <<"write">>, mails |-> <<>>])
    BY PlanMails
  <2>5. QED
    BY <1>1, <1>2, <1>5, <2>1, <2>2, <2>3, <2>4, BeginStarts
<1> HIDE DEF c
<1>8. /\ past' \in Memory /\ past'.uses = past.uses /\ past'.raced = past.raced
      /\ past'.halfMade = past.halfMade /\ past'.overlapped = past.overlapped
      /\ past'.wrong = past.wrong /\ user[u].secret \in past'.proven[u]
      /\ \A v \in Users : past.proven[v] \subseteq past'.proven[v]
  <2> DEFINE proven == [past.proven EXCEPT ![u] = @ \cup {user[u].secret}]
  <2>1. past \in Memory
    BY <1>2 DEF Base
  <2>2. past' = [past EXCEPT !.proven = proven]
    BY <1>1
  <2>3. /\ proven \in [Users -> SUBSET Value] /\ user[u].secret \in proven[u]
        /\ \A v \in Users : past.proven[v] \subseteq proven[v]
    BY <1>3, <2>1 DEF Memory
  <2> HIDE DEF proven
  <2>4. QED
    BY <2>1, <2>2, <2>3 DEF Memory
<1>9. \A v \in Users : past.wrong[v] <= past'.wrong[v]
  <2>1. \A v \in Users : past.wrong[v] \in Nat
    BY <1>2 DEF Base, Memory
  <2>2. QED
    BY <1>8, <2>1
<1>10. Base'
  BY <1>2, <1>3, <1>6, <1>7, <1>8, StartsBase
<1>11. LockSound'
  BY <1>2, <1>6, <1>7, <1>8, <1>9, StartsLocks
<1>12. TokensSound'
  BY <1>2, <1>6, <1>7, <1>8, StartsTokens
<1>13. FactorSound'
  BY <1>2, <1>6, <1>7, <1>8, StartsFactors
<1>14. MailSound'
  BY <1>2, <1>6, <1>7, StartsMails
<1>15. QED
  BY <1>10, <1>11, <1>12, <1>13, <1>14 DEF IInv

(* A user an administrator makes, with a second factor or without, invited *)
(* or not.                                                                 *)
LEMMA CreatePlans ==
    /\ <<"create">>[1] = "create" /\ <<"create", "mail">>[1] = "create"
    /\ <<"create", "write", "mail">>[1] = "create"
    /\ <<"create", "write", "mail", "mail">>[1] = "create"
    /\ <<"create", "write", "mail">> \notin {<<"create">>, <<"create", "mail">>}
    /\ <<"create", "write", "mail", "mail">> \notin {<<"create">>, <<"create", "mail">>}
    /\ \A m : m \in Range(<<m>>)
    /\ \A m, n : m \in Range(<<m, n>>)
<1>1. /\ <<"create">>[1] = "create" /\ <<"create", "mail">>[1] = "create"
      /\ <<"create", "write", "mail">>[1] = "create"
      /\ <<"create", "write", "mail", "mail">>[1] = "create"
  OBVIOUS
<1>2. /\ <<"create", "write", "mail">> \notin {<<"create">>, <<"create", "mail">>}
      /\ <<"create", "write", "mail", "mail">> \notin {<<"create">>, <<"create", "mail">>}
  OBVIOUS
<1>3. \A m : m \in Range(<<m>>)
  BY DEF Range
<1>4. \A m, n : m \in Range(<<m, n>>)
  BY DEF Range
<1>5. QED
  BY <1>1, <1>2, <1>3, <1>4

LEMMA Optional ==
    ASSUME NEW a, NEW b, NEW x, NEW y, NEW sets \in BOOLEAN, NEW invites \in BOOLEAN
    PROVE  LET todo == <<"create">> \o (IF sets THEN <<"write", "mail">> ELSE <<>>)
                                    \o (IF invites THEN <<"mail">> ELSE <<>>)
               msgs == (IF sets THEN <<x>> ELSE <<>>) \o (IF invites THEN <<y>> ELSE <<>>) IN
           /\ ~sets /\ ~invites => todo = <<"create">> /\ msgs = <<>>
           /\ ~sets /\ invites => todo = <<"create", "mail">> /\ msgs = <<y>>
           /\ sets /\ ~invites => todo = <<"create", "write", "mail">> /\ msgs = <<x>>
           /\ sets /\ invites => /\ todo = <<"create", "write", "mail", "mail">>
                                 /\ msgs = <<x, y>>
<1>5. ASSUME NEW z PROVE <<z>> \o <<>> = <<z>> /\ <<>> \o <<z>> = <<z>>
  <2>1. <<z>> \in Seq({z})
    OBVIOUS
  <2>2. QED
    BY <2>1, ConcatEmptySeq
<1>1. CASE ~sets /\ ~invites
  <2>1. <<"create">> \o <<>> \o <<>> = <<"create">> /\ <<>> \o <<>> = <<>>
    OBVIOUS
  <2>2. QED
    BY <1>1, <2>1
<1>2. CASE ~sets /\ invites
  <2>1. <<"create">> \o <<>> \o <<"mail">> = <<"create", "mail">>
    BY <1>5, Joins
  <2>3. <<>> \o <<y>> = <<y>>
    BY <1>5
  <2>2. QED
    BY <1>2, <2>1, <2>3
<1>3. CASE sets /\ ~invites
  <2>1. <<"create">> \o <<"write", "mail">> = <<"create", "write", "mail">>
    BY Joins
  <2>3. <<"create", "write", "mail">> \o <<>> = <<"create", "write", "mail">>
    OBVIOUS
  <2>2. <<x>> \o <<>> = <<x>>
    BY <1>5
  <2>4. QED
    BY <1>3, <2>1, <2>2, <2>3
<1>4. CASE sets /\ invites
  <2>1. <<"create">> \o <<"write", "mail">> = <<"create", "write", "mail">>
    BY Joins
  <2>2. <<"create", "write", "mail">> \o <<"mail">> = <<"create", "write", "mail", "mail">>
    BY Joins
  <2>3. <<x>> \o <<y>> = <<x, y>>
    BY Joins
  <2>4. QED
    BY <1>4, <2>1, <2>2, <2>3
<1>6. QED
  BY <1>1, <1>2, <1>3, <1>4

LEMMA CreateUserStep ==
    ASSUME IInv, NEW s \in Slots, NEW u \in Users, NEW dto \in NewUser, CreateUser(s, u, dto)
    PROVE  IInv'
<1> DEFINE sets == dto.enableMfa /\ setting.mfa
           invites == dto.email /\ dto.sendInvitation /\ (dto.enableMfa => setting.mfa)
           todo == <<"create">> \o (IF sets THEN <<"write", "mail">> ELSE <<>>)
                                \o (IF invites THEN <<"mail">> ELSE <<>>)
           updates == [password |-> IF dto.email THEN New ELSE Undefined,
                       enabled |-> dto.enableMfa, secret |-> New, codes |-> New,
                       setupRequired |-> TRUE]
           msgs == (IF sets THEN <<MfaSetupMail(u, New)>> ELSE <<>>)
                   \o (IF invites THEN <<InvitationMail(u, New)>> ELSE <<>>)
           c == CallOf("create", u, todo, updates, 0, msgs)
<1>1. /\ ~Stored(u) /\ \A r \in Slots : ~(call[r].op = "create" /\ call[r].user = u)
      /\ Begin(s, "create", u, todo, updates, 0, msgs)
      /\ past' = IF dto.enableMfa /\ ~setting.mfa
                 THEN [past EXCEPT !.halfMade = @ \cup {u}] ELSE past
  BY DEF CreateUser
<1>2. Base /\ LockSound /\ TokensSound /\ FactorSound /\ MailSound
  BY DEF IInv
<1>3. New \in Id /\ New \in Nat /\ New \in Value /\ New = begun + 1
  BY <1>1, <1>2, NewId
<1>4. dto.enableMfa \in BOOLEAN /\ dto.email \in BOOLEAN /\ setting.mfa \in BOOLEAN
  BY <1>2 DEF NewUser, Base, TypeOK
<1>5. /\ updates \in CreateWrites /\ updates.codes = New /\ updates.enabled = dto.enableMfa
  BY <1>3, <1>4, UndefinedApart DEF CreateWrites
<1>6. /\ MfaSetupMail(u, New) \in MailsOf(u, New) /\ MfaSetupMail(u, New) \in Mail
      /\ InvitationMail(u, New) \in Mail
  BY <1>3 DEF MfaSetupMail, InvitationMail, MailsOf, Mail, Kinds
<1>7. sets \in BOOLEAN /\ invites \in BOOLEAN
  OBVIOUS
<1>8. /\ ~sets /\ ~invites => todo = <<"create">> /\ msgs = <<>>
      /\ ~sets /\ invites =>
            todo = <<"create", "mail">> /\ msgs = <<InvitationMail(u, New)>>
      /\ sets /\ ~invites =>
            todo = <<"create", "write", "mail">> /\ msgs = <<MfaSetupMail(u, New)>>
      /\ sets /\ invites =>
            /\ todo = <<"create", "write", "mail", "mail">>
            /\ msgs = <<MfaSetupMail(u, New), InvitationMail(u, New)>>
  BY <1>7, Optional
<1>9. sets => dto.enableMfa /\ setting.mfa
  OBVIOUS
<1>10. ~sets /\ dto.enableMfa => dto.enableMfa /\ ~setting.mfa
  OBVIOUS
<1> HIDE DEF todo, msgs, updates, sets, invites
<1>11. /\ todo \in Lists /\ todo[1] = "create" /\ TodoSound("create", todo)
       /\ msgs \in Seq(Mail) /\ MailsSound([todo |-> todo, mails |-> msgs])
       /\ todo \in {<<"create">>, <<"create", "mail">>} => ~sets
       /\ todo \in {<<"create", "write", "mail">>, <<"create", "write", "mail", "mail">>,
                    <<"write", "mail">>, <<"write", "mail", "mail">>}
          => MfaSetupMail(u, New) \in Range(msgs)
  <2>1. CASE ~sets /\ ~invites
    <3>1. todo = <<"create">> /\ msgs = <<>>
      BY <1>8, <2>1
    <3>2. todo[1] = "create" /\ todo \in Lists /\ TodoSound("create", todo)
      BY <3>1, Plans, CreatePlans DEF TodoSound
    <3>3. msgs \in Seq(Mail) /\ MailsSound([todo |-> todo, mails |-> msgs])
      BY <3>1, PlanMails
    <3>4. todo \notin {<<"create", "write", "mail">>, <<"create", "write", "mail", "mail">>,
                       <<"write", "mail">>, <<"write", "mail", "mail">>}
      BY <3>1
    <3>5. QED
      BY <2>1, <3>2, <3>3, <3>4
  <2>2. CASE ~sets /\ invites
    <3>1. todo = <<"create", "mail">> /\ msgs = <<InvitationMail(u, New)>>
      BY <1>8, <2>2
    <3>2. todo[1] = "create" /\ todo \in Lists /\ TodoSound("create", todo)
      BY <3>1, Plans, CreatePlans DEF TodoSound
    <3>3. msgs \in Seq(Mail) /\ MailsSound([todo |-> todo, mails |-> msgs])
      BY <1>6, <3>1, PlanMails
    <3>4. todo \notin {<<"create", "write", "mail">>, <<"create", "write", "mail", "mail">>,
                       <<"write", "mail">>, <<"write", "mail", "mail">>}
      BY <3>1
    <3>5. QED
      BY <2>2, <3>2, <3>3, <3>4
  <2>3. CASE sets /\ ~invites
    <3>1. todo = <<"create", "write", "mail">> /\ msgs = <<MfaSetupMail(u, New)>>
      BY <1>8, <2>3
    <3>2. todo[1] = "create" /\ todo \in Lists /\ TodoSound("create", todo)
      BY <3>1, Plans, CreatePlans DEF TodoSound
    <3>3. msgs \in Seq(Mail) /\ MailsSound([todo |-> todo, mails |-> msgs])
      BY <1>6, <3>1, PlanMails
    <3>4. todo \notin {<<"create">>, <<"create", "mail">>}
      BY <3>1, CreatePlans
    <3>5. MfaSetupMail(u, New) \in Range(msgs)
      BY <3>1, CreatePlans
    <3>6. QED
      BY <3>2, <3>3, <3>4, <3>5
  <2>4. CASE sets /\ invites
    <3>1. /\ todo = <<"create", "write", "mail", "mail">>
          /\ msgs = <<MfaSetupMail(u, New), InvitationMail(u, New)>>
      BY <1>8, <2>4
    <3>2. todo[1] = "create" /\ todo \in Lists /\ TodoSound("create", todo)
      BY <3>1, Plans, CreatePlans DEF TodoSound
    <3>3. msgs \in Seq(Mail) /\ MailsSound([todo |-> todo, mails |-> msgs])
      BY <1>6, <3>1, PlanMails
    <3>4. todo \notin {<<"create">>, <<"create", "mail">>}
      BY <3>1, CreatePlans
    <3>5. MfaSetupMail(u, New) \in Range(msgs)
      BY <3>1, CreatePlans
    <3>6. QED
      BY <3>2, <3>3, <3>4, <3>5
  <2>5. QED
    BY <2>1, <2>2, <2>3, <2>4
<1>12. /\ c.op = "create" /\ c.user = u /\ c.todo = todo /\ c.updates = updates
       /\ c.mails = msgs
  BY DEF CallOf
<1>13. Started(s, c)
  <2>1. "create" \in Ops \ {"none"} /\ updates \in Writes
    BY <1>5 DEF Ops, Writes
  <2>2. UpdatesSound([op |-> "create", updates |-> updates])
    BY <1>5 DEF UpdatesSound
  <2>3. 0 \in Nat /\ 0 <= New
    BY <1>3
  <2>4. QED
    BY <1>1, <1>2, <1>11, <2>1, <2>2, <2>3, BeginStarts
<1> HIDE DEF c
<1>14. /\ past' \in Memory /\ past'.uses = past.uses /\ past'.raced = past.raced
       /\ past'.overlapped = past.overlapped /\ past.halfMade \subseteq past'.halfMade
       /\ past'.wrong = past.wrong /\ past'.proven = past.proven
       /\ dto.enableMfa /\ ~setting.mfa => u \in past'.halfMade
  <2>1. past \in Memory
    BY <1>2 DEF Base
  <2>2. CASE dto.enableMfa /\ ~setting.mfa
    <3>1. past' = [past EXCEPT !.halfMade = @ \cup {u}]
      BY <1>1, <2>2
    <3>2. QED
      BY <2>1, <3>1 DEF Memory
  <2>3. CASE ~(dto.enableMfa /\ ~setting.mfa)
    <3>1. past' = past
      BY <1>1, <2>3
    <3>2. QED
      BY <2>1, <2>3, <3>1
  <2>4. QED
    BY <2>2, <2>3
<1>15. \A v \in Users : past.wrong[v] <= past'.wrong[v]
  <2>1. \A v \in Users : past.wrong[v] \in Nat
    BY <1>2 DEF Base, Memory
  <2>2. QED
    BY <1>14, <2>1
<1>16. Base'
  <2>1. Stored(c.user) <=> c.todo[1] # "create"
    BY <1>1, <1>11, <1>12
  <2>2. \A r \in Slots : ~(call[r].op = "create" /\ call[r].user = c.user)
    BY <1>1, <1>12
  <2>3. QED
    BY <1>2, <1>13, <1>14, <2>1, <2>2, StartsBase
<1>17. LockSound'
  BY <1>2, <1>12, <1>13, <1>14, <1>15, StartsLocks
<1>18. TokensSound'
  BY <1>2, <1>12, <1>13, <1>14, StartsTokens
<1>19. FactorSound'
  <2>1. c.updates.enabled /\ c.todo \in {<<"create">>, <<"create", "mail">>}
        => c.user \in past'.halfMade
    BY <1>5, <1>10, <1>11, <1>12, <1>14
  <2>2. \A v \in Users : past.proven[v] \subseteq past'.proven[v]
    BY <1>14
  <2>3. QED
    BY <1>2, <1>12, <1>13, <1>14, <2>1, <2>2, StartsFactors
<1>20. MailSound'
  <2>1. /\ c.todo \in {<<"create", "write", "mail">>, <<"create", "write", "mail", "mail">>,
                       <<"write", "mail">>, <<"write", "mail", "mail">>}
        => \E m \in MailsOf(c.user, c.updates.codes) : m \in Range(c.mails)
    BY <1>5, <1>6, <1>11, <1>12
  <2>2. c.op \notin {"forgot", "setup", "regenerate"}
    BY <1>12
  <2>3. QED
    BY <1>2, <1>13, <2>1, <2>2, StartsMails
<1>21. QED
  BY <1>16, <1>17, <1>18, <1>19, <1>20 DEF IInv

(* Steps that change no user but in its profile, or nothing but the mails, *)
(* the sessions, the locks and what is left of the tokens.                 *)
Quiet(u) ==
    /\ Stored(u)' <=> Stored(u)
    /\ ~Stored(u) => user'[u] = user[u]
    /\ user'[u].failed = user[u].failed /\ (user'[u].locked => user[u].locked)
    /\ user'[u].enabled = user[u].enabled /\ user'[u].secret = user[u].secret
    /\ user'[u].setupRequired = user[u].setupRequired
    /\ user'[u].codes = user[u].codes

LEMMA QuietMoves ==
    ASSUME IInv, CallsGoOn, OutKept, UNCHANGED <<setting, begun, past>>,
           mails' \subseteq Mail, told' \subseteq Mail, lost' \subseteq Mail,
           sessions' \subseteq Users, tokens' \subseteq tokens,
           faults' \in 0..MaxFaults, faults <= faults', user' \in [Users -> UserRecord],
           \A u \in Users : Quiet(u),
           \A r \in Slots : Busy(r) /\ call[r].todo[1] \in {"create", "write", "mark"}
                            => call'[r] = call[r]
    PROVE  IInv'
<1>1. Base /\ LockSound /\ TokensSound /\ FactorSound /\ MailSound
  BY DEF IInv
<1>2. past \in Memory /\ tokens \subseteq Token /\ begun \in 0..MaxCalls
  BY <1>1 DEF Base, TypeOK
<1>3. tokens' \subseteq Token
  BY <1>2
<1>4. TypeOK'
  <2>1. call' \in [Slots -> CallState]
    BY DEF CallsGoOn
  <2>2. begun' \in 0..MaxCalls
    BY <1>2
  <2>3. QED
    BY <1>1, <1>3, <2>1, <2>2, TypeMoves
<1>5. UsersSound'
  <2>1. \A u \in Users : /\ Stored(u)' <=> Stored(u)
                         /\ ~Stored(u) => user'[u] = user[u]
    BY DEF Quiet
  <2>2. \A r \in Slots : Busy(r) /\ call[r].todo[1] = "create"
                         => call'[r] = call[r] \/ call'[r] = Idle
    OBVIOUS
  <2>3. \A k \in tokens' : Stored(k.user)
    BY <1>1 DEF Base, UsersSound
  <2>4. QED
    BY <1>1, <1>3, <2>1, <2>2, <2>3, UsersMove
<1>6. Base'
  BY <1>2, <1>4, <1>5 DEF Base, CallsGoOn
<1>7. LockSound'
  <2>1. \A u \in Users : /\ user'[u].failed <= past.wrong[u]
                         /\ user'[u].locked => past.wrong[u] >= MaxFailed
    BY <1>1 DEF LockSound, Quiet
  <2>2. QED
    BY <1>1, <2>1, LocksMove
<1>8. TokensSound'
  <2>1. faults' \in Nat
    BY UndefinedApart
  <2>2. \A r \in Slots : call[r].op = "reset" /\ call[r].todo[1] = "mark"
                         => call'[r] = call[r]
    BY DEF Busy
  <2>3. QED
    BY <1>1, <2>1, <2>2, TokensMove
<1>9. FactorSound'
  <2>1. \A s \in Slots : call[s].op = "create" /\ call[s].todo[1] = "write"
                         => call'[s] = call[s] \/ call[s].user \in past'.halfMade
    BY DEF Busy
  <2>2. \A u \in Users : /\ user'[u].enabled = user[u].enabled
                         /\ user'[u].secret = user[u].secret
                         /\ user'[u].setupRequired = user[u].setupRequired
    BY DEF Quiet
  <2>3. QED
    BY <1>1, <2>1, <2>2, FactorsMove
<1>10. MailSound'
  <2>1. \A u \in Users : user'[u].codes \in {user[u].codes, Undefined}
                         \/ Mailed(u, user'[u].codes)
    BY DEF Quiet
  <2>2. \A k \in tokens' : \/ \E i \in tokens : i.id = k.id /\ i.user = k.user
                           \/ Mailed(k.user, k.id)
    OBVIOUS
  <2>3. QED
    BY <1>1, <1>3, <2>1, <2>2, MailsMove
<1>11. QED
  BY <1>6, <1>7, <1>8, <1>9, <1>10 DEF IInv

LEMMA SameUsers ==
    ASSUME Base, UNCHANGED user
    PROVE  user' \in [Users -> UserRecord] /\ \A u \in Users : Quiet(u)
<1>1. user \in [Users -> UserRecord]
  BY DEF Base, TypeOK
<1>2. QED
  BY <1>1 DEF Quiet, Stored

LEMMA SameFaults ==
    ASSUME Base
    PROVE  /\ faults \in Nat /\ faults \in 0..MaxFaults
           /\ UNCHANGED faults => faults' \in 0..MaxFaults /\ faults <= faults'
           /\ faults < MaxFaults /\ faults' = faults + 1
              => /\ faults' \in 0..MaxFaults /\ faults' \in Nat
                 /\ faults <= faults' /\ faults' >= faults + 1
<1>1. faults \in 0..MaxFaults /\ MaxFaults \in Nat
  BY UndefinedApart DEF Base, TypeOK
<1>2. QED
  BY <1>1

LEMMA DueKept ==
    ASSUME \A u \in Users : \A m \in Mail : Due(u, m) => Due(u, m)',
           mails \cup told \cup lost \subseteq mails' \cup told' \cup lost'
    PROVE  OutKept
BY DEF OutKept

LEMMA SameTypes ==
    ASSUME Base
    PROVE  /\ mails \subseteq Mail /\ told \subseteq Mail /\ lost \subseteq Mail
           /\ sessions \subseteq Users /\ tokens \subseteq Token
           /\ user \in [Users -> UserRecord] /\ past \in Memory
BY DEF Base, TypeOK

LEMMA GrantStep ==
    ASSUME IInv, NEW s \in Slots, Grant(s) PROVE IInv'
<1>1. /\ At(s, "grant") /\ sessions' = sessions \cup {call[s].user} /\ Advance(s)
      /\ UNCHANGED <<setting, user, tokens, mails, told, lost, begun, faults, past>>
  BY DEF Grant
<1>2. Base
  BY DEF IInv
<1>3. call[s].user \in Users /\ call[s].todo[1] = "grant"
  BY <1>1, <1>2, AtStep
<1>4. /\ CallsGoOn /\ (\A r \in Slots \ {s} : call'[r] = call[r])
      /\ \A u \in Users : \A m \in Mail : Due(u, m) => Due(u, m)'
  BY <1>1, <1>2, Advances
<1>5. OutKept
  BY <1>1, <1>4, DueKept
<1>6. user' \in [Users -> UserRecord] /\ \A u \in Users : Quiet(u)
  BY <1>1, <1>2, SameUsers
<1>7. faults' \in 0..MaxFaults /\ faults <= faults'
  BY <1>1, <1>2, SameFaults
<1>8. /\ mails' \subseteq Mail /\ told' \subseteq Mail /\ lost' \subseteq Mail
      /\ sessions' \subseteq Users /\ tokens' \subseteq tokens
  BY <1>1, <1>2, <1>3, SameTypes
<1>9. \A r \in Slots : Busy(r) /\ call[r].todo[1] \in {"create", "write", "mark"}
                       => call'[r] = call[r]
  BY <1>3, <1>4
<1>10. QED
  BY <1>1, <1>4, <1>5, <1>6, <1>7, <1>8, <1>9, QuietMoves

(* A profile: everything but the status is as it was.                      *)
LEMMA ProfileWritten ==
    ASSUME Base, NEW s \in Slots, At(s, "update") \/ At(s, "set_status"), NEW r \in UserRecord,
           r = [user[call[s].user] EXCEPT !.status = r.status], r.status # "absent",
           user' = [user EXCEPT ![call[s].user] = r]
    PROVE  user' \in [Users -> UserRecord] /\ \A u \in Users : Quiet(u)
<1>1. /\ call[s].user \in Users /\ Busy(s) /\ user[call[s].user] \in UserRecord
      /\ call[s].todo[1] # "create"
  <2>1. CASE At(s, "update")
    BY <2>1, AtStep
  <2>2. CASE At(s, "set_status")
    BY <2>2, AtStep
  <2>3. QED
    BY <2>1, <2>2
<1>2. Stored(call[s].user)
  BY <1>1 DEF Base, UsersSound
<1>3. user \in [Users -> UserRecord]
  BY DEF Base, TypeOK
<1>4. user' \in [Users -> UserRecord]
  BY <1>3
<1>5. \A u \in Users \ {call[s].user} : user'[u] = user[u]
  BY <1>3
<1>6. user'[call[s].user] = r
  BY <1>1, <1>3
<1>7. /\ r.failed = user[call[s].user].failed /\ r.locked = user[call[s].user].locked
      /\ r.enabled = user[call[s].user].enabled /\ r.secret = user[call[s].user].secret
      /\ r.setupRequired = user[call[s].user].setupRequired
      /\ r.codes = user[call[s].user].codes
  BY <1>1 DEF UserRecord
<1>8. \A u \in Users : Quiet(u)
  <2> SUFFICES ASSUME NEW u \in Users PROVE Quiet(u)
    OBVIOUS
  <2>1. CASE u # call[s].user
    BY <1>5, <2>1 DEF Quiet, Stored
  <2>2. CASE u = call[s].user
    BY <1>2, <1>6, <1>7, <2>2 DEF Quiet, Stored
  <2>3. QED
    BY <2>1, <2>2
<1>9. QED
  BY <1>4, <1>8

LEMMA ProfileStep ==
    ASSUME IInv, NEW s \in Slots, NEW step \in {"update", "set_status"}, At(s, step), Advance(s),
           user' \in [Users -> UserRecord], \A u \in Users : Quiet(u),
           UNCHANGED <<setting, tokens, sessions, mails, told, lost, begun, faults, past>>
    PROVE  IInv'
<1>2. Base
  BY DEF IInv
<1>3. call[s].todo[1] = step /\ step # "mail"
  BY <1>2, AtStep
<1>4. /\ CallsGoOn /\ (\A r \in Slots \ {s} : call'[r] = call[r])
      /\ \A u \in Users : \A m \in Mail : Due(u, m) => Due(u, m)'
  BY <1>2, <1>3, Advances
<1>5. OutKept
  BY <1>4, DueKept
<1>7. faults' \in 0..MaxFaults /\ faults <= faults'
  BY <1>2, SameFaults
<1>8. /\ mails' \subseteq Mail /\ told' \subseteq Mail /\ lost' \subseteq Mail
      /\ sessions' \subseteq Users /\ tokens' \subseteq tokens
  BY <1>2, SameTypes
<1>9. \A r \in Slots : Busy(r) /\ call[r].todo[1] \in {"create", "write", "mark"}
                       => call'[r] = call[r]
  BY <1>3, <1>4
<1>10. QED
  BY <1>4, <1>5, <1>7, <1>8, <1>9, QuietMoves

LEMMA UpdateUserStep ==
    ASSUME IInv, NEW s \in Slots, UpdateUser(s) PROVE IInv'
<1> DEFINE u == call[s].user
           r == UpdateProfile(user[u], call[s].updates)
<1>1. /\ At(s, "update") /\ Advance(s) /\ user' = [user EXCEPT ![u] = r]
      /\ UNCHANGED <<setting, tokens, sessions, mails, told, lost, begun, faults, past>>
  BY DEF UpdateUser, SetUser
<1>2. Base
  BY DEF IInv
<1>3. /\ user[u] \in UserRecord /\ call[s].op \in {"invite", "update"} /\ Busy(s)
      /\ CallSound(call[s]) /\ call[s].todo[1] = "update" /\ u \in Users
  BY <1>1, <1>2, AtStep, StepOps DEF Busy
<1>4. \/ "status" \notin DOMAIN call[s].updates
      \/ /\ "status" \in DOMAIN call[s].updates
         /\ call[s].updates.status \in (Status \cup RequestedStatus) \ {"absent"}
  <2>1. CASE call[s].op = "invite"
    <3>1. call[s].updates \in PasswordWrites
      BY <1>3, <2>1 DEF CallSound, UpdatesSound
    <3>2. QED
      BY <3>1 DEF PasswordWrites
  <2>2. CASE call[s].op = "update"
    <3>1. call[s].updates \in StatusWrites
      BY <1>3, <2>2 DEF CallSound, UpdatesSound
    <3>2. QED
      BY <3>1 DEF StatusWrites
  <2>3. QED
    BY <1>3, <2>1, <2>2
<1>5. Stored(u)
  BY <1>2, <1>3 DEF Base, UsersSound
<1>6. /\ r \in UserRecord /\ r = [user[u] EXCEPT !.status = r.status] /\ r.status # "absent"
  <2>1. user[u].status # "absent"
    BY <1>5 DEF Stored
  <2>2. CASE "status" \notin DOMAIN call[s].updates
    <3>1. r = [f \in DOMAIN user[u] |-> user[u][f]]
      BY <2>2 DEF UpdateProfile, ProfileFields
    <3>2. r = user[u]
      BY <1>3, <3>1 DEF UserRecord
    <3> HIDE DEF r
    <3>3. user[u] = [user[u] EXCEPT !.status = user[u].status]
      BY <1>3 DEF UserRecord
    <3>4. QED
      BY <1>3, <2>1, <3>2, <3>3
  <2>3. CASE /\ "status" \in DOMAIN call[s].updates
             /\ call[s].updates.status \in (Status \cup RequestedStatus) \ {"absent"}
    <3>1. r = [f \in DOMAIN user[u] |->
                   IF f = "status" THEN call[s].updates.status ELSE user[u][f]]
      BY <2>3 DEF UpdateProfile, ProfileFields
    <3>2. DOMAIN user[u] = Fields
      BY <1>3, UserFields
    <3>3. r = [user[u] EXCEPT !.status = call[s].updates.status]
      BY <1>3, <3>1, <3>2 DEF UserRecord, Fields
    <3> HIDE DEF r
    <3>4. QED
      BY <1>3, <2>3, <3>3 DEF UserRecord
  <2>4. QED
    BY <1>4, <2>2, <2>3
<1> HIDE DEF r
<1>7. user' \in [Users -> UserRecord] /\ \A v \in Users : Quiet(v)
  BY <1>1, <1>2, <1>6, ProfileWritten
<1>8. QED
  BY <1>1, <1>7, ProfileStep

LEMMA SetStatusStep ==
    ASSUME IInv, NEW s \in Slots, SetStatus(s) PROVE IInv'
<1> DEFINE u == call[s].user
           r == [user[u] EXCEPT !.status = call[s].updates.status]
<1>1. /\ At(s, "set_status") /\ Advance(s) /\ user' = [user EXCEPT ![u] = r]
      /\ UNCHANGED <<setting, tokens, sessions, mails, told, lost, begun, faults, past>>
  BY DEF SetStatus, SetUser
<1>2. Base
  BY DEF IInv
<1>3. /\ user[u] \in UserRecord /\ call[s].op = "status"
      /\ CallSound(call[s]) /\ call[s].todo[1] = "set_status" /\ u \in Users
  BY <1>1, <1>2, AtStep, StepOps DEF Busy
<1>4. call[s].updates.status \in (Status \cup RequestedStatus) \ {"absent"}
  <2>1. call[s].updates \in StatusWrites
    BY <1>3 DEF CallSound, UpdatesSound
  <2>2. QED
    BY <2>1 DEF StatusWrites
<1>5. /\ r \in UserRecord /\ r.status # "absent" /\ r.status = call[s].updates.status
  BY <1>3, <1>4 DEF UserRecord
<1>6. r = [user[u] EXCEPT !.status = r.status]
  BY <1>5
<1> HIDE DEF r
<1>7. user' \in [Users -> UserRecord] /\ \A v \in Users : Quiet(v)
  BY <1>1, <1>2, <1>5, <1>6, ProfileWritten
<1>8. QED
  BY <1>1, <1>7, ProfileStep

LEMMA MailStepStep ==
    ASSUME IInv, NEW s \in Slots, MailStep(s) PROVE IInv'
<1>1. /\ At(s, "mail") /\ mails' = mails \cup {Head(call[s].mails)} /\ MailDone(s)
      /\ UNCHANGED <<setting, user, tokens, sessions, told, lost, begun, faults, past>>
  BY DEF MailStep
<1>2. Base
  BY DEF IInv
<1>3. call[s].todo[1] = "mail"
  BY <1>1, <1>2, AtStep
<1>4. /\ CallsGoOn /\ (\A r \in Slots \ {s} : call'[r] = call[r])
      /\ Head(call[s].mails) \in Mail
      /\ \A u \in Users : \A m \in Mail :
            Due(u, m) /\ m # Head(call[s].mails) => Due(u, m)'
  BY <1>1, <1>2, MailAdvances
<1>5. OutKept
  BY <1>1, <1>4 DEF OutKept
<1>6. user' \in [Users -> UserRecord] /\ \A u \in Users : Quiet(u)
  BY <1>1, <1>2, SameUsers
<1>7. faults' \in 0..MaxFaults /\ faults <= faults'
  BY <1>1, <1>2, SameFaults
<1>8. /\ mails' \subseteq Mail /\ told' \subseteq Mail /\ lost' \subseteq Mail
      /\ sessions' \subseteq Users /\ tokens' \subseteq tokens
  BY <1>1, <1>2, <1>4, SameTypes
<1>9. \A r \in Slots : Busy(r) /\ call[r].todo[1] \in {"create", "write", "mark"}
                       => call'[r] = call[r]
  BY <1>3, <1>4
<1>10. QED
  BY <1>1, <1>4, <1>5, <1>6, <1>7, <1>8, <1>9, QuietMoves

LEMMA MailFailsStep ==
    ASSUME IInv, NEW s \in Slots, MailFails(s) PROVE IInv'
<1>1. /\ At(s, "mail") /\ lost' = lost \cup {Head(call[s].mails)} /\ MailDone(s)
      /\ faults < MaxFaults /\ faults' = faults + 1
      /\ UNCHANGED <<setting, user, tokens, sessions, mails, told, begun, past>>
  BY DEF MailFails
<1>2. Base
  BY DEF IInv
<1>3. call[s].todo[1] = "mail"
  BY <1>1, <1>2, AtStep
<1>4. /\ CallsGoOn /\ (\A r \in Slots \ {s} : call'[r] = call[r])
      /\ Head(call[s].mails) \in Mail
      /\ \A u \in Users : \A m \in Mail :
            Due(u, m) /\ m # Head(call[s].mails) => Due(u, m)'
  BY <1>1, <1>2, MailAdvances
<1>5. OutKept
  BY <1>1, <1>4 DEF OutKept
<1>6. user' \in [Users -> UserRecord] /\ \A u \in Users : Quiet(u)
  BY <1>1, <1>2, SameUsers
<1>7. faults' \in 0..MaxFaults /\ faults <= faults'
  BY <1>1, <1>2, SameFaults
<1>8. /\ mails' \subseteq Mail /\ told' \subseteq Mail /\ lost' \subseteq Mail
      /\ sessions' \subseteq Users /\ tokens' \subseteq tokens
  BY <1>1, <1>2, <1>4, SameTypes
<1>9. \A r \in Slots : Busy(r) /\ call[r].todo[1] \in {"create", "write", "mark"}
                       => call'[r] = call[r]
  BY <1>3, <1>4
<1>10. QED
  BY <1>1, <1>4, <1>5, <1>6, <1>7, <1>8, <1>9, QuietMoves

(* The email queue, the clock and the sign-ins of one step change no call. *)
LEMMA AroundMoves ==
    ASSUME IInv, UNCHANGED <<setting, call, begun, past>>,
           mails' \subseteq Mail, told' \subseteq Mail, lost' \subseteq Mail,
           mails \cup told \cup lost \subseteq mails' \cup told' \cup lost',
           sessions' \subseteq Users, tokens' \subseteq tokens,
           faults' \in 0..MaxFaults, faults <= faults', user' \in [Users -> UserRecord],
           \A u \in Users : Quiet(u)
    PROVE  IInv'
<1>1. Base
  BY DEF IInv
<1>2. /\ CallsGoOn /\ \A r \in Slots : call'[r] = call[r]
      /\ \A u \in Users : \A m \in Mail : Due(u, m) => Due(u, m)'
  BY <1>1, CallsStay
<1>3. OutKept
  BY <1>2, DueKept
<1>4. QED
  BY <1>2, <1>3, QuietMoves

LEMMA SignsInStep ==
    ASSUME IInv, NEW u \in Users, SiweLogin(u) \/ VerifyMfa(u) PROVE IInv'
<1>1. /\ sessions' = sessions \cup {u}
      /\ UNCHANGED <<setting, user, tokens, mails, told, lost, call, begun, faults, past>>
  BY DEF SiweLogin, VerifyMfa
<1>2. Base
  BY DEF IInv
<1>3. user' \in [Users -> UserRecord] /\ \A v \in Users : Quiet(v)
  BY <1>1, <1>2, SameUsers
<1>4. faults' \in 0..MaxFaults /\ faults <= faults'
  BY <1>1, <1>2, SameFaults
<1>5. /\ mails' \subseteq Mail /\ told' \subseteq Mail /\ lost' \subseteq Mail
      /\ sessions' \subseteq Users /\ tokens' \subseteq tokens
      /\ mails \cup told \cup lost \subseteq mails' \cup told' \cup lost'
  BY <1>1, <1>2, SameTypes
<1>6. QED
  BY <1>1, <1>3, <1>4, <1>5, AroundMoves

LEMMA SessionEndsStep ==
    ASSUME IInv, NEW u \in Users, SessionEnds(u) PROVE IInv'
<1>1. /\ sessions' = sessions \ {u}
      /\ UNCHANGED <<setting, user, tokens, mails, told, lost, call, begun, faults, past>>
  BY DEF SessionEnds
<1>2. Base
  BY DEF IInv
<1>3. user' \in [Users -> UserRecord] /\ \A v \in Users : Quiet(v)
  BY <1>1, <1>2, SameUsers
<1>4. faults' \in 0..MaxFaults /\ faults <= faults'
  BY <1>1, <1>2, SameFaults
<1>5. /\ mails' \subseteq Mail /\ told' \subseteq Mail /\ lost' \subseteq Mail
      /\ sessions' \subseteq Users /\ tokens' \subseteq tokens
      /\ mails \cup told \cup lost \subseteq mails' \cup told' \cup lost'
  BY <1>1, <1>2, SameTypes
<1>6. QED
  BY <1>1, <1>3, <1>4, <1>5, AroundMoves

LEMMA TokenEndsStep ==
    ASSUME IInv, NEW t, TokenEnds(t) PROVE IInv'
<1>1. /\ tokens' = tokens \ {t}
      /\ UNCHANGED <<setting, user, sessions, mails, told, lost, call, begun, faults, past>>
  BY DEF TokenEnds
<1>2. Base
  BY DEF IInv
<1>3. user' \in [Users -> UserRecord] /\ \A v \in Users : Quiet(v)
  BY <1>1, <1>2, SameUsers
<1>4. faults' \in 0..MaxFaults /\ faults <= faults'
  BY <1>1, <1>2, SameFaults
<1>5. /\ mails' \subseteq Mail /\ told' \subseteq Mail /\ lost' \subseteq Mail
      /\ sessions' \subseteq Users /\ tokens' \subseteq tokens
      /\ mails \cup told \cup lost \subseteq mails' \cup told' \cup lost'
  BY <1>1, <1>2, SameTypes
<1>6. QED
  BY <1>1, <1>3, <1>4, <1>5, AroundMoves

LEMMA SendMailStep ==
    ASSUME IInv, NEW m, SendMail(m) PROVE IInv'
<1>1. /\ m \in mails /\ mails' = mails \ {m} /\ told' = told \cup {m}
      /\ UNCHANGED <<setting, user, tokens, sessions, lost, call, begun, faults, past>>
  BY DEF SendMail
<1>2. Base
  BY DEF IInv
<1>3. user' \in [Users -> UserRecord] /\ \A v \in Users : Quiet(v)
  BY <1>1, <1>2, SameUsers
<1>4. faults' \in 0..MaxFaults /\ faults <= faults'
  BY <1>1, <1>2, SameFaults
<1>5. /\ mails' \subseteq Mail /\ told' \subseteq Mail /\ lost' \subseteq Mail
      /\ sessions' \subseteq Users /\ tokens' \subseteq tokens
      /\ mails \cup told \cup lost \subseteq mails' \cup told' \cup lost'
  BY <1>1, <1>2, SameTypes
<1>6. QED
  BY <1>1, <1>3, <1>4, <1>5, AroundMoves

LEMMA RefuseMailStep ==
    ASSUME IInv, NEW m, RefuseMail(m) PROVE IInv'
<1>1. /\ m \in mails /\ mails' = mails \ {m} /\ lost' = lost \cup {m}
      /\ faults < MaxFaults /\ faults' = faults + 1
      /\ UNCHANGED <<setting, user, tokens, sessions, told, call, begun, past>>
  BY DEF RefuseMail
<1>2. Base
  BY DEF IInv
<1>3. user' \in [Users -> UserRecord] /\ \A v \in Users : Quiet(v)
  BY <1>1, <1>2, SameUsers
<1>4. faults' \in 0..MaxFaults /\ faults <= faults'
  BY <1>1, <1>2, SameFaults
<1>5. /\ mails' \subseteq Mail /\ told' \subseteq Mail /\ lost' \subseteq Mail
      /\ sessions' \subseteq Users /\ tokens' \subseteq tokens
      /\ mails \cup told \cup lost \subseteq mails' \cup told' \cup lost'
  BY <1>1, <1>2, SameTypes
<1>6. QED
  BY <1>1, <1>3, <1>4, <1>5, AroundMoves

LEMMA LockElapsesStep ==
    ASSUME IInv, NEW u \in Users, LockElapses(u) PROVE IInv'
<1> DEFINE r == [user[u] EXCEPT !.locked = FALSE]
<1>1. /\ user[u].locked /\ user' = [user EXCEPT ![u] = r]
      /\ UNCHANGED <<setting, tokens, sessions, mails, told, lost, call, begun, faults, past>>
  BY DEF LockElapses
<1>2. Base
  BY DEF IInv
<1>3. user \in [Users -> UserRecord] /\ user[u] \in UserRecord
  BY <1>2 DEF Base, TypeOK
<1>4. /\ r \in UserRecord /\ r.status = user[u].status /\ r.failed = user[u].failed
      /\ r.locked = FALSE /\ r.enabled = user[u].enabled /\ r.secret = user[u].secret
      /\ r.setupRequired = user[u].setupRequired /\ r.codes = user[u].codes
  BY <1>3 DEF UserRecord
<1> HIDE DEF r
<1>5. user' \in [Users -> UserRecord] /\ user'[u] = r
      /\ \A v \in Users \ {u} : user'[v] = user[v]
  BY <1>1, <1>3, <1>4
<1>6. Stored(u)
  <2>1. Absent.locked = FALSE
    BY DEF Absent
  <2>2. QED
    BY <1>1, <1>2, <2>1 DEF Base, UsersSound
<1>7. \A v \in Users : Quiet(v)
  <2> SUFFICES ASSUME NEW v \in Users PROVE Quiet(v)
    OBVIOUS
  <2>1. CASE v # u
    BY <1>5, <2>1 DEF Quiet, Stored
  <2>2. CASE v = u
    BY <1>4, <1>5, <1>6, <2>2 DEF Quiet, Stored
  <2>3. QED
    BY <2>1, <2>2
<1>8. faults' \in 0..MaxFaults /\ faults <= faults'
  BY <1>1, <1>2, SameFaults
<1>9. /\ mails' \subseteq Mail /\ told' \subseteq Mail /\ lost' \subseteq Mail
      /\ sessions' \subseteq Users /\ tokens' \subseteq tokens
      /\ mails \cup told \cup lost \subseteq mails' \cup told' \cup lost'
  BY <1>1, <1>2, SameTypes
<1>10. QED
  BY <1>1, <1>5, <1>7, <1>8, <1>9, AroundMoves

LEMMA StaysStep ==
    ASSUME IInv, UNCHANGED vars PROVE IInv'
<1>1. /\ UNCHANGED <<setting, user, tokens, sessions, mails, told, lost, call, begun,
                     faults, past>>
  BY DEF vars
<1>2. Base
  BY DEF IInv
<1>3. user' \in [Users -> UserRecord] /\ \A v \in Users : Quiet(v)
  BY <1>1, <1>2, SameUsers
<1>4. faults' \in 0..MaxFaults /\ faults <= faults'
  BY <1>1, <1>2, SameFaults
<1>5. /\ mails' \subseteq Mail /\ told' \subseteq Mail /\ lost' \subseteq Mail
      /\ sessions' \subseteq Users /\ tokens' \subseteq tokens
      /\ mails \cup told \cup lost \subseteq mails' \cup told' \cup lost'
  BY <1>1, <1>2, SameTypes
<1>6. QED
  BY <1>1, <1>3, <1>4, <1>5, AroundMoves

(* Calls that end before their plans do: what was left of them is lost.    *)
LEMMA CallsEndStep ==
    ASSUME IInv, NEW ended \in SUBSET Slots, CallsEnd(ended) PROVE IInv'
<1> DEFINE half == {call[s].user : s \in {r \in ended : call[r].op = "create" /\ At(r, "write")}}
<1>1. /\ faults < MaxFaults /\ faults' = faults + 1
      /\ past' = [past EXCEPT !.halfMade = @ \cup half]
      /\ UNCHANGED <<setting, user, tokens, sessions, mails, told, begun>>
  BY DEF CallsEnd
<1>2. Base /\ LockSound /\ TokensSound /\ FactorSound /\ MailSound
  BY DEF IInv
<1>3. /\ CallsGoOn
      /\ \A r \in Slots : call'[r] = IF r \in ended THEN Idle ELSE call[r]
      /\ lost' \subseteq Mail /\ lost \subseteq lost'
      /\ \A u \in Users : \A m \in Mail : Due(u, m) => Due(u, m)' \/ m \in lost'
  BY <1>2, EndsCalls
<1>4. half \subseteq Users
  <2> SUFFICES ASSUME NEW r \in ended, At(r, "write") PROVE call[r].user \in Users
    OBVIOUS
  <2>1. QED
    BY <1>2, AtStep
<1>5. \A r \in ended : call[r].op = "create" /\ At(r, "write") => call[r].user \in half
  OBVIOUS
<1> HIDE DEF half
<1>6. /\ past' \in Memory /\ past'.uses = past.uses /\ past'.raced = past.raced
      /\ past'.overlapped = past.overlapped /\ past'.wrong = past.wrong
      /\ past'.proven = past.proven /\ past'.halfMade = past.halfMade \cup half
  <2>1. past \in Memory
    BY <1>2 DEF Base
  <2>2. QED
    BY <1>1, <1>4, <2>1 DEF Memory
<1>7. OutKept
  BY <1>1, <1>3 DEF OutKept
<1>8. /\ faults' \in 0..MaxFaults /\ faults' \in Nat /\ faults <= faults'
      /\ faults' >= faults + 1
  BY <1>1, <1>2, SameFaults
<1>9. /\ mails' \subseteq Mail /\ told' \subseteq Mail /\ sessions' \subseteq Users
      /\ tokens' \subseteq Token /\ tokens' \subseteq tokens
      /\ user' \in [Users -> UserRecord] /\ begun' \in 0..MaxCalls
  BY <1>1, <1>2 DEF Base, TypeOK
<1>10. TypeOK'
  <2>1. call' \in [Slots -> CallState]
    BY <1>3 DEF CallsGoOn
  <2>2. QED
    BY <1>1, <1>2, <1>3, <1>8, <1>9, <2>1, TypeMoves
<1>11. UsersSound'
  <2>1. \A u \in Users : /\ Stored(u)' <=> Stored(u)
                         /\ ~Stored(u) => user'[u] = user[u]
    BY <1>1 DEF Stored
  <2>2. \A r \in Slots : Busy(r) /\ call[r].todo[1] = "create"
                         => call'[r] = call[r] \/ call'[r] = Idle
    BY <1>3
  <2>3. \A k \in tokens' : Stored(k.user)
    BY <1>1, <1>2 DEF Base, UsersSound
  <2>4. QED
    BY <1>2, <1>3, <1>9, <2>1, <2>2, <2>3, UsersMove
<1>12. Base'
  BY <1>3, <1>6, <1>10, <1>11 DEF Base, CallsGoOn
<1>13. LockSound'
  <2>1. \A u \in Users : /\ user'[u].failed <= past.wrong[u]
                         /\ user'[u].locked => past.wrong[u] >= MaxFailed
    BY <1>1, <1>2 DEF LockSound
  <2>2. QED
    BY <1>2, <1>3, <1>6, <2>1, LocksMove
<1>14. TokensSound'
  BY <1>1, <1>2, <1>3, <1>6, <1>8, <1>9, TokensMove
<1>15. FactorSound'
  <2>1. ASSUME NEW s \in Slots, call[s].op = "create", call[s].todo[1] = "write"
        PROVE  call'[s] = call[s] \/ call[s].user \in past'.halfMade
    <3>1. Busy(s) /\ CallSound(call[s])
      BY <1>2, <2>1 DEF Busy, Base
    <3>2. call[s].todo \in Lists
      BY <3>1, Planned DEF Busy
    <3>3. Head(call[s].todo) = "write"
      BY <2>1, <3>2, ListFacts
    <3>4. At(s, "write")
      BY <3>1, <3>3, IdleSound DEF At, Busy
    <3>5. QED
      BY <1>3, <1>5, <1>6, <2>1, <3>4
  <2>2. \A u \in Users : /\ user'[u].enabled = user[u].enabled
                         /\ user'[u].secret = user[u].secret
                         /\ user'[u].setupRequired = user[u].setupRequired
    BY <1>1
  <2>3. past.halfMade \subseteq past'.halfMade
    BY <1>6
  <2>4. QED
    BY <1>2, <1>3, <1>6, <2>1, <2>2, <2>3, FactorsMove
<1>16. MailSound'
  <2>1. \A u \in Users : user'[u].codes \in {user[u].codes, Undefined}
                         \/ Mailed(u, user'[u].codes)
    BY <1>1
  <2>2. \A k \in tokens' : \/ \E i \in tokens : i.id = k.id /\ i.user = k.user
                           \/ Mailed(k.user, k.id)
    BY <1>9
  <2>3. QED
    BY <1>2, <1>3, <1>7, <1>9, <2>1, <2>2, MailsMove
<1>17. QED
  BY <1>12, <1>13, <1>14, <1>15, <1>16 DEF IInv

(* The token of a request for one: it is new, and its mail is due.         *)
LEMMA StoreTokenStep ==
    ASSUME IInv, NEW s \in Slots, StoreToken(s) PROVE IInv'
<1> DEFINE u == call[s].user
           new == [id |-> call[s].token, user |-> u, used |-> FALSE]
<1>1. /\ At(s, "store") /\ tokens' = tokens \cup {new} /\ Advance(s)
      /\ UNCHANGED <<setting, user, sessions, mails, told, lost, begun, faults, past>>
  BY DEF StoreToken
<1>2. Base /\ LockSound /\ TokensSound /\ FactorSound /\ MailSound
  BY DEF IInv
<1>3. /\ u \in Users /\ call[s].todo[1] = "store" /\ call[s].op = "forgot"
      /\ call[s].token \in Id /\ Busy(s) /\ Storing(s)
  BY <1>1, <1>2, AtStep, StepOps DEF Busy, CallState, Storing
<1>4. /\ CallsGoOn /\ (\A r \in Slots \ {s} : call'[r] = call[r])
      /\ \A v \in Users : \A m \in Mail : Due(v, m) => Due(v, m)'
  BY <1>1, <1>2, Advances
<1>5. ~Storing(s)'
  <2> SUFFICES ASSUME Storing(s)' PROVE FALSE
    OBVIOUS
  <2>1. call'[s].op = "forgot" /\ call'[s].todo[1] = "store"
    BY DEF Storing
  <2>2. call'[s] = call[s]
    BY <1>2, <1>4, <2>1, GoneOn DEF Busy
  <2>3. call[s].todo # Tail(call[s].todo) /\ call[s] # Idle
    <3>1. call[s].todo \in {<<"store", "mail">>, <<"mail">>}
      BY <1>2, <1>3 DEF Base, CallSound, TodoSound
    <3>2. <<"mail">>[1] = "mail" /\ <<"store", "mail">>[1] = "store"
      OBVIOUS
    <3>3. call[s].todo = <<"store", "mail">>
      BY <1>3, <3>1, <3>2
    <3>4. Tail(call[s].todo)[1] = "mail"
      BY <3>2, <3>3, Tails
    <3>5. QED
      BY <1>1, <1>3, <3>4 DEF At
  <2>4. CASE Len(call[s].todo) = 1
    <3>1. call'[s] = Idle
      BY <1>1, <1>2, <2>4, Advances
    <3>2. QED
      BY <2>2, <2>3, <3>1
  <2>5. CASE Len(call[s].todo) # 1
    <3>1. call'[s].todo = Tail(call[s].todo)
      BY <1>1, <1>2, <2>5, Advances
    <3>2. QED
      BY <2>2, <2>3, <3>1
  <2>6. QED
    BY <2>4, <2>5
<1>6. OutKept
  BY <1>1, <1>4, DueKept
<1>7. new \in Token /\ new.id = call[s].token /\ new.user = u /\ new.used = FALSE
  BY <1>3 DEF Token
<1> HIDE DEF new
<1>8. tokens' \subseteq Token
  BY <1>1, <1>2, <1>7, SameTypes
<1>9. Stored(u)
  BY <1>2, <1>3 DEF Base, UsersSound
<1>10. TypeOK'
  <2>1. call' \in [Slots -> CallState]
    BY <1>4 DEF CallsGoOn
  <2>2. /\ mails' \subseteq Mail /\ told' \subseteq Mail /\ lost' \subseteq Mail
        /\ sessions' \subseteq Users /\ user' \in [Users -> UserRecord]
        /\ begun' \in 0..MaxCalls /\ faults' \in 0..MaxFaults
    BY <1>1, <1>2 DEF Base, TypeOK
  <2>3. QED
    BY <1>1, <1>2, <1>8, <2>1, <2>2, TypeMoves
<1>11. UsersSound'
  <2>1. \A v \in Users : /\ Stored(v)' <=> Stored(v)
                         /\ ~Stored(v) => user'[v] = user[v]
    BY <1>1 DEF Stored
  <2>2. \A r \in Slots : Busy(r) /\ call[r].todo[1] = "create"
                         => call'[r] = call[r] \/ call'[r] = Idle
    BY <1>3, <1>4
  <2>3. \A k \in tokens' : Stored(k.user)
    BY <1>1, <1>2, <1>7, <1>9 DEF Base, UsersSound
  <2>4. QED
    BY <1>2, <1>4, <1>8, <2>1, <2>2, <2>3, UsersMove
<1>12. Base'
  <2>1. past' \in Memory
    BY <1>1, <1>2 DEF Base
  <2>2. QED
    BY <1>4, <1>10, <1>11, <2>1 DEF Base, CallsGoOn
<1>13. LockSound'
  <2>1. \A v \in Users : /\ user'[v].failed <= past.wrong[v]
                         /\ user'[v].locked => past.wrong[v] >= MaxFailed
    BY <1>1, <1>2 DEF LockSound
  <2>2. QED
    BY <1>1, <1>2, <1>4, <2>1, LocksMove
<1>14. TokensSound'
  <2>1. /\ \A r \in Slots \ {s} : call'[r] = call[r]
        /\ \A t : ~Resets(s, t) /\ ~Resets(s, t)'
    <3>1. call'[s].op # "reset"
      BY <1>2, <1>3, <1>4, GoneOn DEF Busy
    <3>2. QED
      BY <1>3, <1>4, <3>1 DEF Resets
  <2>2. \A t : \A r \in Slots : Resets(r, t)' <=> Resets(r, t)
    BY <2>1 DEF Resets
  <2>3. \A t : Marking(t)' <=> Marking(t)
    BY <2>1 DEF Marking, Resets
  <2>4. call[s].token <= begun /\ past.uses[call[s].token] = 0
    BY <1>2, <1>3 DEF TokensSound
  <2>5. ASSUME NEW t \in Id \ past.overlapped PROVE TokenSound(t)'
    <3>1. TokenSound(t)
      BY <1>2 DEF TokensSound
    <3>2. \A p, r \in Slots : Resets(p, t)' /\ Resets(r, t)' => p = r
      BY <2>2, <3>1 DEF TokenSound
    <3>3. \A r \in Slots : Resets(r, t)' /\ call'[r].todo[1] = "write" => past.uses[t] <= faults
      BY <2>1, <2>2, <3>1 DEF TokenSound
    <3>4. (\E k \in tokens' : k.id = t /\ ~k.used) /\ ~Marking(t)' => past.uses[t] <= faults
      <4>1. CASE t = call[s].token
        <5>1. 0 <= faults
          BY <1>2, SameFaults
        <5>2. QED
          BY <2>4, <4>1, <5>1
      <4>2. CASE t # call[s].token
        BY <1>1, <1>7, <2>3, <3>1, <4>2 DEF TokenSound
      <4>3. QED
        BY <4>1, <4>2
    <3>5. past.uses[t] <= 1 + faults
      BY <3>1 DEF TokenSound
    <3>6. QED
      BY <1>1, <3>2, <3>3, <3>4, <3>5 DEF TokenSound
  <2>6. \A k \in tokens' : k.id <= begun
    BY <1>1, <1>2, <1>7, <2>4 DEF TokensSound
  <2>7. \A r \in Slots : call'[r].token <= begun
    <3>1. call'[s].token \in {call[s].token, 0}
      BY <1>2, <1>4, GoneOn, IdleSound DEF CallsGoOn, Later
    <3>2. 0 <= begun
      BY <1>2, UndefinedApart DEF Base, TypeOK
    <3>3. QED
      BY <1>2, <1>4, <2>4, <3>1, <3>2 DEF TokensSound
  <2>8. ASSUME NEW r \in Slots, Storing(r)'
        PROVE  /\ past.uses[call'[r].token] = 0
               /\ \A k \in tokens' : k.id # call'[r].token
               /\ \A p \in Slots : ~(call'[p].op = "reset" /\ call'[p].token = call'[r].token)
               /\ \A p \in Slots : Storing(p)' /\ call'[p].token = call'[r].token => p = r
    <3>1. r # s /\ call'[r] = call[r] /\ Storing(r)
      BY <1>4, <1>5, <2>8 DEF Storing
    <3>2. call[s].token # call[r].token
      BY <1>2, <1>3, <3>1 DEF TokensSound
    <3>3. \A k \in tokens' : k.id # call'[r].token
      BY <1>1, <1>2, <1>7, <3>1, <3>2 DEF TokensSound
    <3>4. \A p \in Slots : ~(call'[p].op = "reset" /\ call'[p].token = call'[r].token)
      BY <1>2, <2>2, <3>1 DEF TokensSound, Resets
    <3>5. \A p \in Slots : Storing(p)' /\ call'[p].token = call'[r].token => p = r
      BY <1>2, <1>4, <1>5, <3>1 DEF TokensSound, Storing
    <3>6. past.uses[call'[r].token] = 0
      BY <1>2, <3>1 DEF TokensSound
    <3>7. QED
      BY <3>3, <3>4, <3>5, <3>6
  <2>9. \A t \in Id : t > begun => past.uses[t] = 0
    BY <1>2 DEF TokensSound
  <2>10. QED
    BY <1>1, <2>5, <2>6, <2>7, <2>8, <2>9 DEF TokensSound, Resets
<1>15. FactorSound'
  <2>1. \A r \in Slots : call[r].op = "create" /\ call[r].todo[1] = "write"
                         => call'[r] = call[r] \/ call[r].user \in past'.halfMade
    BY <1>3, <1>4
  <2>2. \A v \in Users : /\ user'[v].enabled = user[v].enabled
                         /\ user'[v].secret = user[v].secret
                         /\ user'[v].setupRequired = user[v].setupRequired
    BY <1>1
  <2>3. QED
    BY <1>1, <1>2, <1>4, <2>1, <2>2, FactorsMove
<1>16. MailSound'
  <2>1. \A v \in Users : user'[v].codes \in {user[v].codes, Undefined}
                         \/ Mailed(v, user'[v].codes)
    BY <1>1
  <2>2. Mailed(u, call[s].token)
    BY <1>2, <1>3 DEF MailSound
  <2>3. \A k \in tokens' : \/ \E i \in tokens : i.id = k.id /\ i.user = k.user
                           \/ Mailed(k.user, k.id)
    BY <1>1, <1>7, <2>2
  <2>4. QED
    BY <1>2, <1>4, <1>6, <1>8, <2>1, <2>3, MailsMove
<1>17. QED
  BY <1>12, <1>13, <1>14, <1>15, <1>16 DEF IInv

(* markAsUsed: no unused token is left with the identity it was given.     *)
LEMMA MarkUsedStep ==
    ASSUME IInv, NEW s \in Slots, MarkUsed(s) PROVE IInv'
<1> DEFINE x == call[s].token
<1>1. /\ At(s, "mark") /\ Advance(s)
      /\ tokens' = {IF t.id = x THEN Marked(t) ELSE t : t \in tokens}
      /\ UNCHANGED <<setting, user, sessions, mails, told, lost, begun, faults, past>>
  BY DEF MarkUsed
<1>2. Base /\ LockSound /\ TokensSound /\ FactorSound /\ MailSound
  BY DEF IInv
<1>3. /\ call[s].user \in Users /\ call[s].todo[1] = "mark" /\ call[s].op = "reset"
      /\ x \in Id /\ Busy(s)
  BY <1>1, <1>2, AtStep, StepOps DEF Busy, CallState
<1>4. /\ CallsGoOn /\ (\A r \in Slots \ {s} : call'[r] = call[r])
      /\ \A v \in Users : \A m \in Mail : Due(v, m) => Due(v, m)'
  BY <1>1, <1>2, Advances
<1>5. call'[s] = Idle
  <2>1. call[s].todo \in {<<"write", "mark">>, <<"mark">>}
    BY <1>2, <1>3 DEF Base, CallSound, TodoSound
  <2>2. <<"write", "mark">>[1] = "write" /\ Len(<<"mark">>) = 1
    OBVIOUS
  <2>3. Len(call[s].todo) = 1
    BY <1>3, <2>1, <2>2
  <2>4. QED
    BY <1>1, <1>2, <2>3, Advances
<1>6. OutKept
  BY <1>1, <1>4, DueKept
<1>7. \A t \in tokens : /\ Marked(t) \in Token /\ Marked(t).id = t.id
                        /\ Marked(t).user = t.user /\ Marked(t).used = TRUE
  BY <1>2, SameTypes DEF Marked, Token
<1>8. \A k \in tokens' : /\ k \in Token /\ \E i \in tokens : i.id = k.id /\ i.user = k.user
                         /\ k.id = x => k.used = TRUE
                         /\ k.id # x => k \in tokens
  BY <1>1, <1>2, <1>7, SameTypes
<1>9. TypeOK'
  <2>1. call' \in [Slots -> CallState] /\ tokens' \subseteq Token
    BY <1>4, <1>8 DEF CallsGoOn
  <2>2. /\ mails' \subseteq Mail /\ told' \subseteq Mail /\ lost' \subseteq Mail
        /\ sessions' \subseteq Users /\ user' \in [Users -> UserRecord]
        /\ begun' \in 0..MaxCalls /\ faults' \in 0..MaxFaults
    BY <1>1, <1>2 DEF Base, TypeOK
  <2>3. QED
    BY <1>1, <1>2, <2>1, <2>2, TypeMoves
<1>10. UsersSound'
  <2>1. \A v \in Users : /\ Stored(v)' <=> Stored(v)
                         /\ ~Stored(v) => user'[v] = user[v]
    BY <1>1 DEF Stored
  <2>2. \A r \in Slots : Busy(r) /\ call[r].todo[1] = "create"
                         => call'[r] = call[r] \/ call'[r] = Idle
    BY <1>3, <1>4
  <2>3. tokens' \subseteq Token /\ \A k \in tokens' : Stored(k.user)
    BY <1>2, <1>8 DEF Base, UsersSound
  <2>4. QED
    BY <1>2, <1>4, <2>1, <2>2, <2>3, UsersMove
<1>11. Base'
  <2>1. past' \in Memory
    BY <1>1, <1>2 DEF Base
  <2>2. QED
    BY <1>4, <1>9, <1>10, <2>1 DEF Base, CallsGoOn
<1>12. LockSound'
  <2>1. \A v \in Users : /\ user'[v].failed <= past.wrong[v]
                         /\ user'[v].locked => past.wrong[v] >= MaxFailed
    BY <1>1, <1>2 DEF LockSound
  <2>2. QED
    BY <1>1, <1>2, <1>4, <2>1, LocksMove
<1>13. TokensSound'
  <2>1. \A t : \A r \in Slots : Resets(r, t)' <=> r # s /\ Resets(r, t)
    BY <1>4, <1>5, IdleSound DEF Resets
  <2>2. ASSUME NEW t \in Id \ past.overlapped PROVE TokenSound(t)'
    <3>1. TokenSound(t)
      BY <1>2 DEF TokensSound
    <3>2. \A p, r \in Slots : Resets(p, t)' /\ Resets(r, t)' => p = r
      BY <2>1, <3>1 DEF TokenSound
    <3>3. \A r \in Slots : Resets(r, t)' /\ call'[r].todo[1] = "write" => past.uses[t] <= faults
      BY <1>4, <2>1, <3>1 DEF TokenSound
    <3>4. (\E k \in tokens' : k.id = t /\ ~k.used) /\ ~Marking(t)' => past.uses[t] <= faults
      <4>1. CASE t = x
        BY <1>8, <4>1
      <4>2. CASE t # x
        <5>1. Marking(t)' <=> Marking(t)
          BY <1>3, <1>4, <2>1, <4>2 DEF Marking, Resets
        <5>2. QED
          BY <1>8, <3>1, <4>2, <5>1 DEF TokenSound
      <4>3. QED
        BY <4>1, <4>2
    <3>5. past.uses[t] <= 1 + faults
      BY <3>1 DEF TokenSound
    <3>6. QED
      BY <1>1, <3>2, <3>3, <3>4, <3>5 DEF TokenSound
  <2>3. \A k \in tokens' : k.id <= begun
    BY <1>2, <1>8 DEF TokensSound
  <2>4. \A r \in Slots : call'[r].token <= begun
    <3>1. 0 <= begun
      BY <1>2, UndefinedApart DEF Base, TypeOK
    <3>2. QED
      BY <1>2, <1>4, <1>5, <3>1, IdleSound DEF TokensSound
  <2>5. \A r \in Slots : Storing(r)' => r # s /\ call'[r] = call[r] /\ Storing(r)
    BY <1>4, <1>5, IdleSound DEF Storing
  <2>6. ASSUME NEW r \in Slots, Storing(r)'
        PROVE  /\ past.uses[call'[r].token] = 0
               /\ \A k \in tokens' : k.id # call'[r].token
               /\ \A p \in Slots : ~(call'[p].op = "reset" /\ call'[p].token = call'[r].token)
               /\ \A p \in Slots : Storing(p)' /\ call'[p].token = call'[r].token => p = r
    <3>1. r # s /\ call'[r] = call[r] /\ Storing(r)
      BY <2>5, <2>6
    <3>2. \A k \in tokens' : k.id # call'[r].token
      BY <1>2, <1>8, <3>1 DEF TokensSound
    <3>3. \A p \in Slots : ~(call'[p].op = "reset" /\ call'[p].token = call'[r].token)
      BY <1>2, <2>1, <3>1 DEF TokensSound, Resets
    <3>4. \A p \in Slots : Storing(p)' /\ call'[p].token = call'[r].token => p = r
      BY <1>2, <2>5, <3>1 DEF TokensSound
    <3>5. past.uses[call'[r].token] = 0
      BY <1>2, <3>1 DEF TokensSound
    <3>6. QED
      BY <3>2, <3>3, <3>4, <3>5
  <2>7. \A t \in Id : t > begun => past.uses[t] = 0
    BY <1>2 DEF TokensSound
  <2>8. QED
    BY <1>1, <2>2, <2>3, <2>4, <2>6, <2>7 DEF TokensSound, Resets
<1>14. FactorSound'
  <2>1. \A r \in Slots : call[r].op = "create" /\ call[r].todo[1] = "write"
                         => call'[r] = call[r] \/ call[r].user \in past'.halfMade
    BY <1>3, <1>4
  <2>2. \A v \in Users : /\ user'[v].enabled = user[v].enabled
                         /\ user'[v].secret = user[v].secret
                         /\ user'[v].setupRequired = user[v].setupRequired
    BY <1>1
  <2>3. QED
    BY <1>1, <1>2, <1>4, <2>1, <2>2, FactorsMove
<1>15. MailSound'
  <2>1. \A v \in Users : user'[v].codes \in {user[v].codes, Undefined}
                         \/ Mailed(v, user'[v].codes)
    BY <1>1
  <2>2. \A k \in tokens' : \/ \E i \in tokens : i.id = k.id /\ i.user = k.user
                           \/ Mailed(k.user, k.id)
    BY <1>8
  <2>3. tokens' \subseteq Token
    BY <1>8
  <2>4. QED
    BY <1>2, <1>4, <1>6, <2>1, <2>2, <2>3, MailsMove
<1>16. QED
  BY <1>11, <1>12, <1>13, <1>14, <1>15 DEF IInv

(* The user an administrator makes; no other request is about it yet.      *)
LEMMA CreateStepStep ==
    ASSUME IInv, NEW s \in Slots, CreateStep(s) PROVE IInv'
<1> DEFINE u == call[s].user
           w == RecordOf(call[s].updates)
<1>1. /\ At(s, "create") /\ Advance(s) /\ user' = [user EXCEPT ![u] = w]
      /\ UNCHANGED <<setting, tokens, sessions, mails, told, lost, begun, faults, past>>
  BY DEF CreateStep, SetUser
<1>2. Base /\ LockSound /\ TokensSound /\ FactorSound /\ MailSound
  BY DEF IInv
<1>3. /\ u \in Users /\ call[s].todo[1] = "create" /\ call[s].op = "create" /\ Busy(s)
      /\ CallSound(call[s])
  BY <1>1, <1>2, AtStep, StepOps DEF Busy
<1>4. /\ CallsGoOn /\ (\A r \in Slots \ {s} : call'[r] = call[r])
      /\ \A v \in Users : \A m \in Mail : Due(v, m) => Due(v, m)'
  BY <1>1, <1>2, Advances
<1>5. call[s].updates.password \in Value /\ call[s].updates.enabled \in BOOLEAN
  <2>1. call[s].updates \in CreateWrites
    BY <1>3 DEF CallSound, UpdatesSound
  <2>2. QED
    BY <2>1 DEF CreateWrites
<1>6. /\ w \in UserRecord /\ w.status = "Active" /\ w.failed = 0 /\ w.locked = FALSE
      /\ w.codes = Undefined /\ w.enabled = call[s].updates.enabled
  BY <1>5, UndefinedApart DEF RecordOf, Absent, UserRecord, Status
<1> HIDE DEF w
<1>7. /\ user' \in [Users -> UserRecord] /\ user'[u] = w
      /\ \A v \in Users \ {u} : user'[v] = user[v]
  BY <1>1, <1>2, <1>3, <1>6, SameTypes
<1>8. /\ ~Stored(u) /\ user'[u].status # "absent"
      /\ \A v \in Users \ {u} : Stored(v)' <=> Stored(v)
  <2>1. ~Stored(u)
    BY <1>2, <1>3 DEF Base, UsersSound
  <2>2. QED
    BY <1>6, <1>7, <2>1 DEF Stored
<1>9. ASSUME NEW r \in Slots \ {s}, Busy(r) PROVE call[r].user \in Users \ {u}
  <2>1. CallSound(call[r]) /\ call[r].user \in Users
    BY <1>2, <1>9, Planned DEF Base, Busy
  <2>2. CASE call[r].user = u
    <3>1. call[r].todo[1] = "create"
      BY <1>2, <1>8, <1>9, <2>2 DEF Base, UsersSound
    <3>2. call[r].op = "create"
      BY <1>9, <2>1, <3>1, StepOps DEF Busy
    <3>3. QED
      BY <1>2, <1>3, <1>9, <2>2, <3>2 DEF Base, UsersSound
  <2>3. QED
    BY <2>1, <2>2
<1>10. OutKept
  BY <1>1, <1>4, DueKept
<1>11. tokens' \subseteq Token /\ tokens' \subseteq tokens /\ past' \in Memory
  BY <1>1, <1>2, SameTypes
<1>12. TypeOK'
  <2>1. call' \in [Slots -> CallState]
    BY <1>4 DEF CallsGoOn
  <2>2. /\ mails' \subseteq Mail /\ told' \subseteq Mail /\ lost' \subseteq Mail
        /\ sessions' \subseteq Users /\ begun' \in 0..MaxCalls /\ faults' \in 0..MaxFaults
    BY <1>1, <1>2 DEF Base, TypeOK
  <2>3. QED
    BY <1>1, <1>2, <1>7, <1>11, <2>1, <2>2, TypeMoves
<1>13. \/ call'[s] = Idle
       \/ /\ call'[s].op = "create" /\ call'[s].user = u /\ call'[s].todo[1] # "create"
          /\ call'[s].todo = Tail(call[s].todo)
  <2>1. CASE Len(call[s].todo) = 1
    BY <1>1, <1>2, <2>1, Advances
  <2>2. CASE Len(call[s].todo) # 1
    <3>1. /\ call'[s].op = call[s].op /\ call'[s].user = u
          /\ call'[s].todo = Tail(call[s].todo)
      BY <1>1, <1>2, <2>2, Advances
    <3>2. Tail(call[s].todo)[1] # "create"
      BY <1>3, <2>2, PlanGoesOn
    <3>3. QED
      BY <1>3, <3>1, <3>2
  <2>3. QED
    BY <2>1, <2>2
<1>14. UsersSound'
  <2>1. \A v \in Users : ~Stored(v)' => user'[v] = Absent
    BY <1>2, <1>7, <1>8 DEF Base, UsersSound, Stored
  <2>2. \A k \in tokens' : Stored(k.user)'
    BY <1>2, <1>8, <1>11 DEF Base, UsersSound, Token, Stored
  <2>3. ASSUME NEW r \in Slots, Busy(r)'
        PROVE  user'[call'[r].user].status # "absent" <=> call'[r].todo[1] # "create"
    <3>1. CASE r = s
      BY <1>8, <1>13, <2>3, <3>1, IdleSound DEF Busy, Stored
    <3>2. CASE r # s
      <4>1. call'[r] = call[r] /\ Busy(r)
        BY <1>4, <2>3, <3>2 DEF Busy
      <4>2. QED
        BY <1>2, <1>7, <1>9, <3>2, <4>1 DEF Base, UsersSound, Stored
    <3>3. QED
      BY <3>1, <3>2
  <2>4. \A p, r \in Slots : call'[p].op = "create" /\ call'[r].op = "create"
                            /\ call'[p].user = call'[r].user => p = r
    BY <1>2, <1>3, <1>4, <1>13, IdleSound DEF Base, UsersSound
  <2>5. QED
    BY <2>1, <2>2, <2>3, <2>4 DEF UsersSound, Stored
<1>15. Base'
  BY <1>4, <1>11, <1>12, <1>14 DEF Base, CallsGoOn
<1>16. LockSound'
  <2>1. \A v \in Users : /\ user'[v].failed <= past.wrong[v]
                         /\ user'[v].locked => past.wrong[v] >= MaxFailed
    <3>1. \A v \in Users : past.wrong[v] \in Nat
      BY <1>2 DEF Base, Memory
    <3>2. 0 <= past.wrong[u]
      BY <1>3, <3>1
    <3>3. QED
      BY <1>2, <1>6, <1>7, <3>2 DEF LockSound
  <2>2. QED
    BY <1>1, <1>2, <1>4, <2>1, LocksMove
<1>17. TokensSound'
  <2>1. faults' \in Nat /\ faults <= faults'
    BY <1>1, <1>2, SameFaults
  <2>2. \A r \in Slots : call[r].op = "reset" /\ call[r].todo[1] = "mark"
                         => call'[r] = call[r]
    BY <1>3, <1>4
  <2>3. QED
    BY <1>1, <1>2, <1>4, <1>11, <2>1, <2>2, TokensMove
<1>18. FactorSound'
  <2>1. \A v \in Users \ {u} : Factored(v)' <=> Factored(v)
    BY <1>1, <1>7 DEF Factored
  <2>2. ASSUME NEW v \in Users \ {u}, user'[v].enabled
        PROVE  \/ Factored(v)' \/ v \in past'.halfMade
               \/ \E r \in Slots : /\ call'[r].op = "create" /\ call'[r].user = v
                                   /\ call'[r].todo[1] = "write"
    <3>1. \/ Factored(v) \/ v \in past.halfMade
          \/ \E r \in Slots : /\ call[r].op = "create" /\ call[r].user = v
                              /\ call[r].todo[1] = "write"
      BY <1>2, <1>7, <2>2 DEF FactorSound
    <3>2. QED
      BY <1>1, <1>3, <1>4, <2>1, <3>1
  <2>3. ASSUME user'[u].enabled
        PROVE  \/ u \in past'.halfMade
               \/ /\ call'[s].op = "create" /\ call'[s].user = u
                  /\ call'[s].todo[1] = "write"
    <3>1. call[s].updates.enabled
      BY <1>6, <1>7, <2>3
    <3>2. CASE call[s].todo \in {<<"create">>, <<"create", "mail">>}
      BY <1>1, <1>2, <1>3, <3>1, <3>2 DEF FactorSound
    <3>3. CASE call[s].todo \in {<<"create", "write", "mail">>,
                                 <<"create", "write", "mail", "mail">>}
      <4>1. Len(call[s].todo) # 1
        BY <3>3
      <4>2. Tail(call[s].todo) \in {<<"write", "mail">>, <<"write", "mail", "mail">>}
        BY <3>3, Tails
      <4>3. <<"write", "mail">>[1] = "write" /\ <<"write", "mail", "mail">>[1] = "write"
        OBVIOUS
      <4>4. call'[s].op = "create" /\ call'[s].user = u /\ call'[s].todo = Tail(call[s].todo)
        BY <1>1, <1>2, <1>3, <4>1, Advances
      <4>5. QED
        BY <4>2, <4>3, <4>4
    <3>4. CASE call[s].todo \in {<<"write", "mail">>, <<"write", "mail", "mail">>,
                                 <<"mail">>, <<"mail", "mail">>}
      <4>1. call[s].todo[1] \in {"write", "mail"}
        BY <3>4
      <4>2. QED
        BY <1>3, <4>1
    <3>5. QED
      BY <1>3, <3>2, <3>3, <3>4 DEF CallSound, TodoSound
  <2>4. ASSUME NEW r \in Slots, call'[r].op = "verify_setup"
        PROVE  Factored(call[r].user)' /\ call'[r].user = call[r].user
    <3>1. r # s /\ call'[r] = call[r]
      BY <1>4, <1>13, <2>4, IdleSound
    <3>2. call[r].user \in Users \ {u}
      BY <1>9, <2>4, <3>1 DEF Busy
    <3>3. Factored(call[r].user)
      BY <1>2, <2>4, <3>1 DEF FactorSound
    <3>4. QED
      BY <1>1, <1>7, <3>1, <3>2, <3>3 DEF Factored
  <2>5. ASSUME NEW r \in Slots, call'[r].op = "create", call'[r].updates.enabled,
               call'[r].todo \in {<<"create">>, <<"create", "mail">>}
        PROVE  call'[r].user \in past'.halfMade
    <3>1. call'[r].todo[1] = "create"
      BY <2>5, CreatePlans
    <3>2. r # s /\ call'[r] = call[r]
      BY <1>4, <1>13, <2>5, <3>1, IdleSound
    <3>3. QED
      BY <1>1, <1>2, <2>5, <3>2 DEF FactorSound
  <2>6. QED
    BY <1>3, <2>2, <2>3, <2>4, <2>5 DEF FactorSound, Factored
<1>19. MailSound'
  <2>1. \A v \in Users : user'[v].codes \in {user[v].codes, Undefined}
                         \/ Mailed(v, user'[v].codes)
    BY <1>6, <1>7
  <2>2. \A k \in tokens' : \/ \E i \in tokens : i.id = k.id /\ i.user = k.user
                           \/ Mailed(k.user, k.id)
    BY <1>11
  <2>3. QED
    BY <1>2, <1>4, <1>10, <1>11, <2>1, <2>2, MailsMove
<1>20. QED
  BY <1>15, <1>16, <1>17, <1>18, <1>19 DEF IInv

(* The write of the security fields: it is made on the record of now with  *)
(* what was decided on the record of then.                                 *)
Wrote(s) ==
    UpdateSecurity(user[call[s].user], call[s].updates)

LEMMA WriteFacts ==
    ASSUME Base, NEW s \in Slots, WriteSecurity(s)
    PROVE  /\ At(s, "write") /\ Advance(s) /\ call[s].user \in Users /\ Busy(s)
           /\ CallSound(call[s]) /\ call[s].todo[1] = "write" /\ call[s].token \in Id
           /\ user' \in [Users -> UserRecord] /\ user'[call[s].user] = Wrote(s)
           /\ user[call[s].user] \in UserRecord
           /\ \A v \in Users \ {call[s].user} : user'[v] = user[v]
           /\ Stored(call[s].user) /\ \A v \in Users : Stored(v)' <=> Stored(v)
           /\ past' \in Memory /\ past'.wrong = past.wrong /\ past'.proven = past.proven
           /\ past'.halfMade = past.halfMade /\ past'.overlapped = past.overlapped
           /\ past'.raced = IF Races(s) THEN past.raced \cup {call[s].user} ELSE past.raced
           /\ past'.uses = [past.uses EXCEPT ![call[s].token] =
                               IF call[s].op = "reset" THEN past.uses[call[s].token] + 1
                               ELSE past.uses[call[s].token]]
           /\ UNCHANGED <<setting, tokens, sessions, mails, told, lost, begun, faults>>
           /\ CallsGoOn /\ (\A r \in Slots \ {s} : call'[r] = call[r]) /\ OutKept
<1> DEFINE u == call[s].user
           w == Wrote(s)
           x == call[s].token
           n == IF call[s].op = "reset" THEN past.uses[x] + 1 ELSE past.uses[x]
           raced == IF Races(s) THEN past.raced \cup {u} ELSE past.raced
           uses == [past.uses EXCEPT ![x] = n]
<1>1. /\ At(s, "write") /\ Advance(s) /\ user' = [user EXCEPT ![u] = w]
      /\ past' = [past EXCEPT
            !.uses[call[s].token] = IF call[s].op = "reset" THEN @ + 1 ELSE @,
            !.raced = IF Races(s) THEN @ \cup {call[s].user} ELSE @]
      /\ UNCHANGED <<setting, tokens, sessions, mails, told, lost, begun, faults>>
  BY DEF WriteSecurity, SetUser, Wrote
<1>2. /\ u \in Users /\ Busy(s) /\ CallSound(call[s]) /\ call[s].todo[1] = "write"
      /\ x \in Id /\ user[u] \in UserRecord
  BY <1>1, AtStep DEF CallState
<1>3. w \in UserRecord /\ w.status = user[u].status
  BY <1>2, SecurityWritten DEF Busy, Wrote
<1>4. /\ user' \in [Users -> UserRecord] /\ user'[u] = w
      /\ \A v \in Users \ {u} : user'[v] = user[v]
  BY <1>1, <1>2, <1>3, SameTypes
<1>5. Stored(u) /\ \A v \in Users : Stored(v)' <=> Stored(v)
  <2>1. Stored(u)
    BY <1>2 DEF Base, UsersSound
  <2>2. QED
    BY <1>3, <1>4, <2>1 DEF Stored
<1>6. /\ past \in Memory /\ past.uses \in [Id -> Nat] /\ past.raced \subseteq Users
  BY DEF Base, Memory
<1>7. n \in Nat /\ raced \subseteq Users
  BY <1>2, <1>6
<1>8. past' = [past EXCEPT !.uses = uses, !.raced = raced]
  BY <1>1
<1>9. uses \in [Id -> Nat]
  BY <1>6, <1>7
<1>10. /\ past' \in Memory /\ past'.wrong = past.wrong /\ past'.proven = past.proven
       /\ past'.halfMade = past.halfMade /\ past'.overlapped = past.overlapped
       /\ past'.raced = raced /\ past'.uses = uses
  <2> HIDE DEF n, raced, uses
  <2>1. QED
    BY <1>6, <1>7, <1>8, <1>9 DEF Memory
<1>11. /\ CallsGoOn /\ (\A r \in Slots \ {s} : call'[r] = call[r])
       /\ \A v \in Users : \A m \in Mail : Due(v, m) => Due(v, m)'
  BY <1>1, Advances
<1>12. OutKept
  BY <1>1, <1>11, DueKept
<1>13. QED
  BY <1>1, <1>2, <1>4, <1>5, <1>10, <1>11, <1>12

LEMMA WriteSecurityBase ==
    ASSUME Base, NEW s \in Slots, WriteSecurity(s) PROVE Base'
<1> DEFINE u == call[s].user
           w == Wrote(s)
<1>1. /\ call[s].todo[1] = "write" /\ user' \in [Users -> UserRecord] /\ user'[u] = w
      /\ \A v \in Users \ {u} : user'[v] = user[v]
      /\ Stored(u) /\ \A v \in Users : Stored(v)' <=> Stored(v)
      /\ past' \in Memory
      /\ UNCHANGED <<setting, tokens, sessions, mails, told, lost, begun, faults>>
      /\ CallsGoOn /\ (\A r \in Slots \ {s} : call'[r] = call[r])
  BY WriteFacts
<1>2. TypeOK'
  <2>1. call' \in [Slots -> CallState]
    BY <1>1 DEF CallsGoOn
  <2>2. /\ mails' \subseteq Mail /\ told' \subseteq Mail /\ lost' \subseteq Mail
        /\ sessions' \subseteq Users /\ tokens' \subseteq Token
        /\ begun' \in 0..MaxCalls /\ faults' \in 0..MaxFaults
    BY <1>1 DEF Base, TypeOK
  <2>3. QED
    BY <1>1, <2>1, <2>2, TypeMoves
<1>3. UsersSound'
  <2>1. \A v \in Users : ~Stored(v) => user'[v] = user[v]
    BY <1>1
  <2>2. \A r \in Slots : Busy(r) /\ call[r].todo[1] = "create"
                         => call'[r] = call[r] \/ call'[r] = Idle
    BY <1>1
  <2>3. tokens' \subseteq Token /\ \A k \in tokens' : Stored(k.user)
    BY <1>1 DEF Base, TypeOK, UsersSound
  <2>4. QED
    BY <1>1, <2>1, <2>2, <2>3, UsersMove
<1>4. QED
  BY <1>1, <1>2, <1>3 DEF Base, CallsGoOn

LEMMA WriteSecurityLocks ==
    ASSUME Base, LockSound, NEW s \in Slots, WriteSecurity(s) PROVE LockSound'
<1> DEFINE u == call[s].user
           w == Wrote(s)
<1>1. /\ call[s].todo[1] = "write" /\ u \in Users /\ Busy(s) /\ CallSound(call[s])
      /\ user'[u] = w /\ user[u] \in UserRecord
      /\ \A v \in Users \ {u} : user'[v] = user[v]
      /\ past'.wrong = past.wrong /\ CallsGoOn
  BY WriteFacts
<1>2. /\ call[s].op = "login" => /\ w.failed = call[s].updates.failed
                                 /\ w.locked => user[u].locked \/ call[s].updates.locked = TRUE
      /\ call[s].op # "login" => w.failed \in {0, user[u].failed} /\ w.locked = user[u].locked
  BY <1>1, SecurityWritten DEF Busy, Wrote
<1> HIDE DEF w
<1>3. past.wrong[u] \in Nat /\ 0 <= past.wrong[u]
  BY <1>1 DEF Base, Memory
<1>4. w.failed <= past.wrong[u] /\ (w.locked => past.wrong[u] >= MaxFailed)
  <2>1. CASE call[s].op = "login"
    BY <1>1, <1>2, <2>1 DEF LockSound
  <2>2. CASE call[s].op # "login"
    BY <1>1, <1>2, <1>3, <2>2 DEF LockSound
  <2>3. QED
    BY <2>1, <2>2
<1>5. \A v \in Users : /\ user'[v].failed <= past.wrong[v]
                       /\ user'[v].locked => past.wrong[v] >= MaxFailed
  BY <1>1, <1>4 DEF LockSound
<1>6. QED
  BY <1>1, <1>5, LocksMove

LEMMA WriteSecurityFactors ==
    ASSUME Base, FactorSound, NEW s \in Slots, WriteSecurity(s) PROVE FactorSound'
<1> DEFINE u == call[s].user
           w == Wrote(s)
<1>1. /\ call[s].todo[1] = "write" /\ u \in Users /\ Busy(s) /\ CallSound(call[s])
      /\ user'[u] = w /\ user[u] \in UserRecord
      /\ \A v \in Users \ {u} : user'[v] = user[v]
      /\ past'.proven = past.proven /\ past'.halfMade = past.halfMade
      /\ past'.raced = IF Races(s) THEN past.raced \cup {u} ELSE past.raced
      /\ CallsGoOn /\ (\A r \in Slots \ {s} : call'[r] = call[r])
  BY WriteFacts
<1>2. /\ call[s].op \notin {"setup", "create"} => w.secret = user[u].secret
      /\ call[s].op \in {"setup", "disable"} => w.enabled = FALSE
      /\ call[s].op \notin {"setup", "disable", "verify_setup", "create"} =>
            w.enabled = user[u].enabled
      /\ call[s].op = "create" => w.setupRequired = TRUE
      /\ call[s].op # "create" => w.setupRequired = user[u].setupRequired
  BY <1>1, SecurityWritten DEF Busy, Wrote
<1> HIDE DEF w
<1>3. ASSUME NEW v \in Users, Factored(v), v # u \/ call[s].op # "setup" \/ Races(s)
      PROVE  Factored(v)'
  <2>1. CASE v # u
    BY <1>1, <1>3, <2>1 DEF Factored
  <2>2. CASE v = u /\ call[s].op = "setup"
    BY <1>1, <1>3, <2>2 DEF Factored
  <2>3. CASE v = u /\ call[s].op = "create"
    BY <1>1, <1>2, <2>3 DEF Factored
  <2>4. CASE v = u /\ call[s].op \notin {"setup", "create"}
    BY <1>1, <1>2, <1>3, <2>4 DEF Factored
  <2>5. QED
    BY <2>1, <2>2, <2>3, <2>4
<1>4. ASSUME NEW v \in Users, user'[v].enabled
      PROVE  \/ Factored(v)' \/ v \in past'.halfMade
             \/ \E r \in Slots : /\ call'[r].op = "create" /\ call'[r].user = v
                                 /\ call'[r].todo[1] = "write"
  <2>1. CASE v = u /\ call[s].op = "create"
    BY <1>1, <1>2, <2>1 DEF Factored
  <2>2. CASE v = u /\ call[s].op \in {"setup", "disable"}
    BY <1>1, <1>2, <1>4, <2>2
  <2>3. CASE v = u /\ call[s].op = "verify_setup"
    <3>1. Factored(u)
      BY <2>3 DEF FactorSound
    <3>2. QED
      BY <1>3, <2>3, <3>1
  <2>4. CASE v # u \/ call[s].op \notin {"setup", "disable", "verify_setup", "create"}
    <3>1. user[v].enabled
      BY <1>1, <1>2, <1>4, <2>4
    <3>2. CASE Factored(v)
      BY <1>3, <2>4, <3>2
    <3>3. CASE v \in past.halfMade
      BY <1>1, <3>3
    <3>4. CASE \E r \in Slots : /\ call[r].op = "create" /\ call[r].user = v
                                /\ call[r].todo[1] = "write"
      <4>1. PICK r \in Slots : /\ call[r].op = "create" /\ call[r].user = v
                               /\ call[r].todo[1] = "write"
        BY <3>4
      <4>2. r # s
        BY <2>4, <4>1
      <4>3. QED
        BY <1>1, <4>1, <4>2
    <3>5. QED
      BY <3>1, <3>2, <3>3, <3>4 DEF FactorSound
  <2>5. QED
    BY <2>1, <2>2, <2>3, <2>4
<1>5. ASSUME NEW r \in Slots, call'[r].op = "verify_setup"
      PROVE  Factored(call[r].user)' /\ call'[r].user = call[r].user
  <2>1. Busy(r)'
    BY <1>5 DEF Busy
  <2>2. call[r].op = "verify_setup" /\ call'[r].user = call[r].user /\ Busy(r)
    BY <1>1, <1>5, <2>1, GoneOn
  <2>3. call[r].user \in Users
    BY <2>2, Planned DEF Base, Busy
  <2>4. PICK v \in Users : v = call[r].user
    BY <2>3
  <2>5. Factored(v)
    BY <2>2, <2>4 DEF FactorSound
  <2>6. v # u \/ call[s].op # "setup" \/ Races(s)
    BY <2>2, <2>4 DEF Races
  <2>7. Factored(v)'
    BY <1>3, <2>5, <2>6
  <2>8. QED
    BY <2>2, <2>4, <2>7 DEF Factored
<1>6. ASSUME NEW r \in Slots, call'[r].op = "create", call'[r].updates.enabled,
             call'[r].todo \in {<<"create">>, <<"create", "mail">>}
      PROVE  call'[r].user \in past'.halfMade
  <2>1. Busy(r)'
    BY <1>6 DEF Busy
  <2>2. call'[r].todo[1] = "create"
    BY <1>6, CreatePlans
  <2>3. call'[r] = call[r]
    BY <1>1, <2>1, <2>2, GoneOn
  <2>4. QED
    BY <1>1, <1>6, <2>3 DEF FactorSound
<1>7. QED
  BY <1>4, <1>5, <1>6 DEF FactorSound, Factored

LEMMA WriteSecurityMails ==
    ASSUME Base, MailSound, NEW s \in Slots, WriteSecurity(s) PROVE MailSound'
<1> DEFINE u == call[s].user
           w == Wrote(s)
<1>1. /\ call[s].todo[1] = "write" /\ u \in Users /\ Busy(s) /\ CallSound(call[s])
      /\ user'[u] = w /\ user[u] \in UserRecord
      /\ \A v \in Users \ {u} : user'[v] = user[v]
      /\ UNCHANGED tokens /\ CallsGoOn /\ OutKept
  BY WriteFacts
<1>2. /\ call[s].op \in {"setup", "create", "regenerate"} => w.codes = call[s].updates.codes
      /\ call[s].op \notin {"setup", "create", "regenerate"} => w.codes = user[u].codes
  BY <1>1, SecurityWritten DEF Busy, Wrote
<1> HIDE DEF w
<1>3. call[s].op \in {"setup", "create", "regenerate"} => Mailed(u, call[s].updates.codes)
  <2>1. call[s].op = "create" =>
           call[s].todo \in {<<"write", "mail">>, <<"write", "mail", "mail">>}
    <3>1. ASSUME call[s].op = "create"
          PROVE  call[s].todo \in {<<"write", "mail">>, <<"write", "mail", "mail">>}
      <4>1. call[s].todo \in
               {<<"create">>, <<"create", "mail">>, <<"create", "write", "mail">>,
                <<"create", "write", "mail", "mail">>, <<"write", "mail">>,
                <<"write", "mail", "mail">>, <<"mail">>, <<"mail", "mail">>}
        BY <1>1, <3>1 DEF CallSound, TodoSound
      <4>2. <<"mail">>[1] = "mail" /\ <<"mail", "mail">>[1] = "mail"
        OBVIOUS
      <4>3. QED
        BY <1>1, <4>1, <4>2, CreatePlans
    <3>2. QED
      BY <3>1
  <2>2. call[s].op \in {"setup", "create", "regenerate"} => WritesCodes(s)
    BY <1>1, <2>1 DEF WritesCodes
  <2>3. QED
    BY <2>2 DEF MailSound
<1>4. \A v \in Users : user'[v].codes \in {user[v].codes, Undefined}
                       \/ Mailed(v, user'[v].codes)
  BY <1>1, <1>2, <1>3
<1>5. tokens' \subseteq Token
  BY <1>1, SameTypes
<1>6. \A k \in tokens' : \/ \E i \in tokens : i.id = k.id /\ i.user = k.user
                         \/ Mailed(k.user, k.id)
  BY <1>1
<1>7. QED
  BY <1>1, <1>4, <1>5, <1>6, MailsMove

LEMMA WriteSecurityTokens ==
    ASSUME Base, TokensSound, NEW s \in Slots, WriteSecurity(s) PROVE TokensSound'
<1> DEFINE x == call[s].token
<1>1. /\ At(s, "write") /\ Advance(s) /\ Busy(s) /\ CallSound(call[s])
      /\ call[s].todo[1] = "write" /\ x \in Id /\ past' \in Memory
      /\ past'.overlapped = past.overlapped
      /\ past'.uses = [past.uses EXCEPT ![x] =
                          IF call[s].op = "reset" THEN past.uses[x] + 1 ELSE past.uses[x]]
      /\ UNCHANGED <<setting, tokens, sessions, mails, told, lost, begun, faults>>
      /\ CallsGoOn /\ (\A r \in Slots \ {s} : call'[r] = call[r])
  BY WriteFacts
<1>2. /\ past.uses \in [Id -> Nat] /\ faults \in Nat /\ begun \in 0..MaxCalls
      /\ faults' \in Nat
  BY <1>1, SameFaults DEF Base, Memory, TypeOK
<1>3. CASE call[s].op # "reset"
  <2>1. past'.uses = past.uses
    BY <1>1, <1>2, <1>3
  <2>2. \A r \in Slots : call[r].op = "reset" /\ call[r].todo[1] = "mark"
                         => call'[r] = call[r]
    BY <1>1, <1>3
  <2>3. faults <= faults' /\ tokens' \subseteq tokens
    BY <1>1, <1>2
  <2>4. QED
    BY <1>1, <1>2, <2>1, <2>2, <2>3, TokensMove
<1>4. CASE call[s].op = "reset"
  <2>1. past'.uses[x] = past.uses[x] + 1 /\ \A t \in Id \ {x} : past'.uses[t] = past.uses[t]
    BY <1>1, <1>2, <1>4
  <2>2. /\ call'[s].op = "reset" /\ call'[s].token = x /\ call'[s].todo[1] = "mark"
    <3>1. call[s].todo \in {<<"write", "mark">>, <<"mark">>}
      BY <1>1, <1>4 DEF CallSound, TodoSound
    <3>2. <<"mark">>[1] = "mark" /\ Len(<<"write", "mark">>) # 1
      OBVIOUS
    <3>3. call[s].todo = <<"write", "mark">>
      BY <1>1, <3>1, <3>2
    <3>4. Len(call[s].todo) # 1
      BY <3>2, <3>3
    <3>5. /\ call'[s].op = call[s].op /\ call'[s].token = x
          /\ call'[s].todo = Tail(call[s].todo)
      BY <1>1, <3>4, Advances
    <3>6. call'[s].todo = <<"mark">>
      BY <3>3, <3>5, Tails
    <3>7. QED
      BY <1>4, <3>2, <3>5, <3>6
  <2>3. \A t : \A r \in Slots : Resets(r, t)' <=> Resets(r, t)
    BY <1>1, <1>4, <2>2 DEF Resets
  <2>4. Resets(s, x)
    BY <1>4 DEF Resets
  <2>5. ASSUME NEW t \in Id \ past.overlapped PROVE TokenSound(t)'
    <3>1. TokenSound(t)
      BY DEF TokensSound
    <3>2. \A p, r \in Slots : Resets(p, t)' /\ Resets(r, t)' => p = r
      BY <2>3, <3>1 DEF TokenSound
    <3>3. CASE t = x
      <4>1. past.uses[x] <= faults
        BY <1>1, <2>4, <3>1, <3>3 DEF TokenSound
      <4>2. past'.uses[x] <= 1 + faults
        BY <1>1, <1>2, <2>1, <4>1
      <4>3. \A r \in Slots : ~(Resets(r, t)' /\ call'[r].todo[1] = "write")
        <5>1. \A r \in Slots : Resets(r, t)' => r = s
          BY <2>3, <2>4, <3>1, <3>3 DEF TokenSound
        <5>2. QED
          BY <2>2, <5>1
      <4>4. Marking(t)'
        BY <2>2, <3>3 DEF Marking, Resets
      <4>5. QED
        BY <1>1, <3>2, <3>3, <4>2, <4>3, <4>4 DEF TokenSound
    <3>4. CASE t # x
      <4>1. \A r \in Slots : Resets(r, t)' => r # s /\ call'[r] = call[r]
        BY <1>1, <2>2, <3>4 DEF Resets
      <4>2. Marking(t)' <=> Marking(t)
        BY <1>1, <2>3, <3>4 DEF Marking, Resets
      <4>3. past'.uses[t] = past.uses[t]
        BY <2>1, <3>4
      <4>4. \A r \in Slots : Resets(r, t)' /\ call'[r].todo[1] = "write"
                             => past'.uses[t] <= faults
        BY <2>3, <3>1, <4>1, <4>3 DEF TokenSound
      <4>5. (\E k \in tokens : k.id = t /\ ~k.used) /\ ~Marking(t)'
            => past'.uses[t] <= faults
        BY <3>1, <4>2, <4>3 DEF TokenSound
      <4>6. past'.uses[t] <= 1 + faults
        BY <3>1, <4>3 DEF TokenSound
      <4>7. QED
        BY <1>1, <3>2, <4>4, <4>5, <4>6 DEF TokenSound
    <3>5. QED
      BY <3>3, <3>4
  <2>6. \A r \in Slots : call'[r].token <= begun
    BY <1>1, <2>2 DEF TokensSound
  <2>7. \A r \in Slots : Storing(r)' <=> Storing(r)
    BY <1>1, <1>4, <2>2 DEF Storing
  <2>8. ASSUME NEW r \in Slots, Storing(r)'
        PROVE  /\ past'.uses[call'[r].token] = 0
               /\ \A k \in tokens : k.id # call'[r].token
               /\ \A p \in Slots : ~(call'[p].op = "reset" /\ call'[p].token = call'[r].token)
               /\ \A p \in Slots : Storing(p)' /\ call'[p].token = call'[r].token => p = r
    <3>1. r # s /\ call'[r] = call[r] /\ Storing(r)
      BY <1>1, <1>4, <2>2, <2>8 DEF Storing
    <3>2. \A p \in Slots : ~Resets(p, call[r].token)
      BY <3>1 DEF TokensSound
    <3>3. call[r].token # x /\ call[r].token \in Id
      BY <2>4, <3>2 DEF Base, CallState
    <3>4. past'.uses[call'[r].token] = 0
      BY <2>1, <3>1, <3>3 DEF TokensSound
    <3>5. \A p \in Slots : ~(call'[p].op = "reset" /\ call'[p].token = call'[r].token)
      BY <2>3, <3>1, <3>2 DEF Resets
    <3>6. \A p \in Slots : Storing(p)' /\ call'[p].token = call'[r].token => p = r
      <4>1. \A p \in Slots : call'[p].token = call[p].token
        BY <1>1, <2>2
      <4>2. QED
        BY <2>7, <3>1, <4>1 DEF TokensSound
    <3>7. \A k \in tokens : k.id # call'[r].token
      BY <3>1 DEF TokensSound
    <3>8. QED
      BY <3>4, <3>5, <3>6, <3>7
  <2>9. ASSUME NEW t \in Id, t > begun PROVE past'.uses[t] = 0
    <3>1. x <= begun
      BY DEF TokensSound
    <3>2. t # x
      <4>1. Id \subseteq Nat /\ MaxCalls \in Nat
        BY UndefinedApart
      <4>2. x \in Id /\ x \in Nat /\ t \in Nat
        BY <1>1, <4>1
      <4>3. begun \in 0..MaxCalls
        BY <1>2
      <4> HIDE DEF x
      <4>4. begun \in Nat
        BY <4>1, <4>3
      <4>5. QED
        BY <2>9, <3>1, <4>2, <4>4
    <3>3. QED
      BY <2>1, <2>9, <3>2 DEF TokensSound
  <2>10. \A k \in tokens : k.id <= begun
    BY DEF TokensSound
  <2>11. QED
    BY <1>1, <2>5, <2>6, <2>8, <2>9, <2>10 DEF TokensSound, Resets
<1>5. QED
  BY <1>3, <1>4

LEMMA WriteSecurityStep ==
    ASSUME IInv, NEW s \in Slots, WriteSecurity(s) PROVE IInv'
BY WriteSecurityBase, WriteSecurityLocks, WriteSecurityTokens, WriteSecurityFactors,
   WriteSecurityMails DEF IInv
-----------------------------------------------------------------------------
LEMMA InitOK == Init => IInv
<1> SUFFICES ASSUME Init PROVE IInv
  OBVIOUS
<1>1. /\ user = [u \in Users |-> IF u \in Existing
                                 THEN [Absent EXCEPT !.status = "Active", !.password = 0]
                                 ELSE Absent]
      /\ setting \in [mfa : BOOLEAN, group : Groups]
      /\ tokens = {} /\ mails = {} /\ told = {} /\ lost = {} /\ sessions = Existing
      /\ call = [s \in Slots |-> Idle] /\ begun = 0 /\ faults = 0
      /\ past = [wrong |-> [u \in Users |-> 0], uses |-> [t \in Id |-> 0],
                 proven |-> [u \in Users |-> {}], raced |-> {}, halfMade |-> {},
                 overlapped |-> {}]
  BY DEF Init
<1>2. \A u \in Users : /\ user[u] \in UserRecord /\ user[u].failed = 0
                       /\ user[u].locked = FALSE /\ user[u].enabled = FALSE
                       /\ user[u].codes = Undefined
                       /\ ~Stored(u) => user[u] = Absent
  <2>1. Absent \in UserRecord /\ Absent.failed = 0 /\ Absent.locked = FALSE
        /\ Absent.enabled = FALSE /\ Absent.codes = Undefined
    BY UndefinedApart DEF Absent, UserRecord, Status
  <2> DEFINE made == [Absent EXCEPT !.status = "Active", !.password = 0]
  <2>2. /\ made \in UserRecord /\ made.failed = 0 /\ made.locked = FALSE
        /\ made.enabled = FALSE /\ made.codes = Undefined /\ made.status = "Active"
    BY UndefinedApart DEF Absent, UserRecord, Status
  <2> HIDE DEF made
  <2>3. \A u \in Users : user[u] = IF u \in Existing THEN made ELSE Absent
    BY <1>1 DEF made
  <2>4. QED
    BY <2>1, <2>2, <2>3 DEF Stored
<1>3. \A s \in Slots : call[s] = Idle
  BY <1>1
<1>4. /\ \A s \in Slots : CallSound(call[s]) /\ call[s] \in CallState
      /\ call \in [Slots -> CallState]
  BY <1>1, <1>3, IdleSound DEF CallSound
<1>5. past \in Memory
  <2>1. 0 \in Nat
    OBVIOUS
  <2>2. QED
    BY <1>1, <2>1 DEF Memory
<1>6. TypeOK
  <2>1. \A s \in Slots :
           /\ call[s].user \in Users \cup {Undefined}
           /\ call[s].todo \in Seq(Steps) /\ call[s].mails \in Seq(Mail)
           /\ {call[s].id, call[s].token} \subseteq Id
    BY <1>4 DEF CallState
  <2>2. user \in [Users -> UserRecord]
    BY <1>1, <1>2
  <2>3. begun \in 0..MaxCalls /\ faults \in 0..MaxFaults
    BY <1>1, UndefinedApart
  <2>4. sessions \subseteq Users
    BY <1>1, AccessAssumption
  <2>5. tokens \subseteq Token /\ mails \subseteq Mail /\ told \subseteq Mail /\ lost \subseteq Mail
    BY <1>1
  <2>6. setting.mfa \in BOOLEAN /\ setting.group \in Groups
    BY <1>1
  <2>7. QED
    BY <2>1, <2>2, <2>3, <2>4, <2>5, <2>6 DEF TypeOK
<1>7. \A s \in Slots : call[s].op = "none" /\ call[s].token = 0
  BY <1>3, IdleSound
<1>8. UsersSound
  BY <1>1, <1>2, <1>7 DEF UsersSound, Busy
<1>9. LockSound
  BY <1>1, <1>2, <1>7 DEF LockSound
<1>10. TokensSound
  <2>1. \A s \in Slots : ~Storing(s) /\ \A t : ~Resets(s, t)
    BY <1>7 DEF Storing, Resets
  <2>2. \A t \in Id : TokenSound(t)
    BY <1>1, <2>1 DEF TokenSound
  <2>3. QED
    BY <1>1, <1>7, <2>1, <2>2 DEF TokensSound
<1>11. FactorSound
  BY <1>2, <1>7 DEF FactorSound
<1>12. MailSound
  BY <1>1, <1>2, <1>7 DEF MailSound, WritesCodes, Storing
<1>13. QED
  BY <1>4, <1>5, <1>6, <1>8, <1>9, <1>10, <1>11, <1>12 DEF IInv, Base

LEMMA StepOK == IInv /\ [Next]_vars => IInv'
<1> SUFFICES ASSUME IInv, [Next]_vars PROVE IInv'
  OBVIOUS
<1>1. ASSUME NEW s \in Slots, PasswordRequest(s) PROVE IInv'
  BY <1>1, WrongPasswordStep, RightPasswordStep, ChangePasswordStep, ForgotPasswordStep,
     ForcedPasswordResetStep, ForcePasswordResetStep, ResetPasswordStep DEF PasswordRequest
<1>2. ASSUME NEW s \in Slots, MfaRequest(s) PROVE IInv'
  BY <1>2, SetupMfaStep, VerifyMfaSetupStep, DisableMfaStep, RegenerateBackupCodesStep
  DEF MfaRequest
<1>3. ASSUME NEW s \in Slots, UserRequest(s) PROVE IInv'
  BY <1>3, CreateUserStep, InviteUserStep, UpdateAccountUserStep, UpdateUserStatusStep
  DEF UserRequest
<1>4. ASSUME NEW s \in Slots, CallStep(s) PROVE IInv'
  BY <1>4, CreateStepStep, WriteSecurityStep, UpdateUserStep, SetStatusStep, StoreTokenStep,
     MarkUsedStep, GrantStep, MailStepStep DEF CallStep
<1>5. ASSUME NEW s \in Slots, MailFails(s) \/ CallsEnd({s}) PROVE IInv'
  BY <1>5, MailFailsStep, CallsEndStep
<1>6. ASSUME CallsEnd(Slots) PROVE IInv'
  BY <1>6, CallsEndStep
<1>7. ASSUME NEW u \in Users, SiweLogin(u) \/ VerifyMfa(u) \/ LockElapses(u) \/ SessionEnds(u)
      PROVE  IInv'
  BY <1>7, SignsInStep, LockElapsesStep, SessionEndsStep
<1>8. ASSUME NEW m \in mails, SendMail(m) \/ RefuseMail(m) PROVE IInv'
  BY <1>8, SendMailStep, RefuseMailStep
<1>9. ASSUME NEW t \in tokens, TokenEnds(t) PROVE IInv'
  BY <1>9, TokenEndsStep
<1>10. CASE UNCHANGED vars
  BY <1>10, StaysStep
<1>11. QED
  BY <1>1, <1>2, <1>3, <1>4, <1>5, <1>6, <1>7, <1>8, <1>9, <1>10 DEF Next

(* The inductive invariant.                                                *)
THEOREM InvariantHolds == Spec => []IInv
BY InitOK, StepOK, PTL DEF Spec

(* Users, tokens, mails and calls keep their shapes.                       *)
THEOREM TypeCorrect == Spec => []TypeOK
<1>1. IInv => TypeOK
  BY DEF IInv, Base
<1>2. QED
  BY InvariantHolds, <1>1, PTL

(* Whatever overlaps, a token that resets a password more often than once  *)
(* was given to two requests at a time, or a fault kept one of them from   *)
(* marking it (AuthService.resetPassword).                                 *)
THEOREM ResetsOnce == Spec => []TokenUsedOnce
<1>1. IInv => TokenUsedOnce
  <2> SUFFICES ASSUME IInv, NEW t \in Id, t \notin past.overlapped
               PROVE  past.uses[t] <= 1 + faults
    BY DEF TokenUsedOnce
  <2>1. TokenSound(t)
    BY DEF IInv, TokensSound
  <2>2. QED
    BY <2>1 DEF TokenSound
<1>2. QED
  BY InvariantHolds, <1>1, PTL

(* No user is locked out who did not give MaxFailed wrong passwords: of    *)
(* attempts that overlap some may be forgotten, none is counted twice      *)
(* (AuthService.loginWithEmailPassword).                                   *)
THEOREM LocksAreEarned == Spec => []LockedByFailures
<1>1. IInv => LockedByFailures
  BY DEF IInv, LockSound, LockedByFailures
<1>2. QED
  BY InvariantHolds, <1>1, PTL

(* A second factor counts after a code of the secret it has was verified,  *)
(* but for the users an administrator makes with one and for a setup that  *)
(* overlapped a verification (AuthService.verifyMfaSetup).                 *)
THEOREM FactorsAreProven == Spec => []EnabledWasProven
<1>1. IInv => EnabledWasProven
  BY DEF IInv, FactorSound, EnabledWasProven, Factored
<1>2. QED
  BY InvariantHolds, <1>1, PTL

(* The reset tokens and backup codes that are stored have a mail, queued,  *)
(* delivered or lost to a fault, once the requests about their user are    *)
(* over (AuthService.forgotPassword, MfaService).                          *)
THEOREM StoredIsMailed == Spec => []StoredIsTold
<1>1. IInv => StoredIsTold
  <2> SUFFICES ASSUME IInv, NEW u \in Users, \A s \in Slots : call[s].user # u,
                      NEW x \in {user[u].codes}
                               \cup {t.id : t \in {r \in tokens : r.user = u}},
                      x # Undefined
               PROVE  MailsOf(u, x) \cap (mails \cup told \cup lost) # {}
    BY DEF StoredIsTold
  <2>1. Mailed(u, x)
    BY DEF IInv, MailSound
  <2>2. \A m : ~Due(u, m)
    BY DEF Due
  <2>3. QED
    BY <2>1, <2>2 DEF Mailed
<1>2. QED
  BY InvariantHolds, <1>1, PTL
=============================================================================
