------------------------------- MODULE Access -------------------------------
(***************************************************************************)
(* Signing in: passwords, the lock after failed attempts, reset tokens,    *)
(* the second factor, the users an administrator makes or invites, and the *)
(* mails that tell users what they need.                                   *)
(*                                                                         *)
(* Every request of AuthController, UserManagementController and the two   *)
(* user writes of AccountUsersController has the same shape: the user is   *)
(* read once, everything is decided on what was read, and the writes and   *)
(* mails follow in an order that is fixed then.  Begin reads and decides;  *)
(* the steps of a call are one database or queue operation each, and those *)
(* of other calls come between.  Passwords, secrets, backup codes and      *)
(* reset tokens are numbers: those made by the n-th call are n.  A refused *)
(* request, refreshing a token and the searches change nothing and have no *)
(* action; audit entries and the alert mails, sent directly, are left out. *)
(***************************************************************************)
EXTENDS Naturals, Sequences, FiniteSets, Functions

CONSTANTS
    Users,      \* the users there are or may be made
    Existing,   \* those that exist at first, with password 0
    Slots,      \* the requests the API serves at the same time
    MaxFailed,  \* auth.accountLockout.maxFailedAttempts
    Groups,     \* the sets of endpoints looked at together, each with a bound:
                \* how many requests are served
    Undefined,  \* the value of a property that is not set
    MaxCalls,   \* the largest of these bounds
    MaxFaults   \* bound: operations and mails that fail

ASSUME AccessAssumption ==
    /\ IsFiniteSet(Slots) /\ Existing \subseteq Users
    /\ Undefined \notin Users \cup BOOLEAN \cup Nat
    /\ MaxFailed \in Nat \ {0} /\ {MaxCalls, MaxFaults} \subseteq Nat
    /\ \A g \in Groups : g.calls \in 0..MaxCalls

VARIABLES
    setting,    \* whether MFA is on (MFA_ENABLED), and the endpoints in use
    user,       \* user[u]: the record of u in accountusers
    tokens,     \* the records of passwordresettokens
    sessions,   \* the users that hold a valid access or refresh token
    mails,      \* the jobs of the email queue
    told,       \* the mails delivered
    lost,       \* the mails that will never be delivered
    call,       \* call[s]: the request slot s is serving
    begun,      \* how many requests were begun
    faults,     \* how many faults have happened
    past        \* what the properties remember of the past

vars == <<setting, user, tokens, sessions, mails, told, lost, call, begun,
          faults, past>>

Id == 0..MaxCalls
Value == Id \cup {Undefined}
Status == {"absent", "Active", "Suspended", "Deleted"}
RequestedStatus == {"active", "inactive", "locked"}

(* A user as the sign-in sees it; locked: accountLockedUntil is to come. *)
UserRecord == [status : Status \cup RequestedStatus, password : Value,
               resetRequired : BOOLEAN, failed : Nat, locked : BOOLEAN,
               secret : Value, codes : Value, enabled : BOOLEAN,
               setupRequired : BOOLEAN]
Absent == [status |-> "absent", password |-> Undefined, resetRequired |-> FALSE,
           failed |-> 0, locked |-> FALSE, secret |-> Undefined,
           codes |-> Undefined, enabled |-> FALSE, setupRequired |-> FALSE]
Token == [id : Id, user : Users, used : BOOLEAN]

(* The mails, of which the templates are left out. *)
Kinds == {"password_reset", "mfa_setup", "backup_codes", "invitation",
          "forced_reset"}
Mail == [kind : Kinds, to : Users, what : Value]
PasswordResetMail(u, t) == [kind |-> "password_reset", to |-> u, what |-> t]
MfaSetupMail(u, c) == [kind |-> "mfa_setup", to |-> u, what |-> c]
BackupCodesMail(u, c) == [kind |-> "backup_codes", to |-> u, what |-> c]
InvitationMail(u, p) == [kind |-> "invitation", to |-> u, what |-> p]
ForcedResetMail(u) == [kind |-> "forced_reset", to |-> u, what |-> Undefined]

(* The body of a request that makes a user. *)
NewUser == [email : BOOLEAN,            \* authMethod is email-password, not siwe
            enableMfa : BOOLEAN, sendInvitation : BOOLEAN]

Steps == {"create", "write", "update", "set_status", "store", "mark", "grant", "mail"}
Idle == [op |-> "none", user |-> Undefined, id |-> 0, todo |-> <<>>,
         updates |-> <<>>, token |-> 0, mails |-> <<>>]

TypeOK ==
    /\ setting.mfa \in BOOLEAN /\ setting.group \in Groups
    /\ user \in [Users -> UserRecord]
    /\ tokens \subseteq Token /\ sessions \subseteq Users
    /\ mails \subseteq Mail /\ told \subseteq Mail /\ lost \subseteq Mail
    /\ \A s \in Slots :
          /\ call[s].user \in Users \cup {Undefined}
          /\ call[s].todo \in Seq(Steps) /\ call[s].mails \in Seq(Mail)
          /\ {call[s].id, call[s].token} \subseteq Id
    /\ begun \in 0..MaxCalls /\ faults \in 0..MaxFaults

Init ==
    /\ setting \in [mfa : BOOLEAN, group : Groups]
    /\ user = [u \in Users |-> IF u \in Existing
                               THEN [Absent EXCEPT !.status = "Active", !.password = 0]
                               ELSE Absent]
    /\ tokens = {} /\ mails = {} /\ told = {} /\ lost = {}
    /\ sessions = Existing
    /\ call = [s \in Slots |-> Idle]
    /\ begun = 0 /\ faults = 0
    /\ past = [wrong |-> [u \in Users |-> 0], uses |-> [t \in Id |-> 0],
               proven |-> [u \in Users |-> {}], raced |-> {}, halfMade |-> {},
               overlapped |-> {}]
-----------------------------------------------------------------------------
(* Reading and writing users. *)

(* findByEmail, findByEmailForAuth and findByWalletAddress leave out deleted users;
   findById and findSecurityDetailsById do not. *)
Found(u) == user[u].status \notin {"absent", "Deleted"}
Stored(u) == user[u].status # "absent"

(* Mutant of UpdateSecurity: undefined is written like any value. *)
UpdateSecurityCopies(record, updates) ==
    [f \in DOMAIN record |-> IF f \in DOMAIN updates THEN updates[f] ELSE record[f]]

(* updateSecurity writes the fields that are provided and not undefined. *)
UpdateSecurity(record, updates) ==
    [f \in DOMAIN record |->
        IF f \in DOMAIN updates /\ updates[f] # Undefined THEN updates[f] ELSE record[f]]

(* update writes the profile only, whatever else UpdateAccountUserDto has. *)
ProfileFields == {"status"}
UpdateProfile(record, updates) ==
    [f \in DOMAIN record |->
        IF f \in DOMAIN updates \cap ProfileFields THEN updates[f] ELSE record[f]]

(* The request op of user u, to go through the steps todo. *)
New == begun + 1
Begin(s, op, u, todo, updates, token, msgs) ==
    /\ call[s] = Idle
    /\ op \in setting.group.endpoints
    /\ begun < setting.group.calls
    /\ todo # <<>>
    /\ begun' = New
    /\ call' = [call EXCEPT ![s] =
          [op |-> op, user |-> u, id |-> New, todo |-> todo, updates |-> updates,
           token |-> token, mails |-> msgs]]
    /\ UNCHANGED <<setting, user, tokens, sessions, mails, told, lost, faults>>
-----------------------------------------------------------------------------
(* Passwords. *)

(* A second factor is asked for where MFA is on, and of users that have one. *)
MfaRequired(record) == setting.mfa \/ record.enabled

(* Mutant of WrongPassword: an attempt is counted when it begins and when it ends. *)
WrongPasswordTwice(s, u) ==
    LET failed == user[u].failed + 2 IN
    /\ Found(u) /\ ~user[u].locked
    /\ Begin(s, "login", u, <<"write">>,
             [failed |-> failed,
              locked |-> IF failed >= MaxFailed THEN TRUE ELSE Undefined], 0, <<>>)
    /\ past' = [past EXCEPT !.wrong[u] = @ + 1]

(* loginWithEmailPassword with another password than the user's. *)
WrongPassword(s, u) ==
    LET failed == user[u].failed + 1 IN
    /\ Found(u) /\ ~user[u].locked
    /\ Begin(s, "login", u, <<"write">>,
             [failed |-> failed,
              locked |-> IF failed >= MaxFailed THEN TRUE ELSE Undefined], 0, <<>>)
    /\ past' = [past EXCEPT !.wrong[u] = @ + 1]

(* And with the user's password. *)
RightPassword(s, u) ==
    /\ Found(u) /\ ~user[u].locked /\ user[u].password # Undefined
    /\ Begin(s, "login", u,
             (IF user[u].failed > 0 THEN <<"write">> ELSE <<>>) \o
             (IF user[u].resetRequired \/ MfaRequired(user[u]) THEN <<>> ELSE <<"grant">>),
             [failed |-> 0, locked |-> Undefined], 0, <<>>)
    /\ UNCHANGED past

(* login: the wallet signs in, and has no second factor. *)
SiweLogin(u) ==
    /\ "siwe" \in setting.group.endpoints /\ Found(u) /\ u \notin sessions
    /\ sessions' = sessions \cup {u}
    /\ UNCHANGED <<setting, user, tokens, mails, told, lost, call, begun, faults, past>>

ChangePassword(s, u) ==
    /\ u \in sessions /\ user[u].password # Undefined
    /\ Begin(s, "change", u, <<"write">>, [password |-> New], 0, <<>>)
    /\ UNCHANGED past

ForgotPassword(s, u) ==
    /\ Found(u)
    /\ Begin(s, "forgot", u, <<"store", "mail">>, <<>>, New, <<PasswordResetMail(u, New)>>)
    /\ UNCHANGED past

(* What both resets write. *)
ResetUpdates == [password |-> New, resetRequired |-> FALSE, failed |-> 0,
                 locked |-> Undefined]

(* resetPassword with a token the user was mailed: findByToken, and later markAsUsed. *)
ResetPassword(s, t) ==
    /\ ~t.used
    /\ PasswordResetMail(t.user, t.id) \in told
    /\ Begin(s, "reset", t.user, <<"write", "mark">>, ResetUpdates, t.id, <<>>)
    /\ past' = IF \E r \in Slots : call[r].op = "reset" /\ call[r].token = t.id
               THEN [past EXCEPT !.overlapped = @ \cup {t.id}] ELSE past

(* password/forced-reset asks for a session and for the present password. *)
ForcedPasswordReset(s, u) ==
    /\ u \in sessions /\ Found(u) /\ user[u].resetRequired /\ user[u].password # Undefined
    /\ Begin(s, "forced", u, <<"write">>, ResetUpdates, 0, <<>>)
    /\ UNCHANGED past

(* force-password-reset, by an administrator. *)
ForcePasswordReset(s, u, sendEmail) ==
    /\ Found(u)
    /\ Begin(s, "force", u, IF sendEmail THEN <<"write", "mail">> ELSE <<"write">>,
             [resetRequired |-> TRUE], 0, IF sendEmail THEN <<ForcedResetMail(u)>> ELSE <<>>)
    /\ UNCHANGED past
-----------------------------------------------------------------------------
(* The second factor.  With MFA off in the configuration every code is valid and no
   secret can be made; verifyMfa grants the session a login withheld. *)

(* Mutant of SetupMfa: the factor counts from the start. *)
SetupMfaEnables(s, u) ==
    /\ u \in sessions /\ Stored(u) /\ ~user[u].enabled /\ setting.mfa
    /\ Begin(s, "setup", u, <<"write", "mail">>,
             [secret |-> New, codes |-> New, enabled |-> TRUE], 0,
             <<MfaSetupMail(u, New)>>)
    /\ UNCHANGED past

SetupMfa(s, u) ==
    /\ u \in sessions /\ Stored(u) /\ ~user[u].enabled /\ setting.mfa
    /\ Begin(s, "setup", u, <<"write", "mail">>,
             [secret |-> New, codes |-> New, enabled |-> FALSE], 0,
             <<MfaSetupMail(u, New)>>)
    /\ UNCHANGED past

(* With a code of the secret that is stored: past.proven has the secrets so proven. *)
VerifyMfaSetup(s, u) ==
    /\ u \in sessions /\ user[u].secret # Undefined
    /\ Begin(s, "verify_setup", u, <<"write">>, [enabled |-> TRUE], 0, <<>>)
    /\ past' = [past EXCEPT !.proven[u] = @ \cup {user[u].secret}]

VerifyMfa(u) ==
    /\ "verify" \in setting.group.endpoints
    /\ Stored(u) /\ user[u].enabled /\ user[u].secret # Undefined /\ u \notin sessions
    /\ sessions' = sessions \cup {u}
    /\ UNCHANGED <<setting, user, tokens, mails, told, lost, call, begun, faults, past>>

DisableMfa(s, u) ==
    /\ u \in sessions /\ user[u].password # Undefined /\ user[u].secret # Undefined
    /\ Begin(s, "disable", u, <<"write">>,
             [enabled |-> FALSE, secret |-> Undefined, codes |-> Undefined], 0, <<>>)
    /\ UNCHANGED past

(* Mutant of RegenerateBackupCodes: the codes are only shown in the answer. *)
RegenerateUntold(s, u) ==
    /\ u \in sessions /\ user[u].password # Undefined /\ user[u].secret # Undefined
    /\ Begin(s, "regenerate", u, <<"write">>, [codes |-> New], 0, <<>>)
    /\ UNCHANGED past

RegenerateBackupCodes(s, u) ==
    /\ u \in sessions /\ user[u].password # Undefined /\ user[u].secret # Undefined
    /\ Begin(s, "regenerate", u, <<"write", "mail">>, [codes |-> New], 0,
             <<BackupCodesMail(u, New)>>)
    /\ UNCHANGED past
-----------------------------------------------------------------------------
(* The users an administrator looks after. *)

(* createUser makes the user, then (setupMfaForNewUser, which throws with MFA off)
   its second factor, then the invitation with the password. *)
CreateUser(s, u, dto) ==
    LET sets == dto.enableMfa /\ setting.mfa
        invites == dto.email /\ dto.sendInvitation /\ (dto.enableMfa => setting.mfa) IN
    /\ ~Stored(u)
    /\ \A r \in Slots : ~(call[r].op = "create" /\ call[r].user = u)
    /\ Begin(s, "create", u,
             <<"create">> \o (IF sets THEN <<"write", "mail">> ELSE <<>>)
                          \o (IF invites THEN <<"mail">> ELSE <<>>),
             [password |-> IF dto.email THEN New ELSE Undefined, enabled |-> dto.enableMfa,
              secret |-> New, codes |-> New, setupRequired |-> TRUE], 0,
             (IF sets THEN <<MfaSetupMail(u, New)>> ELSE <<>>)
             \o (IF invites THEN <<InvitationMail(u, New)>> ELSE <<>>))
    /\ past' = IF dto.enableMfa /\ ~setting.mfa
               THEN [past EXCEPT !.halfMade = @ \cup {u}] ELSE past

(* inviteUser gives the hash of a new password to updateAccountUser. *)
InviteUser(s, u) ==
    /\ Stored(u)
    /\ Begin(s, "invite", u, <<"update", "mail">>, [password |-> New], 0,
             <<InvitationMail(u, New)>>)
    /\ UNCHANGED past

(* PATCH account-users/:id, and PUT users/status, which writes the status it is given
   although the schema has no such value. *)
UpdateAccountUser(s, u, status) ==
    /\ Stored(u) /\ status # "absent"
    /\ Begin(s, "update", u, <<"update">>, [status |-> status], 0, <<>>)
    /\ UNCHANGED past

UpdateUserStatus(s, u, status) ==
    /\ Stored(u)
    /\ Begin(s, "status", u, <<"set_status">>, [status |-> status], 0, <<>>)
    /\ UNCHANGED past
-----------------------------------------------------------------------------
(* The steps of a call. *)

At(s, step) == call[s] # Idle /\ Head(call[s].todo) = step
Advance(s) ==
    call' = [call EXCEPT ![s] =
        IF Len(@.todo) = 1 THEN Idle ELSE [@ EXCEPT !.todo = Tail(call[s].todo)]]
SetUser(s, record) == user' = [user EXCEPT ![call[s].user] = record]

(* The record create stores: mfaEnabled is what was asked for. *)
RecordOf(dto) == [Absent EXCEPT !.status = "Active", !.password = dto.password,
                                !.enabled = dto.enabled]

CreateStep(s) ==
    /\ At(s, "create")
    /\ SetUser(s, RecordOf(call[s].updates))
    /\ Advance(s)
    /\ UNCHANGED <<setting, tokens, sessions, mails, told, lost, begun, faults, past>>

(* Setups that write while a verification of the same user has yet to. *)
Races(s) ==
    /\ call[s].op = "setup"
    /\ \E r \in Slots : call[r].op = "verify_setup" /\ call[r].user = call[s].user

WriteSecurity(s) ==
    /\ At(s, "write")
    /\ SetUser(s, UpdateSecurity(user[call[s].user], call[s].updates))
    /\ past' = [past EXCEPT
          !.uses[call[s].token] = IF call[s].op = "reset" THEN @ + 1 ELSE @,
          !.raced = IF Races(s) THEN @ \cup {call[s].user} ELSE @]
    /\ Advance(s)
    /\ UNCHANGED <<setting, tokens, sessions, mails, told, lost, begun, faults>>

UpdateUser(s) ==
    /\ At(s, "update")
    /\ SetUser(s, UpdateProfile(user[call[s].user], call[s].updates))
    /\ Advance(s)
    /\ UNCHANGED <<setting, tokens, sessions, mails, told, lost, begun, faults, past>>

SetStatus(s) ==
    /\ At(s, "set_status")
    /\ SetUser(s, [user[call[s].user] EXCEPT !.status = call[s].updates.status])
    /\ Advance(s)
    /\ UNCHANGED <<setting, tokens, sessions, mails, told, lost, begun, faults, past>>

StoreToken(s) ==
    /\ At(s, "store")
    /\ tokens' = tokens \cup {[id |-> call[s].token, user |-> call[s].user, used |-> FALSE]}
    /\ Advance(s)
    /\ UNCHANGED <<setting, user, sessions, mails, told, lost, begun, faults, past>>

(* Mutant of Marked: usedAt is written, used is not. *)
MarkedAt(t) == t

(* What markAsUsed makes of a token. *)
Marked(t) == [t EXCEPT !.used = TRUE]

MarkUsed(s) ==
    /\ At(s, "mark")
    /\ tokens' = {IF t.id = call[s].token THEN Marked(t) ELSE t : t \in tokens}
    /\ Advance(s)
    /\ UNCHANGED <<setting, user, sessions, mails, told, lost, begun, faults, past>>

Grant(s) ==
    /\ At(s, "grant")
    /\ sessions' = sessions \cup {call[s].user}
    /\ Advance(s)
    /\ UNCHANGED <<setting, user, tokens, mails, told, lost, begun, faults, past>>

(* The call is done with the first of its mails. *)
MailDone(s) ==
    call' = [call EXCEPT ![s] =
        IF Len(@.todo) = 1 THEN Idle
        ELSE [@ EXCEPT !.todo = Tail(call[s].todo), !.mails = Tail(call[s].mails)]]

MailStep(s) ==
    /\ At(s, "mail")
    /\ mails' = mails \cup {Head(call[s].mails)}
    /\ MailDone(s)
    /\ UNCHANGED <<setting, user, tokens, sessions, told, lost, begun, faults, past>>

(* Adding a mail fails: every caller but inviteUser, which has nothing left to do, goes on. *)
MailFails(s) ==
    /\ At(s, "mail") /\ faults < MaxFaults
    /\ lost' = lost \cup {Head(call[s].mails)}
    /\ MailDone(s)
    /\ faults' = faults + 1
    /\ UNCHANGED <<setting, user, tokens, sessions, mails, told, begun, past>>

(* An operation throws, or the process ends: what is left of the calls is not done. *)
CallsEnd(ended) ==
    /\ faults < MaxFaults
    /\ \E s \in ended : call[s] # Idle
    /\ call' = [s \in Slots |-> IF s \in ended THEN Idle ELSE call[s]]
    /\ lost' = lost \cup UNION {Range(call[s].mails) : s \in ended}
    /\ past' = [past EXCEPT !.halfMade = @ \cup
          {call[s].user : s \in {r \in ended : call[r].op = "create" /\ At(r, "write")}}]
    /\ faults' = faults + 1
    /\ UNCHANGED <<setting, user, tokens, sessions, mails, told, begun>>
-----------------------------------------------------------------------------
(* The email queue and the clock.  The provider answers failed and does not throw, so
   the processor ends the job after one attempt either way. *)

SendMail(m) ==
    /\ m \in mails
    /\ mails' = mails \ {m} /\ told' = told \cup {m}
    /\ UNCHANGED <<setting, user, tokens, sessions, lost, call, begun, faults, past>>

RefuseMail(m) ==
    /\ m \in mails /\ faults < MaxFaults
    /\ mails' = mails \ {m} /\ lost' = lost \cup {m}
    /\ faults' = faults + 1
    /\ UNCHANGED <<setting, user, tokens, sessions, told, call, begun, past>>

LockElapses(u) ==
    /\ user[u].locked
    /\ user' = [user EXCEPT ![u].locked = FALSE]
    /\ UNCHANGED <<setting, tokens, sessions, mails, told, lost, call, begun, faults, past>>

SessionEnds(u) ==
    /\ u \in sessions
    /\ sessions' = sessions \ {u}
    /\ UNCHANGED <<setting, user, tokens, mails, told, lost, call, begun, faults, past>>

(* Expiry (and the TTL index or the hourly job), and the daily job for used tokens. *)
TokenEnds(t) ==
    /\ tokens' = tokens \ {t}
    /\ UNCHANGED <<setting, user, sessions, mails, told, lost, call, begun, faults, past>>

PasswordRequest(s) ==
    \/ \E u \in Users :
          \/ WrongPassword(s, u) \/ RightPassword(s, u) \/ ChangePassword(s, u)
          \/ ForgotPassword(s, u) \/ ForcedPasswordReset(s, u)
          \/ \E sendEmail \in BOOLEAN : ForcePasswordReset(s, u, sendEmail)
    \/ \E t \in tokens : ResetPassword(s, t)

MfaRequest(s) ==
    \E u \in Users : \/ SetupMfa(s, u) \/ VerifyMfaSetup(s, u)
                     \/ DisableMfa(s, u) \/ RegenerateBackupCodes(s, u)

UserRequest(s) ==
    \E u \in Users :
        \/ \E dto \in NewUser : CreateUser(s, u, dto)
        \/ InviteUser(s, u)
        \/ \E status \in Status : UpdateAccountUser(s, u, status)
        \/ \E status \in RequestedStatus : UpdateUserStatus(s, u, status)

CallStep(s) ==
    \/ CreateStep(s) \/ WriteSecurity(s) \/ UpdateUser(s) \/ SetStatus(s)
    \/ StoreToken(s) \/ MarkUsed(s) \/ Grant(s) \/ MailStep(s)

Next ==
    \/ \E s \in Slots : PasswordRequest(s) \/ MfaRequest(s) \/ UserRequest(s)
                      \/ CallStep(s) \/ MailFails(s) \/ CallsEnd({s})
    \/ CallsEnd(Slots)
    \/ \E u \in Users : SiweLogin(u) \/ VerifyMfa(u) \/ LockElapses(u) \/ SessionEnds(u)
    \/ \E m \in mails : SendMail(m) \/ RefuseMail(m)
    \/ \E t \in tokens : TokenEnds(t)

Spec == Init /\ [][Next]_vars
-----------------------------------------------------------------------------
(* What the platform ensures. *)

(* A token resets a password once: again only by a request that overlapped another one
   with the same token, or after a fault between the reset and markAsUsed. *)
TokenUsedOnce ==
    \A t \in Id : past.uses[t] <= 1 + faults \/ t \in past.overlapped

(* Attempts overlap and write what they read plus one, and may so be forgotten; none is
   counted that was not made: a user is locked after MaxFailed wrong passwords at least. *)
LockedByFailures ==
    \A u \in Users : user[u].locked => past.wrong[u] >= MaxFailed

(* A second factor counts after a code of its secret was verified, but for the users an
   administrator made with one and for a setup overlapping a verification. *)
EnabledWasProven ==
    \A u \in Users : user[u].enabled =>
        \/ user[u].secret \in past.proven[u]
        \/ user[u].setupRequired \/ u \in past.raced \/ u \in past.halfMade
        \/ \E s \in Slots : call[s].op = "create" /\ call[s].user = u

(* What a user needs is mailed: reset tokens and backup codes that are stored have a mail
   that is queued, delivered or lost to a fault, once the request that made them is over. *)
MailsOf(u, x) == {m \in Mail : m.to = u /\ m.what = x /\ m.kind # "invitation"}
StoredIsTold ==
    \A u \in Users :
        (\A s \in Slots : call[s].user # u) =>
            \A x \in {user[u].codes} \cup {t.id : t \in {r \in tokens : r.user = u}} :
                x # Undefined => MailsOf(u, x) \cap (mails \cup told \cup lost) # {}
-----------------------------------------------------------------------------
(* What the sources say and the code does not ensure. *)

(* The password of the last invitation a user was mailed is the user's ("Update user with
   new password hash"): the update leaves the hash out. *)
InvitationsOpen ==
    \A u \in Users : \A m \in told :
        m.kind = "invitation" /\ m.to = u
        /\ (\A s \in Slots : call[s].user # u)
        /\ (\A x \in mails \cup told : x.to = u => x.what <= m.what)
        => user[u].password = m.what
=============================================================================
