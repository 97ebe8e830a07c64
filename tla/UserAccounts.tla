---------------------------- MODULE UserAccounts ----------------------------
(***************************************************************************)
(* The user table and the calls of UserService and AuthService that write  *)
(* it: registration, the logins that create an account, e-mail             *)
(* verification, profile updates, bans, and password resets by code.       *)
(* Each action is one awaited statement of one call.                       *)
(*                                                                         *)
(* save(entity) writes the row as it was when the call read it.  Session   *)
(* tokens, the last login, and a code's expiry and attempts, which only    *)
(* confirmResetCode reads or writes, are left out.                         *)
(***************************************************************************)
EXTENDS Integers, Sequences

CONSTANTS
    Usernames, Emails, Passwords,
    Callers,   \* bound: calls at once
    MaxUsers,  \* bound: rows
    MaxCodes,  \* bound: reset codes
    MaxFresh   \* bound: verification tokens made by a resend

ASSUME AccountBounds == {MaxUsers, MaxCodes, MaxFresh} \subseteq Nat

VARIABLES
    users,         \* user rows, in order of insertion; none is ever removed
    codes,         \* password_reset_token rows
    fresh,         \* fresh tokens made so far
    call,          \* the calls in flight
    spent,         \* history: codes that have changed a password
    accountsApart  \* history: no two calls overlapped, and no reset died half way

accountVars == <<users, codes, fresh, call, spent, accountsApart>>

-----------------------------------------------------------------------------
\* emailToken of user.service.ts, made once per process, and the fresh ones.
EmailToken == 0
VerificationTokens == EmailToken .. MaxFresh

\* update() stores a new password as it is sent, which matches no hash.
Unhashed == "unhashed"

Account == [name : Usernames, email : Emails, pass : Passwords \cup {Unhashed},
            active : BOOLEAN, verified : BOOLEAN, token : VerificationTokens]
\* What a call holds that has read no row.
NoAccount == [name |-> "", email |-> "",
              pass |-> Unhashed, active |-> FALSE, verified |-> FALSE, token |-> EmailToken]
Code == [user : 1 .. MaxUsers, used : BOOLEAN]

\* `entity` is the row as read, or the one to insert; `row` its number.
AccountCall == [pc : {"idle", "create", "insert", "overwrite", "verify", "save",
                      "password", "use"},
                row : 0 .. MaxUsers, entity : Account \cup {NoAccount}, code : 0 .. MaxCodes]
NoCall == [pc |-> "idle", row |-> 0, entity |-> NoAccount, code |-> 0]

CallAt(c, pc) == call[c].pc = pc
Hangs(c, pc, row, entity, code) ==
    call' = [call EXCEPT ![c] = [pc |-> pc, row |-> row, entity |-> entity, code |-> code]]
CallGoto(c, pc) == call' = [call EXCEPT ![c].pc = pc]
Return(c) == call' = [call EXCEPT ![c] = NoCall]

Starts(c) ==
    /\ call[c] = NoCall
    /\ accountsApart' = (accountsApart /\ \A d \in Callers : call[d] = NoCall)
Same == UNCHANGED accountsApart

\* The unique indexes of username and email.
IsFree(i, a) == \A j \in DOMAIN users \ {i} : users[j].name # a.name /\ users[j].email # a.email
SaveRow(i, a) == users' = IF IsFree(i, a) THEN [users EXCEPT ![i] = a] ELSE users

ByEmail(e) == {i \in DOMAIN users : users[i].email = e}

-----------------------------------------------------------------------------
(* New accounts *)

\* The row create() would make: verified is email_verified of the provider.
NewAccount(n, e, p, verified) ==
    [name |-> n, email |-> e, pass |-> p, active |-> TRUE, verified |-> verified, token |-> EmailToken]

Register(c) ==
    /\ Starts(c)
    /\ \E n \in Usernames, e \in Emails, p \in Passwords :
          Hangs(c, "create", 0, NewAccount(n, e, p, FALSE), 0)
    /\ UNCHANGED <<users, codes, fresh, spent>>

\* loginGoogle and loginGitHub: only an address nobody has makes an account.
LoginProvider(c) ==
    /\ Starts(c)
    /\ \E n \in Usernames, e \in Emails, p \in Passwords, verified \in BOOLEAN :
          /\ ByEmail(e) = {}
          /\ Hangs(c, "create", 0, NewAccount(n, e, p, verified), 0)
    /\ UNCHANGED <<users, codes, fresh, spent>>

\* Mutant: an active account of that name or address is taken over.
MutCreate(c) ==
    /\ CallAt(c, "create")
    /\ LET new == call[c].entity
           found == {i \in DOMAIN users : users[i].name = new.name \/ users[i].email = new.email}
       IN IF found = {}
          THEN CallGoto(c, "insert")
          ELSE \E i \in found : Hangs(c, "overwrite", i, new, 0)
    /\ UNCHANGED <<users, codes, fresh, spent>> /\ Same

\* findOne by name or address, in no order: one row, whatever others match.
\* An inactive one is to be overwritten.
Create(c) ==
    /\ CallAt(c, "create")
    /\ LET new == call[c].entity
           found == {i \in DOMAIN users : users[i].name = new.name \/ users[i].email = new.email}
       IN \/ found = {} /\ CallGoto(c, "insert")
          \/ \E i \in found : IF users[i].active THEN Return(c) ELSE Hangs(c, "overwrite", i, new, 0)
    /\ UNCHANGED <<users, codes, fresh, spent>> /\ Same

Overwrite(c) ==
    /\ CallAt(c, "overwrite")
    /\ SaveRow(call[c].row, call[c].entity)
    /\ Return(c)
    /\ UNCHANGED <<codes, fresh, spent>> /\ Same

\* The mail goes before the insert.
Insert(c) ==
    /\ CallAt(c, "insert")
    /\ Len(users) < MaxUsers
    /\ users' = IF IsFree(0, call[c].entity) THEN Append(users, call[c].entity) ELSE users
    /\ Return(c)
    /\ UNCHANGED <<codes, fresh, spent>> /\ Same

-----------------------------------------------------------------------------
(* Verification *)

\* The link sent to some address is followed.  findByEmailToken: one of the
\* rows that hold its token, in no order.
VerifyEmail(c) ==
    /\ Starts(c)
    /\ \E e \in Emails, i \in DOMAIN users :
          Hangs(c, "verify", i, [users[i] EXCEPT !.email = e], 0)
    /\ UNCHANGED <<users, codes, fresh, spent>>

MarkEmailAsVerified(c) ==
    /\ CallAt(c, "verify")
    /\ users' = [users EXCEPT ![call[c].row].verified = TRUE, ![call[c].row].active = TRUE]
    /\ Return(c)
    /\ UNCHANGED <<codes, fresh, spent>> /\ Same

\* The link follows the save.
ResendVerificationEmail(c) ==
    /\ Starts(c)
    /\ fresh < MaxFresh
    /\ fresh' = fresh + 1
    /\ \E i \in DOMAIN users : Hangs(c, "save", i, [users[i] EXCEPT !.token = fresh + 1], 0)
    /\ UNCHANGED <<users, codes, spent>>

-----------------------------------------------------------------------------
(* Profiles and bans *)

UpdateUser(c) ==
    /\ Starts(c)
    /\ \E i \in DOMAIN users :
        \/ \E n \in Usernames : Hangs(c, "save", i, [users[i] EXCEPT !.name = n], 0)
        \/ \E e \in Emails : Hangs(c, "save", i, [users[i] EXCEPT !.email = e], 0)
        \/ Hangs(c, "save", i, [users[i] EXCEPT !.pass = Unhashed], 0)
    /\ UNCHANGED <<users, codes, fresh, spent>>

SetActive(c) ==
    /\ Starts(c)
    /\ \E i \in DOMAIN users, b \in BOOLEAN : Hangs(c, "save", i, [users[i] EXCEPT !.active = b], 0)
    /\ UNCHANGED <<users, codes, fresh, spent>>

SaveEntity(c) ==
    /\ CallAt(c, "save")
    /\ SaveRow(call[c].row, call[c].entity)
    /\ Return(c)
    /\ UNCHANGED <<codes, fresh, spent>> /\ Same

\* delete() bans in one statement.
Ban == \E i \in DOMAIN users :
    /\ users' = [users EXCEPT ![i].active = FALSE]
    /\ UNCHANGED <<codes, fresh, call, spent>>
    /\ accountsApart' = (accountsApart /\ \A d \in Callers : call[d] = NoCall)

-----------------------------------------------------------------------------
(* Password resets *)

SendResetCode == \E i \in DOMAIN users :
    /\ Len(codes) < MaxCodes
    /\ codes' = Append(codes, [user |-> i, used |-> FALSE])
    /\ UNCHANGED <<users, fresh, call, spent, accountsApart>>

\* resetPassword wants another password and a code that is not used; it does
\* not ask whether the code has expired or was confirmed.
ResetPassword(c) ==
    /\ Starts(c)
    /\ \E k \in DOMAIN codes, p \in Passwords :
        /\ ~codes[k].used
        /\ users[codes[k].user].pass # p
        /\ Hangs(c, "password", codes[k].user, [users[codes[k].user] EXCEPT !.pass = p], k)
    /\ UNCHANGED <<users, codes, fresh, spent>>

SetPassword(c) ==
    /\ CallAt(c, "password")
    /\ users' = [users EXCEPT ![call[c].row].pass = call[c].entity.pass]
    /\ spent' = spent \cup {call[c].code}
    /\ CallGoto(c, "use")
    /\ UNCHANGED <<codes, fresh>> /\ Same

UseCode(c) ==
    /\ CallAt(c, "use")
    /\ codes' = [codes EXCEPT ![call[c].code].used = TRUE]
    /\ Return(c)
    /\ UNCHANGED <<users, fresh, spent>> /\ Same

\* A statement or a mail fails, and the call ends there.
CallDies(c) ==
    /\ call[c] # NoCall
    /\ Return(c)
    /\ accountsApart' = (accountsApart /\ ~CallAt(c, "use"))
    /\ UNCHANGED <<users, codes, fresh, spent>>

-----------------------------------------------------------------------------
UserAccountsInit ==
    /\ users = <<>> /\ codes = <<>> /\ fresh = 0
    /\ call = [c \in Callers |-> NoCall]
    /\ spent = {} /\ accountsApart = TRUE

UserAccountsNext ==
    \/ \E c \in Callers :
        \/ Register(c) \/ LoginProvider(c) \/ Create(c) \/ Overwrite(c) \/ Insert(c)
        \/ VerifyEmail(c) \/ MarkEmailAsVerified(c) \/ ResendVerificationEmail(c)
        \/ UpdateUser(c) \/ SetActive(c) \/ SaveEntity(c)
        \/ ResetPassword(c) \/ SetPassword(c) \/ UseCode(c) \/ CallDies(c)
    \/ Ban \/ SendResetCode

UserAccountsSpec == UserAccountsInit /\ [][UserAccountsNext]_accountVars

-----------------------------------------------------------------------------
(* Properties *)

UserAccountsTypeOK ==
    /\ users \in Seq(Account) /\ Len(users) <= MaxUsers
    /\ codes \in Seq(Code) /\ Len(codes) <= MaxCodes
    /\ fresh \in 0 .. MaxFresh
    /\ call \in [Callers -> AccountCall]
    /\ spent \subseteq 1 .. MaxCodes
    /\ accountsApart \in BOOLEAN

(***************************************************************************)
(* While calls do not overlap, and no reset died between its two updates,  *)
(* the password of an active account changes only by an update of its      *)
(* profile or by a reset code that has changed no password before:         *)
(* registering under a taken name or address never does (create,           *)
(* resetPassword).                                                         *)
(***************************************************************************)
PasswordKept ==
    [][ \A i \in DOMAIN users :
            accountsApart /\ users[i].active /\ users'[i].pass # users[i].pass
            => \/ users'[i].pass = Unhashed
               \/ \E c \in Callers : /\ CallAt(c, "password") /\ call[c].row = i
                                     /\ call[c].code \notin spent ]_accountVars

(***************************************************************************)
(* "Please click the link below to verify your email address": a link      *)
(* marks the account it was sent to, when that account holds its token and *)
(* no other call is in flight (verifyEmail).                               *)
(***************************************************************************)
LinkVerifiesItsAddress ==
    [][ \A c \in Callers, i \in DOMAIN users :
            /\ accountsApart /\ CallAt(c, "verify") /\ call' # call /\ users' # users
            /\ users[i].email = call[c].entity.email /\ users[i].token = call[c].entity.token
            => users'[i].verified ]_accountVars
=============================================================================
