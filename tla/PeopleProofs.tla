---------------------------- MODULE PeopleProofs ----------------------------
(***************************************************************************)
(* Proofs about UserAccounts, for any names, addresses, codes and calls,   *)
(* and about Seeder, for any users, totals and number of runs, each of     *)
(* which may die before any of its batches.                                *)
(*                                                                         *)
(* Accounts: the invariant has a part that every interleaving keeps and    *)
(* one that only calls one after the other do; then a call still finds     *)
(* what it read, and a code has changed a password only if it is used or   *)
(* about to be.                                                            *)
(*                                                                         *)
(* The seed command: what a batch may rely on is what the batches before   *)
(* it made up for, in this run or an earlier one.  SeederInv says so step  *)
(* by step: PeopleInv of the users, BondInv of friendships and requests,   *)
(* FiledInv of reports, and GroupInv of groups, of which GroupOk tells     *)
(* those that this run made and the test group from the rest.  What        *)
(* nothing makes up for is stated only while no run has died (WholeRows).  *)
(* Each batch that works on groups does the same to one group after        *)
(* another, so there is a lemma about what it makes of one group           *)
(* (TestChannelsOk, .., HistoriesOk), and GroupMoves and GroupFrame carry  *)
(* it over to all of them and to the rest of the state.                    *)
(***************************************************************************)
EXTENDS UserAccounts, Seeder, Sums, SequenceTheorems

-----------------------------------------------------------------------------
(* User accounts: the inductive invariant *)

\* What the row and the code of a call are, at every interleaving.
CallMeant(q) ==
    /\ q.pc \in {"overwrite", "verify", "save", "password", "use"} => q.row \in DOMAIN users
    /\ q.pc # "idle" => q.entity \in Account
    /\ q.pc \in {"password", "use"} => q.code \in DOMAIN codes

\* What a call that no other overlapped still finds: the row it overwrites is
\* inactive, the entity it saves has the row's password or one that matches
\* nothing, and the code it resets by has changed no password.
CallCurrent(q) ==
    /\ q.pc = "overwrite" => ~users[q.row].active
    /\ q.pc = "save" => q.entity.pass \in {users[q.row].pass, Unhashed}
    /\ q.pc = "password" => q.code \notin spent

\* A code that has changed a password is used, or about to be.
SpentIsUsed ==
    \A k \in spent : codes[k].used \/ \E c \in Callers : CallAt(c, "use") /\ call[c].code = k

CallsApart ==
    /\ \A c, d \in Callers : call[c] # NoCall /\ call[d] # NoCall => c = d
    /\ \A c \in Callers : CallCurrent(call[c])
    /\ SpentIsUsed

AccountsMeant ==
    /\ \A c \in Callers : CallMeant(call[c])
    /\ \A k \in DOMAIN codes : codes[k].user \in DOMAIN users
    /\ spent \subseteq DOMAIN codes

UserAccountsInv == UserAccountsTypeOK /\ AccountsMeant /\ (accountsApart => CallsApart)

-----------------------------------------------------------------------------
(* User accounts: the steps *)

LEMMA NoCallTyped == NoCall \in AccountCall /\ NoCall.pc = "idle"
    BY AccountBounds DEF NoCall, AccountCall

LEMMA AccountSeqs ==
    ASSUME UserAccountsTypeOK
    PROVE  /\ users \in Seq(Account) /\ Len(users) \in Nat /\ DOMAIN users = 1 .. Len(users)
           /\ codes \in Seq(Code) /\ Len(codes) \in Nat /\ DOMAIN codes = 1 .. Len(codes)
           /\ DOMAIN users \subseteq 1 .. MaxUsers /\ DOMAIN codes \subseteq 1 .. MaxCodes
           /\ \A i \in DOMAIN users : users[i] \in Account
           /\ \A k \in DOMAIN codes : codes[k] \in Code
    BY AccountBounds DEF UserAccountsTypeOK

\* A call that begins leaves the rows alone.
LEMMA BeginsKept ==
    ASSUME UserAccountsInv, NEW c \in Callers, NEW q \in AccountCall, Starts(c),
           call' = [call EXCEPT ![c] = q], UNCHANGED <<users, codes, spent>>, fresh' \in 0 .. MaxFresh,
           CallMeant(q), accountsApart' => CallCurrent(q)
    PROVE  UserAccountsInv'
<1>1. /\ call \in [Callers -> AccountCall] /\ accountsApart \in BOOLEAN
      /\ accountsApart' = (accountsApart /\ \A d \in Callers : call[d] = NoCall)
    BY DEF Starts, UserAccountsInv, UserAccountsTypeOK
<1>2. call' \in [Callers -> AccountCall] /\ call'[c] = q /\ \A d \in Callers \ {c} : call'[d] = call[d]
    BY <1>1
<1>3. accountsApart' \in BOOLEAN /\ (accountsApart' => accountsApart /\ \A d \in Callers : call[d] = NoCall)
    BY <1>1
<1>4. UserAccountsTypeOK'
    BY <1>2, <1>3 DEF UserAccountsInv, UserAccountsTypeOK
<1>5. \A d \in Callers : CallMeant(call[d])'
  <2>1. \A d \in Callers : CallMeant(call'[d])
    BY <1>2 DEF UserAccountsInv, AccountsMeant
  <2>2. QED
    BY <2>1 DEF CallMeant
<1>6. AccountsMeant'
    BY <1>5 DEF UserAccountsInv, AccountsMeant
<1>7. ASSUME accountsApart' PROVE CallsApart'
  <2>1. CallsApart /\ \A d \in Callers : call[d] = NoCall
    BY <1>3, <1>7 DEF UserAccountsInv
  <2>2. \A d, e \in Callers : call'[d] # NoCall /\ call'[e] # NoCall => d = e
    BY <1>2, <2>1
  <2>3. \A d \in Callers : CallCurrent(call'[d])
    BY <1>2, <1>7, <2>1 DEF CallsApart
  <2>4. \A d \in Callers : CallCurrent(call[d])'
    BY <2>3 DEF CallCurrent
  <2>5. SpentIsUsed'
    BY <2>1, NoCallTyped DEF CallsApart, SpentIsUsed, CallAt
  <2>6. QED
    BY <2>2, <2>4, <2>5 DEF CallsApart
<1>8. QED
    BY <1>4, <1>6, <1>7 DEF UserAccountsInv

\* A call that returns, with what it wrote.
LEMMA ReturnsKept ==
    ASSUME UserAccountsInv, NEW c \in Callers, Return(c), call[c] # NoCall, UNCHANGED <<fresh, spent>>,
           users' \in Seq(Account), Len(users') <= MaxUsers, DOMAIN users \subseteq DOMAIN users',
           codes' \in Seq(Code), Len(codes') <= MaxCodes, DOMAIN codes' = DOMAIN codes,
           \A k \in DOMAIN codes : codes'[k].user = codes[k].user,
           accountsApart' \in BOOLEAN, accountsApart' => accountsApart /\ \A k \in spent : codes'[k].used
    PROVE  UserAccountsInv'
<1>1. call' \in [Callers -> AccountCall] /\ call'[c] = NoCall /\ \A d \in Callers \ {c} : call'[d] = call[d]
    BY NoCallTyped DEF Return, UserAccountsInv, UserAccountsTypeOK
<1>2. UserAccountsTypeOK'
    BY <1>1 DEF UserAccountsInv, UserAccountsTypeOK
<1>3. \A d \in Callers : CallMeant(call[d])'
  <2>1. \A d \in Callers : CallMeant(call'[d])
    BY <1>1, NoCallTyped DEF UserAccountsInv, AccountsMeant, CallMeant
  <2>2. QED
    BY <2>1 DEF CallMeant
<1>4. AccountsMeant'
    BY <1>3 DEF UserAccountsInv, AccountsMeant
<1>5. ASSUME accountsApart' PROVE CallsApart'
  <2>1. \A d \in Callers : call'[d] = NoCall
    BY <1>1, <1>5 DEF UserAccountsInv, CallsApart
  <2>2. \A d \in Callers : CallCurrent(call[d])'
    BY <2>1, NoCallTyped DEF CallCurrent
  <2>3. SpentIsUsed'
    BY <1>5 DEF SpentIsUsed
  <2>4. QED
    BY <2>1, <2>2, <2>3 DEF CallsApart
<1>6. QED
    BY <1>2, <1>4, <1>5 DEF UserAccountsInv

\* A save that changes nothing of the codes.
LEMMA ReturnsRows ==
    ASSUME UserAccountsInv, NEW c \in Callers, Return(c), call[c].pc \notin {"idle", "use"},
           UNCHANGED <<codes, fresh, spent>>, Same,
           users' \in Seq(Account), Len(users') <= MaxUsers, DOMAIN users \subseteq DOMAIN users'
    PROVE  UserAccountsInv'
<1>1. UserAccountsTypeOK /\ call[c] # NoCall
    BY NoCallTyped DEF UserAccountsInv
<1>2. accountsApart' = accountsApart /\ accountsApart \in BOOLEAN
    BY <1>1 DEF Same, UserAccountsTypeOK
<1>3. ASSUME accountsApart, NEW k \in spent PROVE codes[k].used
    BY <1>1, <1>3, NoCallTyped DEF UserAccountsInv, CallsApart, SpentIsUsed, CallAt
<1>4. QED
    BY <1>1, <1>2, <1>3, ReturnsKept DEF UserAccountsTypeOK

LEMMA RowSaved ==
    ASSUME users \in Seq(Account), NEW i \in DOMAIN users, NEW a \in Account, SaveRow(i, a)
    PROVE  /\ users' \in Seq(Account) /\ Len(users') = Len(users) /\ DOMAIN users' = DOMAIN users
           /\ users'[i] \in {users[i], a} /\ \A j \in DOMAIN users \ {i} : users'[j] = users[j]
<1>1. CASE IsFree(i, a)
  <2>1. users' = [users EXCEPT ![i] = a]
    BY <1>1 DEF SaveRow
  <2>2. users' \in Seq(Account) /\ Len(users') = Len(users)
    BY <2>1, ExceptSeq
  <2>3. QED
    BY <2>1, <2>2
<1>2. CASE ~IsFree(i, a)
    BY <1>2 DEF SaveRow
<1>3. QED
    BY <1>1, <1>2

\* What a call that begins holds: a new row, or one it has read and changed.
LEMMA BeginsWith ==
    ASSUME UserAccountsInv, NEW c \in Callers, Starts(c), UNCHANGED <<users, codes, spent>>, fresh' \in 0 .. MaxFresh,
           NEW pc \in {"create", "verify", "save", "password"}, NEW row, NEW a \in Account, NEW code,
           Hangs(c, pc, row, a, code),
           (pc = "create" /\ row = 0) \/ row \in DOMAIN users,
           (pc # "password" /\ code = 0) \/ code \in DOMAIN codes,
           pc = "save" => a.pass \in {users[row].pass, Unhashed},
           accountsApart' /\ pc = "password" => code \notin spent
    PROVE  UserAccountsInv'
<1> DEFINE q == [pc |-> pc, row |-> row, entity |-> a, code |-> code]
<1>1. q \in AccountCall /\ q.pc = pc /\ q.row = row /\ q.entity = a /\ q.code = code
    BY AccountSeqs, AccountBounds DEF AccountCall, UserAccountsInv
<1>2. call' = [call EXCEPT ![c] = q]
    BY DEF Hangs
<1> HIDE DEF q
<1>3. CallMeant(q) /\ (accountsApart' => CallCurrent(q))
    BY <1>1 DEF CallMeant, CallCurrent
<1>4. QED
    BY <1>1, <1>2, <1>3, BeginsKept

LEMMA NewAccountsKept ==
    ASSUME UserAccountsInv, NEW c \in Callers, Register(c) \/ LoginProvider(c)
    PROVE  UserAccountsInv'
<1>1. PICK n \in Usernames, e \in Emails, p \in Passwords, v \in BOOLEAN :
          Starts(c) /\ Hangs(c, "create", 0, NewAccount(n, e, p, v), 0)
          /\ UNCHANGED <<users, codes, fresh, spent>>
    BY DEF Register, LoginProvider
<1>2. NewAccount(n, e, p, v) \in Account
    BY AccountBounds DEF NewAccount, Account, VerificationTokens, EmailToken
<1>3. fresh' \in 0 .. MaxFresh
    BY <1>1 DEF UserAccountsInv, UserAccountsTypeOK
<1>4. QED
    BY <1>1, <1>2, <1>3, BeginsWith

LEMMA AccountCreateKept ==
    ASSUME UserAccountsInv, NEW c \in Callers, Create(c)
    PROVE  UserAccountsInv'
<1> DEFINE new == call[c].entity
<1>1. /\ call \in [Callers -> AccountCall] /\ users \in Seq(Account) /\ codes \in Seq(Code)
      /\ Len(users) <= MaxUsers /\ Len(codes) <= MaxCodes
      /\ call[c].pc = "create" /\ new \in Account
      /\ UNCHANGED <<users, codes, fresh, spent, accountsApart>>
    BY DEF Create, CallAt, Same, UserAccountsInv, UserAccountsTypeOK, AccountsMeant, CallMeant
<1>2. CASE Return(c)
    BY <1>1, <1>2, ReturnsRows DEF Same
<1>3. CASE \/ CallGoto(c, "insert")
           \/ \E i \in DOMAIN users : ~users[i].active /\ Hangs(c, "overwrite", i, new, 0)
  <2>1. PICK q : /\ q \in AccountCall /\ call' = [call EXCEPT ![c] = q] /\ q.entity = new
                 /\ \/ q.pc = "insert"
                    \/ q.pc = "overwrite" /\ q.row \in DOMAIN users /\ ~users[q.row].active
    <3>1. CASE CallGoto(c, "insert")
      <4> DEFINE q == [call[c] EXCEPT !.pc = "insert"]
      <4>1. q \in AccountCall /\ q.entity = new /\ q.pc = "insert"
        BY <1>1 DEF AccountCall
      <4>2. call' = [call EXCEPT ![c] = q]
        BY <3>1 DEF CallGoto
      <4> HIDE DEF q
      <4>3. QED
        BY <4>1, <4>2
    <3>2. CASE \E i \in DOMAIN users : ~users[i].active /\ Hangs(c, "overwrite", i, new, 0)
      <4>1. PICK i \in DOMAIN users : ~users[i].active /\ Hangs(c, "overwrite", i, new, 0)
        BY <3>2
      <4> DEFINE q == [pc |-> "overwrite", row |-> i, entity |-> new, code |-> 0]
      <4>2. q \in AccountCall /\ q.entity = new /\ q.pc = "overwrite" /\ q.row = i
        BY <1>1, AccountSeqs, AccountBounds DEF AccountCall, UserAccountsInv
      <4>3. call' = [call EXCEPT ![c] = q]
        BY <4>1 DEF Hangs
      <4> HIDE DEF q
      <4>4. QED
        BY <4>1, <4>2, <4>3
    <3>3. QED
      BY <1>3, <3>1, <3>2
  <2>2. call' \in [Callers -> AccountCall] /\ call'[c] = q /\ \A d \in Callers \ {c} : call'[d] = call[d]
    BY <1>1, <2>1
  <2>3. UserAccountsTypeOK'
    BY <1>1, <2>2 DEF UserAccountsInv, UserAccountsTypeOK
  <2>4. \A d \in Callers : CallMeant(call'[d])
    BY <1>1, <2>1, <2>2 DEF UserAccountsInv, AccountsMeant, CallMeant
  <2>5. \A d \in Callers : CallMeant(call[d])'
    BY <1>1, <2>4 DEF CallMeant
  <2>6. AccountsMeant'
    BY <1>1, <2>5 DEF UserAccountsInv, AccountsMeant
  <2>7. ASSUME accountsApart PROVE CallsApart'
    <3>1. CallsApart /\ \A d \in Callers \ {c} : call[d] = NoCall
      BY <1>1, <2>7, NoCallTyped DEF UserAccountsInv, CallsApart
    <3>2. \A d, e \in Callers : call'[d] # NoCall /\ call'[e] # NoCall => d = e
      BY <2>2, <3>1
    <3>3. \A d \in Callers : CallCurrent(call'[d])
      BY <2>1, <2>2, <3>1 DEF CallsApart, CallCurrent
    <3>4. \A d \in Callers : CallCurrent(call[d])'
      BY <1>1, <3>3 DEF CallCurrent
    <3>5. SpentIsUsed'
      BY <1>1, <2>2, <3>1 DEF CallsApart, SpentIsUsed, CallAt
    <3>6. QED
      BY <3>2, <3>4, <3>5 DEF CallsApart
  <2>8. QED
    BY <1>1, <2>3, <2>6, <2>7 DEF UserAccountsInv
<1>4. QED
    BY <1>2, <1>3 DEF Create

LEMMA SavesKept ==
    ASSUME UserAccountsInv, NEW c \in Callers, Overwrite(c) \/ SaveEntity(c)
    PROVE  UserAccountsInv'
<1>1. /\ call[c].pc \in {"overwrite", "save"} /\ SaveRow(call[c].row, call[c].entity) /\ Return(c)
      /\ UNCHANGED <<codes, fresh, spent>> /\ Same
    BY DEF Overwrite, SaveEntity, CallAt
<1>2. /\ users \in Seq(Account) /\ Len(users) <= MaxUsers
      /\ call[c].row \in DOMAIN users /\ call[c].entity \in Account
    BY <1>1 DEF UserAccountsInv, UserAccountsTypeOK, AccountsMeant, CallMeant
<1>3. users' \in Seq(Account) /\ Len(users') = Len(users) /\ DOMAIN users' = DOMAIN users
    BY <1>1, <1>2, RowSaved
<1>4. QED
    BY <1>1, <1>2, <1>3, ReturnsRows

LEMMA AccountInsertKept ==
    ASSUME UserAccountsInv, NEW c \in Callers, Insert(c)
    PROVE  UserAccountsInv'
<1>1. /\ call[c].pc = "insert" /\ Return(c) /\ UNCHANGED <<codes, fresh, spent>> /\ Same
      /\ Len(users) < MaxUsers
      /\ users' = users \/ users' = Append(users, call[c].entity)
    BY DEF Insert, CallAt
<1>2. users \in Seq(Account) /\ call[c].entity \in Account /\ Len(users) \in Nat /\ DOMAIN users = 1 .. Len(users)
    BY <1>1, AccountSeqs DEF UserAccountsInv, AccountsMeant, CallMeant
<1>3. users' \in Seq(Account) /\ Len(users') <= MaxUsers /\ DOMAIN users \subseteq DOMAIN users'
  <2>1. CASE users' = users
    BY <1>1, <1>2, <2>1, AccountBounds
  <2>2. CASE users' = Append(users, call[c].entity)
    <3>1. users' \in Seq(Account) /\ Len(users') = Len(users) + 1
      BY <1>2, <2>2, AppendProperties
    <3>2. DOMAIN users' = 1 .. Len(users) + 1
      BY <3>1
    <3>3. QED
      BY <1>1, <1>2, <3>1, <3>2, AccountBounds
  <2>3. QED
    BY <1>1, <2>1, <2>2
<1>4. QED
    BY <1>1, <1>3, ReturnsRows

\* The link, the resend, the update of a profile, a ban lifted or set by an
\* administrator, and a reset begin with the row they read.
LEMMA ReadsKept ==
    ASSUME UserAccountsInv, NEW c \in Callers,
           VerifyEmail(c) \/ ResendVerificationEmail(c) \/ UpdateUser(c) \/ SetActive(c) \/ ResetPassword(c)
    PROVE  UserAccountsInv'
<1>1. /\ \A i \in DOMAIN users : users[i] \in Account
      /\ fresh \in 0 .. MaxFresh /\ MaxFresh \in Nat
    BY AccountSeqs, AccountBounds DEF UserAccountsInv, UserAccountsTypeOK
<1>2. CASE VerifyEmail(c)
  <2>1. PICK e \in Emails, i \in DOMAIN users : Hangs(c, "verify", i, [users[i] EXCEPT !.email = e], 0)
    BY <1>2 DEF VerifyEmail
  <2>2. [users[i] EXCEPT !.email = e] \in Account
    BY <1>1 DEF Account
  <2>3. Starts(c) /\ UNCHANGED <<users, codes, fresh, spent>>
    BY <1>2 DEF VerifyEmail
  <2>4. QED
    BY <1>1, <2>1, <2>2, <2>3, BeginsWith
<1>3. CASE ResendVerificationEmail(c)
  <2>1. PICK i \in DOMAIN users : Hangs(c, "save", i, [users[i] EXCEPT !.token = fresh + 1], 0)
    BY <1>3 DEF ResendVerificationEmail
  <2>2. Starts(c) /\ UNCHANGED <<users, codes, spent>> /\ fresh' = fresh + 1 /\ fresh < MaxFresh
    BY <1>3 DEF ResendVerificationEmail
  <2> DEFINE a == [users[i] EXCEPT !.token = fresh + 1]
  <2>3. a \in Account /\ a.pass = users[i].pass
    BY <1>1, <2>2 DEF Account, VerificationTokens, EmailToken
  <2>4. fresh' \in 0 .. MaxFresh
    BY <1>1, <2>2
  <2> HIDE DEF a
  <2>5. Hangs(c, "save", i, a, 0)
    BY <2>1 DEF a
  <2>6. QED
    BY <2>2, <2>3, <2>4, <2>5, BeginsWith
<1>4. ASSUME NEW i \in DOMAIN users, NEW a \in Account, a.pass \in {users[i].pass, Unhashed},
             Hangs(c, "save", i, a, 0), Starts(c), UNCHANGED <<users, codes, fresh, spent>>
      PROVE  UserAccountsInv'
    BY <1>1, <1>4, BeginsWith
<1>5. CASE UpdateUser(c)
  <2>1. Starts(c) /\ UNCHANGED <<users, codes, fresh, spent>>
    BY <1>5 DEF UpdateUser
  <2>2. PICK i \in DOMAIN users :
            \/ \E n \in Usernames : Hangs(c, "save", i, [users[i] EXCEPT !.name = n], 0)
            \/ \E e \in Emails : Hangs(c, "save", i, [users[i] EXCEPT !.email = e], 0)
            \/ Hangs(c, "save", i, [users[i] EXCEPT !.pass = Unhashed], 0)
    BY <1>5 DEF UpdateUser
  <2>3. \A n \in Usernames : LET a == [users[i] EXCEPT !.name = n] IN a \in Account /\ a.pass = users[i].pass
    BY <1>1 DEF Account
  <2>4. \A e \in Emails : LET a == [users[i] EXCEPT !.email = e] IN a \in Account /\ a.pass = users[i].pass
    BY <1>1 DEF Account
  <2>5. LET a == [users[i] EXCEPT !.pass = Unhashed] IN a \in Account /\ a.pass = Unhashed
    BY <1>1 DEF Account
  <2>6. QED
    BY <1>4, <2>1, <2>2, <2>3, <2>4, <2>5
<1>6. CASE SetActive(c)
  <2>1. Starts(c) /\ UNCHANGED <<users, codes, fresh, spent>>
    BY <1>6 DEF SetActive
  <2>2. PICK i \in DOMAIN users, b \in BOOLEAN : Hangs(c, "save", i, [users[i] EXCEPT !.active = b], 0)
    BY <1>6 DEF SetActive
  <2>3. LET a == [users[i] EXCEPT !.active = b] IN a \in Account /\ a.pass = users[i].pass
    BY <1>1 DEF Account
  <2>4. QED
    BY <1>4, <2>1, <2>2, <2>3
<1>7. CASE ResetPassword(c)
  <2>1. Starts(c) /\ UNCHANGED <<users, codes, fresh, spent>>
    BY <1>7 DEF ResetPassword
  <2>2. PICK k \in DOMAIN codes, p \in Passwords :
            /\ ~codes[k].used
            /\ Hangs(c, "password", codes[k].user, [users[codes[k].user] EXCEPT !.pass = p], k)
    BY <1>7 DEF ResetPassword
  <2>3. codes[k].user \in DOMAIN users
    BY DEF UserAccountsInv, AccountsMeant
  <2>4. [users[codes[k].user] EXCEPT !.pass = p] \in Account
    BY <1>1, <2>3 DEF Account
  <2>5. accountsApart' => k \notin spent
    BY <2>1, <2>2, NoCallTyped DEF Starts, UserAccountsInv, CallsApart, SpentIsUsed, CallAt
  <2>6. QED
    BY <1>1, <2>1, <2>2, <2>3, <2>4, <2>5, BeginsWith
<1>8. QED
    BY <1>2, <1>3, <1>5, <1>6, <1>7

LEMMA MarkKept ==
    ASSUME UserAccountsInv, NEW c \in Callers, MarkEmailAsVerified(c)
    PROVE  UserAccountsInv' /\ \A i \in DOMAIN users : users'[i].pass = users[i].pass
<1> DEFINE i == call[c].row
           a == [users[i] EXCEPT !.verified = TRUE, !.active = TRUE]
<1>1. /\ call[c].pc = "verify" /\ Return(c) /\ UNCHANGED <<codes, fresh, spent>> /\ Same
    BY DEF MarkEmailAsVerified, CallAt
<1>2. i \in DOMAIN users /\ users \in Seq(Account) /\ Len(users) <= MaxUsers /\ users[i] \in Account
    BY <1>1, AccountSeqs DEF UserAccountsInv, UserAccountsTypeOK, AccountsMeant, CallMeant
<1>3. a \in Account /\ a.pass = users[i].pass
    BY <1>2 DEF Account
<1>4. users' = [users EXCEPT ![i] = a]
    BY <1>2 DEF MarkEmailAsVerified
<1> HIDE DEF a
<1>5. users' \in Seq(Account) /\ Len(users') = Len(users)
    BY <1>2, <1>3, <1>4, ExceptSeq
<1>6. DOMAIN users' = DOMAIN users /\ \A j \in DOMAIN users : users'[j].pass = users[j].pass
    BY <1>2, <1>3, <1>4
<1>7. QED
    BY <1>1, <1>2, <1>5, <1>6, ReturnsRows

LEMMA BanKept ==
    ASSUME UserAccountsInv, Ban
    PROVE  UserAccountsInv' /\ \A i \in DOMAIN users : users'[i].pass = users[i].pass
<1>1. PICK i \in DOMAIN users :
          /\ users' = [users EXCEPT ![i].active = FALSE]
          /\ UNCHANGED <<codes, fresh, call, spent>>
          /\ accountsApart' = (accountsApart /\ \A d \in Callers : call[d] = NoCall)
    BY DEF Ban
<1> DEFINE a == [users[i] EXCEPT !.active = FALSE]
<1>2. users \in Seq(Account) /\ Len(users) <= MaxUsers /\ users[i] \in Account /\ accountsApart \in BOOLEAN
    BY AccountSeqs DEF UserAccountsInv, UserAccountsTypeOK
<1>3. a \in Account /\ a.pass = users[i].pass
    BY <1>2 DEF Account
<1>4. users' = [users EXCEPT ![i] = a]
    BY <1>1
<1> HIDE DEF a
<1>5. users' \in Seq(Account) /\ Len(users') = Len(users)
    BY <1>2, <1>3, <1>4, ExceptSeq
<1>6. DOMAIN users' = DOMAIN users /\ \A j \in DOMAIN users : users'[j].pass = users[j].pass
    BY <1>2, <1>3, <1>4
<1>7. UserAccountsTypeOK'
    BY <1>1, <1>2, <1>5 DEF UserAccountsInv, UserAccountsTypeOK
<1>8. AccountsMeant'
    BY <1>1, <1>6 DEF UserAccountsInv, AccountsMeant, CallMeant
<1>9. ASSUME accountsApart' PROVE CallsApart'
  <2>1. CallsApart /\ \A d \in Callers : call[d] = NoCall
    BY <1>1, <1>9 DEF UserAccountsInv
  <2>2. QED
    BY <1>1, <2>1, NoCallTyped DEF CallsApart, CallCurrent, SpentIsUsed, CallAt
<1>10. QED
    BY <1>6, <1>7, <1>8, <1>9 DEF UserAccountsInv

LEMMA SendCodeKept ==
    ASSUME UserAccountsInv, SendResetCode
    PROVE  UserAccountsInv' /\ UNCHANGED users
<1>1. PICK i \in DOMAIN users :
          /\ Len(codes) < MaxCodes /\ codes' = Append(codes, [user |-> i, used |-> FALSE])
          /\ UNCHANGED <<users, fresh, call, spent, accountsApart>>
    BY DEF SendResetCode
<1> DEFINE new == [user |-> i, used |-> FALSE]
<1>2. /\ codes \in Seq(Code) /\ Len(codes) \in Nat /\ DOMAIN codes = 1 .. Len(codes)
      /\ \A k \in DOMAIN codes : codes[k].user \in DOMAIN users
    BY AccountSeqs DEF UserAccountsInv, AccountsMeant
<1>3. new \in Code /\ new.user = i
    BY AccountSeqs DEF Code, UserAccountsInv
<1> HIDE DEF new
<1>4. codes' = Append(codes, new)
    BY <1>1 DEF new
<1>5. /\ codes' \in Seq(Code) /\ Len(codes') = Len(codes) + 1
      /\ codes'[Len(codes) + 1] = new /\ \A k \in 1 .. Len(codes) : codes'[k] = codes[k]
    BY <1>2, <1>3, <1>4, AppendProperties
<1>6. DOMAIN codes' = 1 .. Len(codes) + 1
    BY <1>5
<1>7. DOMAIN codes \subseteq DOMAIN codes' /\ \A k \in DOMAIN codes : codes'[k] = codes[k]
    BY <1>2, <1>5, <1>6
<1>8. \A k \in DOMAIN codes' : codes'[k].user \in DOMAIN users
    BY <1>2, <1>3, <1>5, <1>6
<1>9. UserAccountsTypeOK'
    BY <1>1, <1>2, <1>5, AccountBounds DEF UserAccountsInv, UserAccountsTypeOK
<1>10. AccountsMeant'
    BY <1>1, <1>7, <1>8 DEF UserAccountsInv, AccountsMeant, CallMeant
<1>11. ASSUME accountsApart PROVE CallsApart'
  <2>1. CallsApart /\ spent \subseteq DOMAIN codes
    BY <1>11 DEF UserAccountsInv, AccountsMeant
  <2>2. SpentIsUsed'
    BY <1>1, <1>7, <2>1 DEF CallsApart, SpentIsUsed, CallAt
  <2>3. QED
    BY <1>1, <2>1, <2>2 DEF CallsApart, CallCurrent
<1>12. QED
    BY <1>1, <1>9, <1>10, <1>11 DEF UserAccountsInv

LEMMA SetPasswordKept ==
    ASSUME UserAccountsInv, NEW c \in Callers, SetPassword(c)
    PROVE  UserAccountsInv' /\ \A i \in DOMAIN users : i # call[c].row => users'[i] = users[i]
<1> DEFINE i == call[c].row
           a == [users[i] EXCEPT !.pass = call[c].entity.pass]
           q == [call[c] EXCEPT !.pc = "use"]
<1>1. /\ call[c].pc = "password" /\ UNCHANGED <<codes, fresh, accountsApart>>
      /\ spent' = spent \cup {call[c].code}
    BY DEF SetPassword, CallAt, Same
<1>2. /\ i \in DOMAIN users /\ users \in Seq(Account) /\ Len(users) <= MaxUsers /\ users[i] \in Account
      /\ call[c].entity \in Account /\ call[c].code \in DOMAIN codes
      /\ call \in [Callers -> AccountCall] /\ call[c] \in AccountCall
    BY <1>1, AccountSeqs DEF UserAccountsInv, UserAccountsTypeOK, AccountsMeant, CallMeant
<1>3. a \in Account
    BY <1>2 DEF Account
<1>4. q \in AccountCall /\ q.pc = "use" /\ q.row = i /\ q.entity = call[c].entity /\ q.code = call[c].code
    BY <1>2 DEF AccountCall
<1>5. users' = [users EXCEPT ![i] = a] /\ call' = [call EXCEPT ![c] = q]
    BY DEF SetPassword, CallGoto
<1> HIDE DEF a, q
<1>6. users' \in Seq(Account) /\ Len(users') = Len(users)
    BY <1>2, <1>3, <1>5, ExceptSeq
<1>7. DOMAIN users' = DOMAIN users /\ \A j \in DOMAIN users : j # i => users'[j] = users[j]
    BY <1>2, <1>5
<1>8. call' \in [Callers -> AccountCall] /\ call'[c] = q /\ \A d \in Callers \ {c} : call'[d] = call[d]
    BY <1>2, <1>4, <1>5
<1>9. UserAccountsTypeOK'
  <2>1. call[c].code \in 1 .. MaxCodes
    BY <1>2, AccountSeqs DEF UserAccountsInv
  <2>2. QED
    BY <1>1, <1>2, <1>6, <1>8, <2>1 DEF UserAccountsInv, UserAccountsTypeOK
<1>10. AccountsMeant'
  <2>1. \A d \in Callers : CallMeant(call'[d])
    BY <1>1, <1>2, <1>4, <1>8 DEF UserAccountsInv, AccountsMeant, CallMeant
  <2>2. \A d \in Callers : CallMeant(call[d])'
    BY <1>1, <1>7, <2>1 DEF CallMeant
  <2>3. QED
    BY <1>1, <1>2, <1>7, <2>2 DEF UserAccountsInv, AccountsMeant
<1>11. ASSUME accountsApart PROVE CallsApart'
  <2>1. CallsApart /\ \A d \in Callers \ {c} : call[d] = NoCall
    BY <1>1, <1>11, NoCallTyped DEF UserAccountsInv, CallsApart
  <2>2. \A d, e \in Callers : call'[d] # NoCall /\ call'[e] # NoCall => d = e
    BY <1>8, <2>1
  <2>3. \A d \in Callers : CallCurrent(call[d])'
    BY <1>4, <1>8, <2>1, NoCallTyped DEF CallCurrent
  <2>4. \A k \in spent : codes[k].used
    BY <1>1, <2>1, NoCallTyped DEF CallsApart, SpentIsUsed, CallAt
  <2>5. SpentIsUsed'
    BY <1>1, <1>4, <1>8, <2>4 DEF SpentIsUsed, CallAt
  <2>6. QED
    BY <2>2, <2>3, <2>5 DEF CallsApart
<1>12. QED
    BY <1>1, <1>7, <1>9, <1>10, <1>11 DEF UserAccountsInv

LEMMA UseCodeKept ==
    ASSUME UserAccountsInv, NEW c \in Callers, UseCode(c)
    PROVE  UserAccountsInv'
<1> DEFINE k == call[c].code
           new == [codes[k] EXCEPT !.used = TRUE]
<1>1. call[c].pc = "use" /\ Return(c) /\ UNCHANGED <<users, fresh, spent, accountsApart>>
    BY DEF UseCode, CallAt, Same
<1>2. /\ k \in DOMAIN codes /\ codes \in Seq(Code) /\ Len(codes) <= MaxCodes /\ codes[k] \in Code
      /\ accountsApart \in BOOLEAN /\ users \in Seq(Account) /\ Len(users) <= MaxUsers
    BY <1>1, AccountSeqs DEF UserAccountsInv, UserAccountsTypeOK, AccountsMeant, CallMeant
<1>3. new \in Code /\ new.used /\ new.user = codes[k].user
    BY <1>2 DEF Code
<1>4. codes' = [codes EXCEPT ![k] = new]
    BY DEF UseCode
<1> HIDE DEF new
<1>5. codes' \in Seq(Code) /\ Len(codes') = Len(codes)
    BY <1>2, <1>3, <1>4, ExceptSeq
<1>6. /\ DOMAIN codes' = DOMAIN codes /\ codes'[k].used
      /\ \A j \in DOMAIN codes : codes'[j].user = codes[j].user
      /\ \A j \in DOMAIN codes : j # k => codes'[j] = codes[j]
    BY <1>2, <1>3, <1>4
<1>7. ASSUME accountsApart, NEW j \in spent PROVE codes'[j].used
  <2>1. j \in DOMAIN codes /\ (codes[j].used \/ \E d \in Callers : CallAt(d, "use") /\ call[d].code = j)
    BY <1>7 DEF UserAccountsInv, AccountsMeant, CallsApart, SpentIsUsed
  <2>2. \A d \in Callers : CallAt(d, "use") => d = c
    BY <1>1, <1>7, NoCallTyped DEF UserAccountsInv, CallsApart, CallAt
  <2>3. QED
    BY <1>6, <2>1, <2>2
<1>8. QED
    BY <1>1, <1>2, <1>5, <1>6, <1>7, NoCallTyped, ReturnsKept

LEMMA CallDiesKept ==
    ASSUME UserAccountsInv, NEW c \in Callers, CallDies(c)
    PROVE  UserAccountsInv'
<1>1. /\ call[c] # NoCall /\ Return(c) /\ UNCHANGED <<users, codes, fresh, spent>>
      /\ accountsApart' = (accountsApart /\ ~CallAt(c, "use"))
    BY DEF CallDies
<1>2. /\ accountsApart \in BOOLEAN /\ users \in Seq(Account) /\ Len(users) <= MaxUsers
      /\ codes \in Seq(Code) /\ Len(codes) <= MaxCodes
    BY DEF UserAccountsInv, UserAccountsTypeOK
<1>3. accountsApart' \in BOOLEAN /\ (accountsApart' => accountsApart /\ ~CallAt(c, "use"))
    BY <1>1, <1>2
<1>4. ASSUME accountsApart', NEW k \in spent PROVE codes[k].used
    BY <1>1, <1>3, <1>4, NoCallTyped DEF UserAccountsInv, CallsApart, SpentIsUsed, CallAt
<1>5. QED
    BY <1>1, <1>2, <1>3, <1>4, ReturnsKept

LEMMA UserAccountsKept ==
    ASSUME UserAccountsInv, [UserAccountsNext]_accountVars
    PROVE  UserAccountsInv'
<1>1. CASE UNCHANGED accountVars
    BY <1>1 DEF accountVars, UserAccountsInv, UserAccountsTypeOK, AccountsMeant, CallsApart, CallMeant,
                CallCurrent, SpentIsUsed, CallAt
<1>2. CASE Ban \/ SendResetCode
    BY <1>2, BanKept, SendCodeKept
<1>3. ASSUME NEW c \in Callers,
             \/ Register(c) \/ LoginProvider(c) \/ Create(c) \/ Overwrite(c) \/ Insert(c)
             \/ VerifyEmail(c) \/ MarkEmailAsVerified(c) \/ ResendVerificationEmail(c)
             \/ UpdateUser(c) \/ SetActive(c) \/ SaveEntity(c)
             \/ ResetPassword(c) \/ SetPassword(c) \/ UseCode(c) \/ CallDies(c)
      PROVE  UserAccountsInv'
  <2>1. CASE Register(c) \/ LoginProvider(c)
    BY <2>1, NewAccountsKept
  <2>2. CASE Create(c)
    BY <2>2, AccountCreateKept
  <2>3. CASE Overwrite(c) \/ SaveEntity(c)
    BY <2>3, SavesKept
  <2>4. CASE Insert(c)
    BY <2>4, AccountInsertKept
  <2>5. CASE VerifyEmail(c) \/ ResendVerificationEmail(c) \/ UpdateUser(c) \/ SetActive(c) \/ ResetPassword(c)
    BY <2>5, ReadsKept
  <2>6. CASE MarkEmailAsVerified(c)
    BY <2>6, MarkKept
  <2>7. CASE SetPassword(c)
    BY <2>7, SetPasswordKept
  <2>8. CASE UseCode(c)
    BY <2>8, UseCodeKept
  <2>9. CASE CallDies(c)
    BY <2>9, CallDiesKept
  <2>10. QED
    BY <1>3, <2>1, <2>2, <2>3, <2>4, <2>5, <2>6, <2>7, <2>8, <2>9
<1>4. QED
    BY <1>1, <1>2, <1>3 DEF UserAccountsNext

LEMMA UserAccountsInitially == UserAccountsInit => UserAccountsInv
<1>1. ASSUME UserAccountsInit PROVE UserAccountsTypeOK
    BY <1>1, AccountBounds, NoCallTyped DEF UserAccountsInit, UserAccountsTypeOK
<1>2. ASSUME UserAccountsInit PROVE AccountsMeant /\ CallsApart
    BY <1>2, NoCallTyped DEF UserAccountsInit, AccountsMeant, CallsApart, CallMeant, CallCurrent, SpentIsUsed
<1>3. QED
    BY <1>1, <1>2 DEF UserAccountsInv

\* A call holds a row and a code that exist, and as long as no two calls overlap
\* what it read is still so.
THEOREM UserAccountsInductive == UserAccountsSpec => []UserAccountsInv
    BY UserAccountsInitially, UserAccountsKept, PTL DEF UserAccountsSpec

\* The rows, the reset codes and the calls in flight keep their shape.
THEOREM UserAccountsTypes == UserAccountsSpec => []UserAccountsTypeOK
<1>1. UserAccountsInv => UserAccountsTypeOK
    BY DEF UserAccountsInv
<1>2. QED
    BY <1>1, UserAccountsInductive, PTL

-----------------------------------------------------------------------------
(* User accounts: passwords *)

\* Who may change the password of row i, from what the step began with.
ResetsRow(i) ==
    \E c \in Callers : CallAt(c, "password") /\ call[c].row = i /\ call[c].code \notin spent

LEMMA PasswordStep ==
    ASSUME UserAccountsInv, [UserAccountsNext]_accountVars, NEW i \in DOMAIN users,
           accountsApart, users[i].active, users'[i].pass # users[i].pass
    PROVE  users'[i].pass = Unhashed \/ ResetsRow(i)
<1>1. users' # users
    OBVIOUS
<1>2. ~(Ban \/ SendResetCode)
    BY <1>1, BanKept, SendCodeKept
<1>3. PICK c \in Callers :
          \/ Overwrite(c) \/ Insert(c) \/ MarkEmailAsVerified(c) \/ SaveEntity(c) \/ SetPassword(c)
    BY <1>1, <1>2 DEF UserAccountsNext, accountVars, Register, LoginProvider, Create, VerifyEmail,
                      ResendVerificationEmail, UpdateUser, SetActive, ResetPassword, UseCode, CallDies
<1>4. /\ users \in Seq(Account) /\ DOMAIN users = 1 .. Len(users) /\ Len(users) \in Nat
      /\ CallMeant(call[c]) /\ CallCurrent(call[c])
    BY AccountSeqs DEF UserAccountsInv, AccountsMeant, CallsApart
<1>5. CASE Overwrite(c) \/ SaveEntity(c)
  <2>1. /\ call[c].pc \in {"overwrite", "save"} /\ SaveRow(call[c].row, call[c].entity)
        /\ call[c].pc = "overwrite" => ~users[call[c].row].active
        /\ call[c].pc = "save" => call[c].entity.pass \in {users[call[c].row].pass, Unhashed}
        /\ call[c].row \in DOMAIN users /\ call[c].entity \in Account
    BY <1>4, <1>5 DEF Overwrite, SaveEntity, CallAt, CallCurrent, CallMeant
  <2>2. /\ users'[call[c].row] \in {users[call[c].row], call[c].entity}
        /\ \A j \in DOMAIN users \ {call[c].row} : users'[j] = users[j]
    BY SMTT(30), <1>4, <2>1, RowSaved
  <2>3. QED
    BY <2>1, <2>2
<1>6. CASE Insert(c)
  <2>1. users' = Append(users, call[c].entity) /\ call[c].entity \in Account
    BY <1>1, <1>4, <1>6 DEF Insert, CallAt, CallMeant
  <2>2. users'[i] = users[i]
    BY <1>4, <2>1, AppendProperties
  <2>3. QED
    BY <2>2
<1>7. CASE MarkEmailAsVerified(c)
    BY <1>7, MarkKept
<1>8. CASE SetPassword(c)
  <2>1. i = call[c].row
    BY <1>8, SetPasswordKept
  <2>2. CallAt(c, "password") /\ call[c].code \notin spent
    BY <1>4, <1>8 DEF SetPassword, CallAt, CallCurrent
  <2>3. QED
    BY <2>1, <2>2 DEF ResetsRow
<1>9. QED
    BY <1>3, <1>5, <1>6, <1>7, <1>8

\* As long as calls do not overlap, only an update of the profile and a code that
\* has changed no password yet change the password of an active account: a
\* registration under its name or address never does (create, resetPassword).
THEOREM PasswordIsKept == UserAccountsSpec => PasswordKept
<1>1. UserAccountsInv /\ [UserAccountsNext]_accountVars =>
          [ \A i \in DOMAIN users :
                accountsApart /\ users[i].active /\ users'[i].pass # users[i].pass
                => \/ users'[i].pass = Unhashed
                   \/ \E c \in Callers : /\ CallAt(c, "password") /\ call[c].row = i
                                         /\ call[c].code \notin spent ]_accountVars
    BY PasswordStep DEF ResetsRow
<1>2. QED
    BY <1>1, UserAccountsInductive, PTL DEF UserAccountsSpec, PasswordKept

-----------------------------------------------------------------------------
(* The seed command: the inductive invariant *)

Req == Range(RequiredUsers)

\* The steps up to the batch that saves the last required user (Early), makes
\* up the users (NotPeopled), connects the required users (NotBonded), and so on.
Early == {"off", "languages", "categories", "required"}
NotPeopled == Early \cup {"users"}
NotBonded == NotPeopled \cup {"userLanguages", "friends", "requests", "connect"}
NotTested == NotBonded \cup {"testGroup"}
NoTestMembers == NotTested \cup {"testMembers"}
NoTestChannels == NoTestMembers \cup {"testChannels"}
NotGrouped == NoTestChannels \cup {"testPlan", "groups"}
NoMembers == {"plans", "members"}
NoLanguages == NoMembers \cup {"invitations", "important", "groupLanguages"}
NoChannels == NoLanguages \cup {"channels"}
NoTiers == NotGrouped \cup NoChannels \cup {"tiers"}
NoSnapshots == NoTiers \cup {"snapshots"}
NoUsages == NoSnapshots \cup {"usages"}
\* ... that writes messages of a kind.
Untold(kind) == NoUsages \cup
    CASE kind = "messages" -> {"messages"}
      [] kind = "threads" -> {"messages", "threads"}
      [] kind = "replies" -> {"messages", "threads", "replies"}
      [] OTHER -> {"messages", "threads", "replies", "direct"}
NoTasks == NoUsages \cup {"messages", "threads", "replies", "direct", "tasks"}

\* A run that ended leaves what SeededOnce promises; between runs nothing is in memory.
RunInv == /\ runs.ended => step = "off" /\ MadeUp /\ (~runs.died => Unbroken)
          /\ step = "off" => batch = NoBatch

\* A run writes each kind of message once.
TalkInv == \A k \in Talks : /\ talk[k] <= runs.started
                            /\ step # "off" /\ step \in Untold(k) => talk[k] < runs.started

\* Reports that are saved and wait for their categories.
FiledInv == /\ filed.categorized + batch.reports <= filed.reports
            /\ filed.reports <= TargetReports
            /\ step # "links" => batch.reports = 0
            /\ ~runs.died => filed.categorized + batch.reports = filed.reports

\* The required users come first, one by one, then those who make up the total.
PeopleInv ==
    /\ people \subseteq Req \/ (Req \subseteq people /\ Cardinality(people) = TotalUsers)
    /\ step \in Early => /\ batch.next < Len(RequiredUsers)
                         /\ \A i \in 1 .. batch.next : RequiredUsers[i] \in people
    /\ step \notin Early => Req \subseteq people
    /\ step \notin NotPeopled => Cardinality(people) = TotalUsers
    /\ step = "userLanguages" => batch.users \subseteq people \ Req
    /\ ~runs.died => (IF step = "userLanguages" THEN speakers \cup batch.users ELSE speakers) = people \ Req

\* A pair to be asked has not been asked; at the end the required users are friends.
BondInv ==
    /\ \A p \in Pairs : friendRows[p] <= 1 /\ requestRows[p] <= 1
    /\ step = "requests" => \A p \in batch.requests : requestRows[p] = 0
    /\ step \notin NotBonded => \A p \in Pairs : p \subseteq Req => friendRows[p] = 1

\* What holds of a group g at step s: of all, of the test group, of one that
\* this run created (new), of what every run makes up for, and of what none does.
GroupRows(g, s) ==
    /\ \A u \in SeedUsers : g.members[u] <= 1
    /\ g.languages <= 1 /\ g.channels <= 1 /\ g.tiers <= 1 /\ g.snapshots <= 1 /\ g.usages <= 1
    /\ g.tasks <= TasksPerGroup
    /\ s # "histories" => g.histories <= g.tasks
TestRows(g, s) ==
    /\ g.owner = TestOwner
    /\ ~g.special => g.tasks = 0
    /\ MemberOf(g) # {} => /\ TestOwner \in MemberOf(g)
                           /\ Cardinality(MemberOf(g)) = Min({TestGroupSize, TotalUsers})
    /\ s \notin NoTestMembers => MemberOf(g) # {}
    /\ s \notin NoTestChannels => g.channels = 1
    /\ s \notin NoTasks => g.special
NewRows(g, s) ==
    /\ s \in NoMembers => \A u \in SeedUsers : g.members[u] = 0
    /\ s \in NoLanguages => g.languages = 0
    /\ s \in NoChannels => g.channels = 0
MadeUpRows(g, s) ==
    /\ s \notin NoTiers => g.tiers = 1
    /\ s \notin NoSnapshots => g.snapshots = 1
    /\ s \notin NoUsages => g.usages = 1
    /\ s \notin NoTasks /\ MemberOf(g) # {} => g.tasks = TasksPerGroup
WholeRows(g, s, new) ==
    /\ ~(new /\ s \in NoMembers) /\ ~(g.test /\ s = "testMembers") => g.owner \in MemberOf(g)
    /\ ~(new /\ s \in NoChannels) /\ ~(g.test /\ s \in {"testMembers", "testChannels"}) => g.channels = 1
    /\ ~g.test /\ ~(new /\ s \in NoLanguages) => g.languages = 1
    /\ s # "histories" => g.histories = g.tasks
GroupOk(g, s, new, died) ==
    /\ GroupRows(g, s)
    /\ g.test => ~new /\ TestRows(g, s)
    /\ new => NewRows(g, s)
    /\ MadeUpRows(g, s)
    /\ ~died => WholeRows(g, s, new)

GroupInv ==
    /\ batch.groups \subseteq DOMAIN seedGroups
    /\ step \in NotGrouped => batch.groups = {}
    /\ \A i \in DOMAIN seedGroups : GroupOk(seedGroups[i], step, i \in batch.groups, runs.died)
    /\ \A i \in DOMAIN seedGroups : seedGroups[i].test => MemberOf(seedGroups[i]) \subseteq people
    /\ \A i, j \in TestGroups : i = j
    /\ step \notin NotTested => TestGroups # {}
    /\ step \notin NotGrouped => /\ Len(seedGroups) >= TotalGroups
                                 /\ \A u \in ImportantUsers : Owned(u, seedGroups) >= OwnGroups
    /\ step = "histories" =>
        /\ Len(batch.tasks) = Len(seedGroups)
        /\ \A i \in DOMAIN seedGroups : LET g == seedGroups[i] IN
            /\ g.histories + batch.tasks[i] <= g.tasks
            /\ ~runs.died => g.histories + batch.tasks[i] = g.tasks

SeederInv == /\ SeederTypeOK /\ RunInv /\ TalkInv /\ FiledInv
             /\ PeopleInv /\ BondInv /\ GroupInv

-----------------------------------------------------------------------------
(* Sizes *)

LEMMA SeedSizes ==
    /\ IsFiniteSet(Req) /\ IsFiniteSet(SeedUsers) /\ Req \subseteq SeedUsers
    /\ TestOwner \in Req /\ ImportantUsers \subseteq Req
    /\ \A i \in 1 .. Len(RequiredUsers) : RequiredUsers[i] \in Req
    /\ \A u \in Req : \E i \in 1 .. Len(RequiredUsers) : u = RequiredUsers[i]
    /\ Len(RequiredUsers) \in Nat /\ Len(RequiredUsers) >= 2
<1>1. RequiredUsers \in Seq(Req) /\ Len(RequiredUsers) >= 2 /\ IsFiniteSet(GeneratedUsers)
      /\ TestOwner \in Req /\ ImportantUsers \subseteq Req
    BY SeederBounds DEF Req
<1>2. DOMAIN RequiredUsers = 1 .. Len(RequiredUsers) /\ Len(RequiredUsers) \in Nat
    BY <1>1
<1>3. RequiredUsers \in Surjection(1 .. Len(RequiredUsers), Req)
    BY <1>1, <1>2 DEF Surjection, Req, Range
<1>4. IsFiniteSet(1 .. Len(RequiredUsers))
    BY <1>2, FS_Interval
<1>5. IsFiniteSet(Req)
    BY <1>3, <1>4, FS_Surjection
<1>6. SeedUsers = Req \cup GeneratedUsers
    BY DEF SeedUsers, Req
<1>7. IsFiniteSet(SeedUsers)
    BY <1>1, <1>5, <1>6, FS_Union
<1>8. \A u \in Req : \E i \in 1 .. Len(RequiredUsers) : u = RequiredUsers[i]
    BY <1>2 DEF Req, Range
<1>9. \A i \in 1 .. Len(RequiredUsers) : RequiredUsers[i] \in Req
    BY <1>1, <1>2
<1>10. QED
    BY <1>1, <1>2, <1>5, <1>6, <1>7, <1>8, <1>9

LEMMA Smaller ==
    ASSUME NEW a \in Int, NEW b \in Int
    PROVE  /\ Min({a, b}) = IF a <= b THEN a ELSE b
           /\ Max({a, b}) = IF a >= b THEN a ELSE b
<1>1. CASE a <= b
    <2>1. Min({a, b}) = a
        BY <1>1, LeastIs
    <2>2. Max({a, b}) = b
        BY <1>1, GreatestIs
    <2>3. QED
        BY <1>1, <2>1, <2>2
<1>2. CASE ~(a <= b)
    <2>1. Min({a, b}) = b
        BY <1>2, LeastIs
    <2>2. Max({a, b}) = a
        BY <1>2, GreatestIs
    <2>3. QED
        BY <1>2, <2>1, <2>2
<1>3. QED
    BY <1>1, <1>2

LEMMA AtLeast == \A n \in Int : AtLeast0(n) = IF n >= 0 THEN n ELSE 0
    BY Smaller DEF AtLeast0

LEMMA Added ==
    ASSUME NEW m \in [SeedUsers -> Nat], NEW S
    PROVE  /\ AddRows(m, S) \in [SeedUsers -> Nat]
           /\ \A u \in SeedUsers : AddRows(m, S)[u] = IF u \in S THEN m[u] + 1 ELSE m[u]
    BY DEF AddRows

LEMMA AddedPairs ==
    ASSUME NEW m \in [Pairs -> Nat], NEW S
    PROVE  /\ AddRows(m, S) \in [Pairs -> Nat]
           /\ \A p \in Pairs : AddRows(m, S)[p] = IF p \in S THEN m[p] + 1 ELSE m[p]
    BY DEF AddRows

LEMMA NobodyYet == NoBatch \in Batch
    BY DEF NoBatch, Batch

-----------------------------------------------------------------------------
(* What a step leaves alone *)

GroupsAlone == {"off", "languages", "categories", "required", "users", "userLanguages",
                "friends", "requests", "connect", "testGroup"}
GroupsMade == {"messages", "threads", "replies", "direct", "tasks"}
GroupsDone == {"reports", "links"}

LEMMA GroupStill ==
    ASSUME GroupInv, UNCHANGED seedGroups, batch'.groups = batch.groups,
           people \subseteq people', runs'.died = runs.died,
           \/ step \in GroupsAlone /\ step' \in GroupsAlone
           \/ step \in GroupsMade /\ step' \in GroupsMade
           \/ step \in GroupsDone /\ step' \in GroupsDone
    PROVE  GroupInv'
<1> DEFINE N(X) == step \in X <=> step' \in X
<1>1. /\ N(NotBonded \cup {"testGroup"}) /\ N(NotTested) /\ N(NoTestMembers) /\ N(NoTestChannels)
      /\ N(NotGrouped) /\ N(NoMembers) /\ N(NoLanguages) /\ N(NoChannels) /\ N(NoTiers)
      /\ N(NoSnapshots) /\ N(NoUsages) /\ N(NoTasks)
      /\ step # "histories" /\ step' # "histories" /\ step # "testMembers" /\ step' # "testMembers"
      /\ step # "testChannels" /\ step' # "testChannels"
    BY DEF GroupsAlone, GroupsMade, GroupsDone, NotBonded, NotPeopled, Early, NotTested, NoTestMembers,
           NoTestChannels, NotGrouped, NoMembers, NoLanguages, NoChannels, NoTiers, NoSnapshots,
           NoUsages, NoTasks
<1>2. PICK s, t, d, B, G : s = step /\ t = step' /\ d = runs.died /\ B = batch.groups /\ G = seedGroups
    OBVIOUS
<1>3. ASSUME NEW g, NEW b, GroupOk(g, s, b, d)
      PROVE  GroupOk(g, t, b, d)
    BY <1>1, <1>2, <1>3 DEF GroupOk, GroupRows, TestRows, NewRows, MadeUpRows, WholeRows
<1>4. \A i \in DOMAIN G : GroupOk(G[i], t, i \in B, d)
    BY <1>2, <1>3 DEF GroupInv
<1>5. seedGroups' = G /\ step' = t /\ batch'.groups = B /\ runs'.died = d
    BY <1>2
<1>6. \A i \in DOMAIN seedGroups' : GroupOk(seedGroups'[i], step', i \in batch'.groups, runs'.died)
    BY <1>4, <1>5
<1> HIDE DEF N
<1>7. QED
    BY <1>1, <1>6 DEF GroupInv, N, TestGroups

-----------------------------------------------------------------------------
(* What each batch makes of a group *)

\* A batch makes h of g: still a group, the same one.
Keeping(g, h) == h \in SeedGroup /\ h.test = g.test /\ h.owner = g.owner

USE DEF Keeping, GroupOk, GroupRows, TestRows, NewRows, MadeUpRows, WholeRows,
        NotBonded, NotPeopled, Early, NotTested, NoTestMembers, NoTestChannels, NotGrouped, NoMembers,
        NoLanguages, NoChannels, NoTiers, NoSnapshots, NoUsages, NoTasks

LEMMA TestChannelsOk ==
    ASSUME NEW g \in SeedGroup, NEW new, NEW died, GroupOk(g, "testChannels", new, died),
           NEW h, h = IF g.test /\ g.channels = 0 THEN [g EXCEPT !.channels = 1] ELSE g
    PROVE  Keeping(g, h) /\ MemberOf(h) = MemberOf(g) /\ GroupOk(h, "testPlan", new, died)
<1>1. /\ h \in SeedGroup
      /\ h.test = g.test /\ h.owner = g.owner /\ h.members = g.members /\ h.invited = g.invited
      /\ h.languages = g.languages /\ h.tiers = g.tiers /\ h.snapshots = g.snapshots
      /\ h.usages = g.usages /\ h.tasks = g.tasks /\ h.special = g.special
      /\ h.histories = g.histories
      /\ h.channels = IF g.test /\ g.channels = 0 THEN 1 ELSE g.channels
      /\ g.channels \in Nat
    BY DEF SeedGroup
<1>2. MemberOf(h) = MemberOf(g)
    BY <1>1 DEF MemberOf
<1>3. QED
    BY <1>1, <1>2

LEMMA TestPlanOk ==
    ASSUME NEW g \in SeedGroup, NEW new, NEW died, GroupOk(g, "testPlan", new, died),
           NEW h, h = IF g.test /\ g.tiers = 0 THEN [g EXCEPT !.tiers = @ + 1] ELSE g
    PROVE  Keeping(g, h) /\ MemberOf(h) = MemberOf(g) /\ GroupOk(h, "groups", new, died)
<1>1. /\ h \in SeedGroup
      /\ h.test = g.test /\ h.owner = g.owner /\ h.members = g.members /\ h.invited = g.invited
      /\ h.languages = g.languages /\ h.channels = g.channels /\ h.snapshots = g.snapshots
      /\ h.usages = g.usages /\ h.tasks = g.tasks /\ h.special = g.special
      /\ h.histories = g.histories
      /\ h.tiers = IF g.test /\ g.tiers = 0 THEN 1 ELSE g.tiers
      /\ g.tiers \in Nat
    BY DEF SeedGroup
<1>2. MemberOf(h) = MemberOf(g)
    BY <1>1 DEF MemberOf
<1>3. QED
    BY <1>1, <1>2

LEMMA NewPlanOk ==
    ASSUME NEW g \in SeedGroup, NEW new, NEW died, GroupOk(g, "plans", new, died),
           NEW h, h = IF new /\ g.tiers = 0 THEN [g EXCEPT !.tiers = @ + 1] ELSE g
    PROVE  Keeping(g, h) /\ MemberOf(h) = MemberOf(g) /\ GroupOk(h, "members", new, died)
<1>1. /\ h \in SeedGroup
      /\ h.test = g.test /\ h.owner = g.owner /\ h.members = g.members /\ h.invited = g.invited
      /\ h.languages = g.languages /\ h.channels = g.channels /\ h.snapshots = g.snapshots
      /\ h.usages = g.usages /\ h.tasks = g.tasks /\ h.special = g.special
      /\ h.histories = g.histories
      /\ h.tiers = IF new /\ g.tiers = 0 THEN 1 ELSE g.tiers
      /\ g.tiers \in Nat
    BY DEF SeedGroup
<1>2. MemberOf(h) = MemberOf(g)
    BY <1>1 DEF MemberOf
<1>3. QED
    BY <1>1, <1>2

LEMMA InvitedOk ==
    ASSUME NEW g \in SeedGroup, NEW new, NEW died, GroupOk(g, "invitations", new, died),
           NEW h \in SeedGroup,
           h.test = g.test, h.owner = g.owner, h.members = g.members, h.languages = g.languages,
           h.channels = g.channels, h.tiers = g.tiers, h.snapshots = g.snapshots, h.usages = g.usages,
           h.tasks = g.tasks, h.special = g.special, h.histories = g.histories
    PROVE  Keeping(g, h) /\ MemberOf(h) = MemberOf(g) /\ GroupOk(h, "important", new, died)
<1>1. MemberOf(h) = MemberOf(g)
    BY DEF MemberOf
<1>2. QED
    BY <1>1

LEMMA LanguagesOk ==
    ASSUME NEW g \in SeedGroup, NEW new, NEW died, GroupOk(g, "groupLanguages", new, died),
           NEW h, h = IF new THEN [g EXCEPT !.languages = @ + 1] ELSE g
    PROVE  Keeping(g, h) /\ MemberOf(h) = MemberOf(g) /\ GroupOk(h, "channels", new, died)
<1>1. /\ h \in SeedGroup
      /\ h.test = g.test /\ h.owner = g.owner /\ h.members = g.members /\ h.invited = g.invited
      /\ h.channels = g.channels /\ h.tiers = g.tiers /\ h.snapshots = g.snapshots
      /\ h.usages = g.usages /\ h.tasks = g.tasks /\ h.special = g.special
      /\ h.histories = g.histories
      /\ h.languages = IF new THEN g.languages + 1 ELSE g.languages
      /\ g.languages \in Nat
    BY DEF SeedGroup
<1>2. MemberOf(h) = MemberOf(g)
    BY <1>1 DEF MemberOf
<1>3. QED
    BY <1>1, <1>2

LEMMA ChannelsOk ==
    ASSUME NEW g \in SeedGroup, NEW new, NEW died, GroupOk(g, "channels", new, died),
           NEW h, h = IF new THEN [g EXCEPT !.channels = @ + 1] ELSE g
    PROVE  Keeping(g, h) /\ MemberOf(h) = MemberOf(g) /\ GroupOk(h, "tiers", new, died)
<1>1. /\ h \in SeedGroup
      /\ h.test = g.test /\ h.owner = g.owner /\ h.members = g.members /\ h.invited = g.invited
      /\ h.languages = g.languages /\ h.tiers = g.tiers /\ h.snapshots = g.snapshots
      /\ h.usages = g.usages /\ h.tasks = g.tasks /\ h.special = g.special
      /\ h.histories = g.histories
      /\ h.channels = IF new THEN g.channels + 1 ELSE g.channels
      /\ g.channels \in Nat
    BY DEF SeedGroup
<1>2. MemberOf(h) = MemberOf(g)
    BY <1>1 DEF MemberOf
<1>3. QED
    BY <1>1, <1>2

LEMMA TiersOk ==
    ASSUME NEW g \in SeedGroup, NEW new, NEW died, GroupOk(g, "tiers", new, died),
           NEW h, h = IF g.tiers = 0 THEN [g EXCEPT !.tiers = @ + 1] ELSE g
    PROVE  Keeping(g, h) /\ MemberOf(h) = MemberOf(g) /\ GroupOk(h, "snapshots", new, died)
<1>1. /\ h \in SeedGroup
      /\ h.test = g.test /\ h.owner = g.owner /\ h.members = g.members /\ h.invited = g.invited
      /\ h.languages = g.languages /\ h.channels = g.channels /\ h.snapshots = g.snapshots
      /\ h.usages = g.usages /\ h.tasks = g.tasks /\ h.special = g.special
      /\ h.histories = g.histories
      /\ h.tiers = IF g.tiers = 0 THEN 1 ELSE g.tiers
      /\ g.tiers \in Nat
    BY DEF SeedGroup
<1>2. MemberOf(h) = MemberOf(g)
    BY <1>1 DEF MemberOf
<1>3. QED
    BY <1>1, <1>2

LEMMA SnapshotsOk ==
    ASSUME NEW g \in SeedGroup, NEW new, NEW died, GroupOk(g, "snapshots", new, died),
           NEW h, h = [g EXCEPT !.snapshots = Max({@, g.tiers})]
    PROVE  Keeping(g, h) /\ MemberOf(h) = MemberOf(g) /\ GroupOk(h, "usages", new, died)
<1>1. PICK a \in Nat, b \in Nat : a = g.snapshots /\ b = g.tiers
    BY DEF SeedGroup
<1>2. PICK m \in Nat : m = Max({g.snapshots, g.tiers}) /\ m = IF a >= b THEN a ELSE b
    <2>1. Max({a, b}) = IF a >= b THEN a ELSE b
        BY Smaller
    <2>2. QED
        BY <1>1, <2>1
<1>3. h = [g EXCEPT !.snapshots = m]
    BY <1>2
<1>4. /\ h \in SeedGroup
      /\ h.test = g.test /\ h.owner = g.owner /\ h.members = g.members /\ h.invited = g.invited
      /\ h.languages = g.languages /\ h.channels = g.channels /\ h.tiers = g.tiers
      /\ h.usages = g.usages /\ h.tasks = g.tasks /\ h.special = g.special
      /\ h.histories = g.histories
      /\ h.snapshots = m
    BY <1>3 DEF SeedGroup
<1>5. MemberOf(h) = MemberOf(g)
    BY <1>4 DEF MemberOf
<1>6. a <= 1 /\ b <= 1 /\ b = 1 /\ m = 1
    BY SMTT(30), <1>1, <1>2
<1>7. QED
    BY <1>1, <1>4, <1>5, <1>6

LEMMA UsagesOk ==
    ASSUME NEW g \in SeedGroup, NEW new, NEW died, GroupOk(g, "usages", new, died),
           NEW h, h = IF g.usages = 0 THEN [g EXCEPT !.usages = 1] ELSE g
    PROVE  Keeping(g, h) /\ MemberOf(h) = MemberOf(g) /\ GroupOk(h, "messages", new, died)
<1>1. /\ h \in SeedGroup
      /\ h.test = g.test /\ h.owner = g.owner /\ h.members = g.members /\ h.invited = g.invited
      /\ h.languages = g.languages /\ h.channels = g.channels /\ h.tiers = g.tiers
      /\ h.snapshots = g.snapshots /\ h.tasks = g.tasks /\ h.special = g.special
      /\ h.histories = g.histories
      /\ h.usages = IF g.usages = 0 THEN 1 ELSE g.usages
      /\ g.usages \in Nat
    BY DEF SeedGroup
<1>2. MemberOf(h) = MemberOf(g)
    BY <1>1 DEF MemberOf
<1>3. QED
    BY <1>1, <1>2

LEMMA MembersOk ==
    ASSUME NEW g \in SeedGroup, NEW new, NEW died, GroupOk(g, "members", new, died),
           NEW chosen \in SUBSET SeedUsers,
           NEW h, h = IF ~new THEN g ELSE [g EXCEPT !.members = AddRows(@, chosen \cup {g.owner})]
    PROVE  /\ Keeping(g, h) /\ GroupOk(h, "invitations", new, died)
           /\ g.test => MemberOf(h) = MemberOf(g)
<1>1. CASE ~new
    BY <1>1
<1>2. CASE new
    <2>1. g.members \in [SeedUsers -> Nat] /\ g.owner \in SeedUsers
        BY DEF SeedGroup
    <2>2. PICK m \in [SeedUsers -> Nat] :
              /\ m = AddRows(g.members, chosen \cup {g.owner})
              /\ \A u \in SeedUsers : m[u] = IF u \in chosen \cup {g.owner} THEN g.members[u] + 1 ELSE g.members[u]
        BY <2>1, Added
    <2>3. h = [g EXCEPT !.members = m]
        BY <1>2, <2>2
    <2>4. /\ h \in SeedGroup
      /\ h.test = g.test /\ h.owner = g.owner /\ h.invited = g.invited
      /\ h.languages = g.languages /\ h.channels = g.channels /\ h.tiers = g.tiers
      /\ h.snapshots = g.snapshots /\ h.usages = g.usages /\ h.tasks = g.tasks
      /\ h.special = g.special /\ h.histories = g.histories
          /\ h.members = m
        BY <2>3 DEF SeedGroup
    <2>a. \A u \in SeedUsers : g.members[u] = 0
        BY <1>2
    <2>b. ASSUME NEW u \in SeedUsers
          PROVE  m[u] <= 1 /\ (u = g.owner => m[u] > 0)
        <3>1. g.members[u] = 0 /\ m[u] = IF u \in chosen \cup {g.owner} THEN g.members[u] + 1 ELSE g.members[u]
            BY <2>2, <2>a
        <3>2. CASE u \in chosen \cup {g.owner}
            BY <3>1, <3>2
        <3>3. CASE u \notin chosen \cup {g.owner}
            BY <3>1, <3>3
        <3>4. QED
            BY <3>2, <3>3
    <2>5. g.owner \in MemberOf(h)
        BY <2>1, <2>4, <2>b DEF MemberOf
    <2>6. \A u \in SeedUsers : m[u] <= 1
        BY <2>b
    <2>7. QED
        BY <1>2, <2>4, <2>5, <2>6
<1>3. QED
    BY <1>1, <1>2

LEMMA ImportantOk ==
    ASSUME NEW g \in SeedGroup, NEW new, NEW died, GroupOk(g, "important", new, died),
           NEW X \in SUBSET SeedUsers, ~new => X = {}, \A u \in X : u \notin MemberOf(g),
           NEW h, h = [g EXCEPT !.members = AddRows(@, X)]
    PROVE  /\ Keeping(g, h) /\ GroupOk(h, "groupLanguages", new, died)
           /\ g.test => MemberOf(h) = MemberOf(g)
<1>1. g.members \in [SeedUsers -> Nat] /\ g.owner \in SeedUsers
    BY DEF SeedGroup
<1>2. PICK m \in [SeedUsers -> Nat] :
          /\ m = AddRows(g.members, X)
          /\ \A u \in SeedUsers : m[u] = IF u \in X THEN g.members[u] + 1 ELSE g.members[u]
    BY <1>1, Added
<1>3. h = [g EXCEPT !.members = m]
    BY <1>2
<1>4. /\ h \in SeedGroup
      /\ h.test = g.test /\ h.owner = g.owner /\ h.invited = g.invited
      /\ h.languages = g.languages /\ h.channels = g.channels /\ h.tiers = g.tiers
      /\ h.snapshots = g.snapshots /\ h.usages = g.usages /\ h.tasks = g.tasks
      /\ h.special = g.special /\ h.histories = g.histories
      /\ h.members = m
    BY <1>3 DEF SeedGroup
<1>5. \A u \in X : g.members[u] = 0
    BY <1>1 DEF MemberOf
<1>6. \A u \in SeedUsers : m[u] <= 1
    BY <1>1, <1>2, <1>5
<1>7. MemberOf(g) \subseteq MemberOf(h)
    BY <1>1, <1>2, <1>4 DEF MemberOf
<1>8. X = {} => MemberOf(h) = MemberOf(g)
    BY <1>1, <1>2, <1>4 DEF MemberOf
<1>9. QED
    BY <1>4, <1>6, <1>7, <1>8

LEMMA TestMembersOk ==
    ASSUME NEW g \in SeedGroup, NEW died, GroupOk(g, "testMembers", FALSE, died), g.test,
           NEW all \in SUBSET SeedUsers, TestOwner \in all, Cardinality(all) = TotalUsers,
           MemberOf(g) \subseteq all,
           NEW chosen \in SUBSET (all \ (MemberOf(g) \cup {TestOwner})),
           Cardinality(chosen)
           = Min({AtLeast0(TestGroupSize - Cardinality(MemberOf(g) \cup {TestOwner})),
                  Cardinality(all \ (MemberOf(g) \cup {TestOwner}))}),
           NEW h, h = [g EXCEPT !.members = AddRows(@, ({TestOwner} \ MemberOf(g)) \cup chosen)]
    PROVE  Keeping(g, h) /\ GroupOk(h, "testChannels", FALSE, died) /\ MemberOf(h) \subseteq all
<1>1. g.members \in [SeedUsers -> Nat] /\ TestOwner \in SeedUsers /\ g.owner = TestOwner
    BY SeedSizes DEF SeedGroup
<1>2. PICK has : has = MemberOf(g)
    OBVIOUS
<1>3. PICK X : X = ({TestOwner} \ has) \cup chosen
    OBVIOUS
<1>4. X \in SUBSET SeedUsers /\ \A u \in X : g.members[u] = 0
    BY <1>1, <1>2, <1>3 DEF MemberOf
<1>5. PICK m \in [SeedUsers -> Nat] :
          /\ m = AddRows(g.members, X)
          /\ \A u \in SeedUsers : m[u] = IF u \in X THEN g.members[u] + 1 ELSE g.members[u]
    BY <1>1, Added
<1>6. h = [g EXCEPT !.members = m]
    BY <1>2, <1>3, <1>5
<1>7. /\ h \in SeedGroup
      /\ h.test = g.test /\ h.owner = g.owner /\ h.invited = g.invited
      /\ h.languages = g.languages /\ h.channels = g.channels /\ h.tiers = g.tiers
      /\ h.snapshots = g.snapshots /\ h.usages = g.usages /\ h.tasks = g.tasks
      /\ h.special = g.special /\ h.histories = g.histories
      /\ h.members = m
    BY <1>6 DEF SeedGroup
<1>8. \A u \in SeedUsers : m[u] <= 1
    BY <1>1, <1>4, <1>5
<1>9. MemberOf(h) = has \cup {TestOwner} \cup chosen
    BY <1>1, <1>2, <1>3, <1>5, <1>7 DEF MemberOf
<1>10. Cardinality(MemberOf(h)) = Min({TestGroupSize, TotalUsers})
    <2>1. IsFiniteSet(all) /\ IsFiniteSet(has \cup {TestOwner}) /\ IsFiniteSet(chosen)
          /\ has \cup {TestOwner} \subseteq all
        BY <1>1, <1>2, SeedSizes, FS_Subset
    <2>2. PICK k \in Nat : k = Cardinality(has \cup {TestOwner})
        BY <2>1, FS_CardinalityType
    <2>3. Cardinality(all \ (has \cup {TestOwner})) = TotalUsers - k /\ TotalUsers - k \in Nat
        <3>1. Cardinality(all \ (has \cup {TestOwner})) = Cardinality(all) - Cardinality(all \cap (has \cup {TestOwner}))
            BY <2>1, FS_Difference
        <3>2. all \cap (has \cup {TestOwner}) = has \cup {TestOwner}
            BY <2>1
        <3>3. IsFiniteSet(all \ (has \cup {TestOwner}))
            BY <2>1, FS_Subset
        <3>4. QED
            BY ZenonT(40), <2>2, <3>1, <3>2, <3>3, FS_CardinalityType
    <2>4. TestGroupSize \in Nat /\ TestGroupSize >= 1 /\ TotalUsers \in Nat
        BY SeederBounds
    <2>a. Min({TestGroupSize, TotalUsers}) = IF TestGroupSize <= TotalUsers THEN TestGroupSize ELSE TotalUsers
        BY <2>4, Smaller
    <2>5. k = 1 \/ k = IF TestGroupSize <= TotalUsers THEN TestGroupSize ELSE TotalUsers
        <3>1. CASE has = {}
            <4>1. has \cup {TestOwner} = {TestOwner}
                BY <3>1
            <4>2. QED
                BY ZenonT(40), <2>2, <4>1, FS_Singleton
        <3>2. CASE has # {}
            <4>1. TestOwner \in has /\ Cardinality(has) = Min({TestGroupSize, TotalUsers})
                BY <1>2, <3>2
            <4>2. has \cup {TestOwner} = has
                BY <4>1
            <4>3. QED
                BY <2>2, <2>a, <4>1, <4>2
        <3>3. QED
            BY <3>1, <3>2
    <2>6. Cardinality(chosen) = Min({AtLeast0(TestGroupSize - k), TotalUsers - k})
        BY <1>2, <2>2, <2>3
    <2>7. PICK a \in Nat : a = AtLeast0(TestGroupSize - k) /\ a = IF TestGroupSize >= k THEN TestGroupSize - k ELSE 0
        BY <2>2, <2>4, AtLeast
    <2>8. Cardinality(chosen) = IF a <= TotalUsers - k THEN a ELSE TotalUsers - k
        BY <2>3, <2>6, <2>7, Smaller
    <2>9. Cardinality(MemberOf(h)) = k + Cardinality(chosen) - Cardinality({})
        <3>1. (has \cup {TestOwner}) \cap chosen = {}
            BY <1>2
        <3>2. Cardinality((has \cup {TestOwner}) \cup chosen)
              = Cardinality(has \cup {TestOwner}) + Cardinality(chosen)
                - Cardinality((has \cup {TestOwner}) \cap chosen)
            BY <2>1, FS_Union
        <3>3. QED
            BY <1>9, <2>2, <3>1, <3>2
    <2>10. Cardinality({}) = 0 /\ Min({TestGroupSize, TotalUsers}) = IF TestGroupSize <= TotalUsers THEN TestGroupSize ELSE TotalUsers
        BY <2>4, Smaller, FS_EmptySet
    <2>11. QED
        BY <2>2, <2>3, <2>4, <2>5, <2>7, <2>8, <2>9, <2>10
<1>11. MemberOf(h) \subseteq all /\ TestOwner \in MemberOf(h) /\ MemberOf(h) # {}
    BY <1>2, <1>9
<1>12. GroupOk(h, "testChannels", FALSE, died)
    BY <1>1, <1>7, <1>8, <1>10, <1>11
<1>13. QED
    BY <1>7, <1>11, <1>12

LEMMA Untested ==
    ASSUME NEW g \in SeedGroup, NEW new, NEW died, GroupOk(g, "testMembers", new, died), ~g.test
    PROVE  GroupOk(g, "testChannels", new, died)
    OBVIOUS

LEMMA PlannedFacts ==
    ASSUME NEW g \in SeedGroup, NEW s, GroupRows(g, s), g.test => TestRows(g, s)
    PROVE  /\ PlannedTasks(g) \in Nat /\ g.tasks + PlannedTasks(g) <= TasksPerGroup
           /\ MemberOf(g) # {} => g.tasks + PlannedTasks(g) = TasksPerGroup
           /\ MemberOf(g) # {} /\ g.test /\ ~g.special => PlannedTasks(g) > 0
           /\ MemberOf(g) = {} => PlannedTasks(g) = 0
<1>1. PICK t \in Nat : t = g.tasks /\ t <= TasksPerGroup /\ TasksPerGroup \in Nat /\ TasksPerGroup > 0
    BY SeederBounds DEF SeedGroup
<1>2. RemainingSlots(g) = TasksPerGroup - t
    BY <1>1, AtLeast DEF RemainingSlots
<1>3. PICK r \in Nat : r = RemainingSlots(g) /\ r = TasksPerGroup - t
    BY <1>1, <1>2
<1>4. PICK p \in Nat : p = SpecialTasks(g) /\ p <= r /\ (g.test /\ ~g.special => p > 0)
    <2>1. CASE ~(g.test /\ ~g.special)
        BY <2>1 DEF SpecialTasks
    <2>2. CASE g.test /\ ~g.special
        <3>1. r >= 1
            BY <1>1, <1>3, <2>2
        <3>2. Max({r, 1}) = r
            <4>1. Max({r, 1}) = IF r >= 1 THEN r ELSE 1
                BY SMTT(30), Smaller
            <4>2. QED
                BY <3>1, <4>1
        <3>3. Min({r, 2}) = IF r <= 2 THEN r ELSE 2
            BY Smaller
        <3>4. SpecialTasks(g) = Min({r, 2})
            BY <1>3, <2>2, <3>2 DEF SpecialTasks
        <3>5. QED
            BY <3>1, <3>3, <3>4
    <2>3. QED
        BY <2>1, <2>2
<1>5. AtLeast0(r - p) = r - p
    BY <1>4, AtLeast
<1>6. PlannedTasks(g) = IF MemberOf(g) = {} THEN 0 ELSE p + (r - p)
    BY <1>3, <1>4, <1>5 DEF PlannedTasks
<1>7. QED
    BY <1>1, <1>3, <1>4, <1>6

\* `h` is `g` with `n` more tasks.
WithTasks(g, h, n, b) ==
    /\ h \in SeedGroup /\ g \in SeedGroup
    /\ h.test = g.test /\ h.owner = g.owner /\ h.members = g.members /\ h.invited = g.invited
    /\ h.languages = g.languages /\ h.channels = g.channels /\ h.tiers = g.tiers
    /\ h.snapshots = g.snapshots /\ h.usages = g.usages /\ h.histories = g.histories
    /\ h.tasks = g.tasks + n /\ h.special = b
    /\ g.tasks \in Nat /\ g.histories \in Nat /\ g.special \in BOOLEAN /\ g.test \in BOOLEAN

LEMMA TasksAdded ==
    ASSUME NEW g \in SeedGroup, NEW n \in Nat, NEW b \in BOOLEAN,
           NEW h, h = [g EXCEPT !.tasks = @ + n, !.special = b]
    PROVE  WithTasks(g, h, n, b)
<1>1. g.tasks + n \in Nat
    BY DEF SeedGroup
<1>2. QED
    BY <1>1 DEF SeedGroup, WithTasks

LEMMA TasksOk ==
    ASSUME NEW g \in SeedGroup, NEW new, NEW died, GroupOk(g, "tasks", new, died),
           NEW n, n = PlannedTasks(g), NEW b \in BOOLEAN, g.special \/ (g.test /\ n > 0) => b,
           NEW h, WithTasks(g, h, n, b)
    PROVE  /\ Keeping(g, h) /\ MemberOf(h) = MemberOf(g) /\ GroupOk(h, "histories", new, died)
           /\ n \in Nat /\ h.histories + n <= h.tasks
           /\ ~died => h.histories + n = h.tasks
<1>1. /\ n \in Nat /\ g.tasks + n <= TasksPerGroup
      /\ MemberOf(g) # {} => g.tasks + n = TasksPerGroup
      /\ MemberOf(g) # {} /\ g.test /\ ~g.special => n > 0
    BY PlannedFacts
<1>2. /\ h \in SeedGroup /\ g \in SeedGroup
      /\ h.test = g.test /\ h.owner = g.owner /\ h.members = g.members /\ h.invited = g.invited
      /\ h.languages = g.languages /\ h.channels = g.channels /\ h.tiers = g.tiers
      /\ h.snapshots = g.snapshots /\ h.usages = g.usages /\ h.histories = g.histories
      /\ h.tasks = g.tasks + n /\ h.special = b
      /\ g.tasks \in Nat /\ g.histories \in Nat /\ g.special \in BOOLEAN /\ g.test \in BOOLEAN
    BY DEF WithTasks
<1>3. MemberOf(h) = MemberOf(g)
    BY <1>2 DEF MemberOf
<1>4. GroupOk(h, "histories", new, died)
    <2>1. GroupRows(h, "histories") /\ (new => NewRows(h, "histories")) /\ MadeUpRows(h, "histories")
        BY <1>1, <1>2, <1>3
    <2>2. ~died => WholeRows(h, "histories", new)
        BY <1>1, <1>2, <1>3
    <2>3. ASSUME g.test PROVE h.special /\ (~h.special => h.tasks = 0)
        BY <1>1, <1>2, <2>3
    <2>4. h.test => ~new /\ TestRows(h, "histories")
        BY <1>1, <1>2, <1>3, <2>3
    <2>5. QED
        BY <2>1, <2>2, <2>4
<1>5. h.histories + n <= h.tasks /\ (~died => h.histories + n = h.tasks)
    BY <1>1, <1>2
<1>6. QED
    BY <1>1, <1>2, <1>3, <1>4, <1>5

LEMMA HistoriesOk ==
    ASSUME NEW g \in SeedGroup, NEW new, NEW died, GroupOk(g, "histories", new, died),
           NEW n \in Nat, g.histories + n <= g.tasks, ~died => g.histories + n = g.tasks,
           NEW h, h = [g EXCEPT !.histories = @ + n]
    PROVE  Keeping(g, h) /\ MemberOf(h) = MemberOf(g) /\ GroupOk(h, "reports", new, died)
<1>1. /\ h \in SeedGroup
      /\ h.test = g.test /\ h.owner = g.owner /\ h.members = g.members /\ h.invited = g.invited
      /\ h.languages = g.languages /\ h.channels = g.channels /\ h.tiers = g.tiers
      /\ h.snapshots = g.snapshots /\ h.usages = g.usages /\ h.tasks = g.tasks
      /\ h.special = g.special
      /\ h.histories = g.histories + n /\ g.histories \in Nat /\ g.tasks \in Nat
    BY DEF SeedGroup
<1>2. MemberOf(h) = MemberOf(g)
    BY <1>1 DEF MemberOf
<1>3. QED
    BY <1>1, <1>2

LEMMA DiedOk ==
    ASSUME NEW g \in SeedGroup, NEW s, NEW new, NEW died, GroupOk(g, s, new, died), g.histories <= g.tasks
    PROVE  GroupOk(g, "off", FALSE, TRUE)
    OBVIOUS

LEMMA EndedOk ==
    ASSUME NEW g \in SeedGroup, NEW new, NEW died, GroupOk(g, "links", new, died)
    PROVE  GroupOk(g, "off", FALSE, died)
    OBVIOUS

LEMMA OldOk ==
    ASSUME NEW g \in SeedGroup, NEW died, GroupOk(g, "groups", FALSE, died), NEW t \in {"plans", "tiers"}
    PROVE  GroupOk(g, t, FALSE, died)
    OBVIOUS

LEMMA NewOk ==
    ASSUME NEW u \in SeedUsers, NEW died
    PROVE  /\ NewGroup(u, FALSE) \in SeedGroup /\ ~NewGroup(u, FALSE).test
           /\ NewGroup(u, FALSE).owner = u /\ GroupOk(NewGroup(u, FALSE), "plans", TRUE, died)
<1>1. 0 <= TasksPerGroup /\ TasksPerGroup \in Nat
    BY SeederBounds
<1>2. MemberOf(NewGroup(u, FALSE)) = {}
    BY DEF MemberOf, NewGroup
<1>3. NewGroup(u, FALSE) \in SeedGroup
    BY DEF NewGroup, SeedGroup
<1>4. PICK g : g = NewGroup(u, FALSE)
    OBVIOUS
<1>5. /\ ~g.test /\ g.owner = u /\ g.members = [v \in SeedUsers |-> 0] /\ g.languages = 0 /\ g.channels = 0
      /\ g.tiers = 0 /\ g.snapshots = 0 /\ g.usages = 0 /\ g.tasks = 0 /\ g.histories = 0
    BY <1>4 DEF NewGroup
<1>6. GroupOk(g, "plans", TRUE, died)
    <2>1. \A v \in SeedUsers : g.members[v] = 0
        BY <1>5
    <2>2. GroupRows(g, "plans")
        BY <1>1, <1>5, <2>1
    <2>3. NewRows(g, "plans") /\ MadeUpRows(g, "plans") /\ WholeRows(g, "plans", TRUE)
        BY <1>1, <1>2, <1>5, <2>1
    <2>4. QED
        BY <1>5, <2>2, <2>3
<1>7. QED
    BY <1>3, <1>4, <1>5, <1>6

LEMMA TestOk ==
    ASSUME NEW died
    PROVE  LET g == NewGroup(TestOwner, TRUE) IN
           /\ g \in SeedGroup /\ g.test /\ g.owner = TestOwner /\ MemberOf(g) = {}
           /\ GroupOk(g, "testMembers", FALSE, died)
<1>1. 0 <= TasksPerGroup /\ TasksPerGroup \in Nat /\ TestOwner \in SeedUsers
    BY SeederBounds, SeedSizes
<1>2. NewGroup(TestOwner, TRUE) \in SeedGroup
    BY <1>1 DEF NewGroup, SeedGroup
<1>3. PICK g : g = NewGroup(TestOwner, TRUE)
    OBVIOUS
<1>4. /\ g.test /\ g.owner = TestOwner /\ g.members = [v \in SeedUsers |-> 0] /\ g.languages = 0
      /\ g.channels = 0 /\ g.tiers = 0 /\ g.snapshots = 0 /\ g.usages = 0 /\ g.tasks = 0 /\ g.histories = 0
    BY <1>3 DEF NewGroup
<1>5. (\A v \in SeedUsers : g.members[v] = 0) /\ MemberOf(g) = {}
    BY <1>4 DEF MemberOf
<1>6. GroupRows(g, "testMembers")
    BY <1>1, <1>4, <1>5
<1>7. TestRows(g, "testMembers") /\ MadeUpRows(g, "testMembers") /\ WholeRows(g, "testMembers", FALSE)
    BY <1>1, <1>4, <1>5
<1>8. GroupOk(g, "testMembers", FALSE, died)
    BY <1>4, <1>6, <1>7
<1>9. QED
    BY <1>2, <1>3, <1>4, <1>5, <1>8

LEMMA TestedOk ==
    ASSUME NEW g \in SeedGroup, NEW died, GroupOk(g, "testGroup", FALSE, died)
    PROVE  GroupOk(g, "testMembers", FALSE, died)
    OBVIOUS

HIDE DEF Keeping, GroupOk, GroupRows, TestRows, NewRows, MadeUpRows, WholeRows,
        NotBonded, NotPeopled, Early, NotTested, NoTestMembers, NoTestChannels, NotGrouped, NoMembers,
        NoLanguages, NoChannels, NoTiers, NoSnapshots, NoUsages, NoTasks

-----------------------------------------------------------------------------
(* The batches that work on groups *)

LEMMA GroupMoves ==
    ASSUME SeederTypeOK, GroupInv, UNCHANGED <<people, runs>>, batch'.groups = batch.groups,
           step \notin NotTested, step' \notin NotTested,
           step' \notin NotGrouped => step \notin NotGrouped,
           step' \in NotGrouped => step \in NotGrouped,
           DOMAIN seedGroups' = DOMAIN seedGroups,
           seedGroups' = [i \in DOMAIN seedGroups |-> seedGroups'[i]],
           \A i \in DOMAIN seedGroups :
               /\ Keeping(seedGroups[i], seedGroups'[i])
               /\ GroupOk(seedGroups'[i], step', i \in batch.groups, runs.died)
               /\ seedGroups[i].test => MemberOf(seedGroups'[i]) \subseteq people,
           step' = "histories" =>
               /\ Len(batch'.tasks) = Len(seedGroups)
               /\ \A i \in DOMAIN seedGroups : LET g == seedGroups'[i] IN
                   /\ g.histories + batch'.tasks[i] <= g.tasks
                   /\ ~runs.died => g.histories + batch'.tasks[i] = g.tasks
    PROVE  GroupInv' /\ seedGroups' \in Seq(SeedGroup)
<1>1. PICK G, H, B, s, t, n : /\ G = seedGroups /\ H = seedGroups' /\ B = batch.groups
                              /\ s = step /\ t = step' /\ n = Len(seedGroups)
    OBVIOUS
<1>2. G \in Seq(SeedGroup) /\ n \in Nat /\ DOMAIN G = 1 .. n /\ n = Len(G)
    BY <1>1 DEF SeederTypeOK
<1>3. DOMAIN H = 1 .. n /\ \A i \in 1 .. n : H[i] \in SeedGroup /\ H[i].test = G[i].test /\ H[i].owner = G[i].owner
    BY <1>1, <1>2 DEF Keeping
<1>4. H \in Seq(SeedGroup) /\ Len(H) = n
    <2>1. H = [i \in 1 .. n |-> H[i]]
        BY <1>1, <1>2
    <2>2. QED
        BY <1>2, <1>3, <2>1
<1>5. \A u : Owned(u, H) = Owned(u, G)
    BY <1>2, <1>3 DEF Owned
<1>6. TestGroups = {i \in 1 .. n : G[i].test} /\ TestGroups' = {i \in 1 .. n : H[i].test}
    BY <1>1, <1>2, <1>3 DEF TestGroups
<1>7. TestGroups' = TestGroups
    BY <1>3, <1>6
<1>8. \A i \in DOMAIN seedGroups' : GroupOk(seedGroups'[i], step', i \in batch'.groups, runs'.died)
    OBVIOUS
<1>9. \A i \in DOMAIN seedGroups' : seedGroups'[i].test => MemberOf(seedGroups'[i]) \subseteq people'
    BY DEF Keeping
<1>10. batch'.groups \subseteq DOMAIN seedGroups' /\ (step' \in NotGrouped => batch'.groups = {})
    BY DEF GroupInv
<1>11. \A i, j \in TestGroups' : i = j
    BY <1>7 DEF GroupInv
<1>12. TestGroups' # {}
    BY <1>7 DEF GroupInv
<1>13. step' \notin NotGrouped => /\ Len(seedGroups') >= TotalGroups
                                  /\ \A u \in ImportantUsers : Owned(u, seedGroups') >= OwnGroups
    BY <1>1, <1>4, <1>5 DEF GroupInv
<1>14. step' = "histories" =>
        /\ Len(batch'.tasks) = Len(seedGroups')
        /\ \A i \in DOMAIN seedGroups' :
            /\ seedGroups'[i].histories + batch'.tasks[i] <= seedGroups'[i].tasks
            /\ ~runs'.died => seedGroups'[i].histories + batch'.tasks[i] = seedGroups'[i].tasks
    BY <1>1, <1>4
<1>15. GroupInv'
    BY <1>8, <1>9, <1>10, <1>11, <1>12, <1>13, <1>14 DEF GroupInv
<1>16. QED
    BY <1>1, <1>4, <1>15

Grouping == {"testGroup", "testMembers", "testChannels", "testPlan", "groups", "plans", "members",
             "invitations", "important", "groupLanguages", "channels", "tiers", "snapshots", "usages"}

\* A step on groups leaves the rest of the invariant as it is.
LEMMA GroupFrame ==
    ASSUME SeederInv, UNCHANGED <<people, speakers, friendRows, requestRows, catalog, talk, filed, runs>>,
           \/ step \in Grouping /\ step' \in Grouping \cup {"messages"}
           \/ step = "tasks" /\ step' = "histories"
           \/ step = "histories" /\ step' = "reports",
           batch' \in Batch, batch'.reports = batch.reports,
           seedGroups' \in Seq(SeedGroup), GroupInv'
    PROVE  SeederInv'
<1>1. SeederTypeOK'
    BY DEF SeederInv, SeederTypeOK, Steps, Grouping
<1>2. RunInv'
    BY DEF SeederInv, RunInv, Grouping
<1>3. TalkInv'
    BY DEF SeederInv, TalkInv, Untold, Grouping, NoUsages, NoSnapshots, NoTiers, NotGrouped, NoChannels, NoLanguages, NoMembers,
           NoTestChannels, NoTestMembers, NotTested, NotBonded, NotPeopled, Early
<1>4. FiledInv'
    BY DEF SeederInv, FiledInv, Grouping
<1>5. PeopleInv'
    BY DEF SeederInv, PeopleInv, Grouping, NotPeopled, Early
<1>6. BondInv'
    BY DEF SeederInv, BondInv, Grouping, NotBonded, NotPeopled, Early
<1>7. QED
    BY <1>1, <1>2, <1>3, <1>4, <1>5, <1>6 DEF SeederInv

-----------------------------------------------------------------------------
(* Each batch that works on groups *)

\* What the invariant says of groups.
LEMMA InvGroups ==
    ASSUME SeederInv
    PROVE  /\ seedGroups \in Seq(SeedGroup) /\ Len(seedGroups) \in Nat /\ DOMAIN seedGroups = 1 .. Len(seedGroups)
           /\ \A i \in DOMAIN seedGroups :
               /\ seedGroups[i] \in SeedGroup
               /\ GroupOk(seedGroups[i], step, i \in batch.groups, runs.died)
               /\ seedGroups[i].test => MemberOf(seedGroups[i]) \subseteq people /\ i \notin batch.groups
           /\ batch \in Batch /\ batch.groups \subseteq DOMAIN seedGroups
           /\ people \subseteq SeedUsers
    BY DEF SeederInv, SeederTypeOK, GroupInv, GroupOk

\* The two steps that change which groups are new.
NoMove == {"testGroup", "groups"}

\* A batch of group rows alone.
LEMMA Moved ==
    ASSUME SeederInv, UNCHANGED <<people, speakers, friendRows, requestRows, catalog, talk, filed, runs, batch>>,
           step \in Grouping \ NoMove, step' \in Grouping \cup {"messages"}, step' \notin NoMove \/ step = "testPlan",
           step \in {"testMembers", "testChannels", "testPlan"}
               <=> step' \in {"testMembers", "testChannels", "testPlan", "groups"},
           NEW G, NEW H, G = seedGroups, seedGroups' = H, DOMAIN H = DOMAIN G,
           H = [i \in DOMAIN G |-> H[i]],
           \A i \in DOMAIN G : /\ Keeping(G[i], H[i])
                               /\ GroupOk(H[i], step', i \in batch.groups, runs.died)
                               /\ G[i].test => MemberOf(H[i]) \subseteq people
    PROVE  SeederInv'
<1>1. /\ step \notin NotTested /\ step' \notin NotTested
      /\ (step' \notin NotGrouped => step \notin NotGrouped)
      /\ (step' \in NotGrouped => step \in NotGrouped) /\ step' # "histories"
    BY DEF NoMove, Grouping, NotGrouped, NoTestChannels, NoTestMembers, NotTested, NotBonded, NotPeopled, Early
<1>2. SeederTypeOK /\ GroupInv
    BY DEF SeederInv
<1>3. GroupInv' /\ seedGroups' \in Seq(SeedGroup)
    BY <1>1, <1>2, GroupMoves
<1>4. batch' \in Batch
    BY InvGroups
<1>5. QED
    BY <1>3, <1>4, GroupFrame DEF NoMove

LEMMA EnsureTestGroupChannelsKeeps == SeederInv /\ EnsureTestGroupChannels => SeederInv'
<1> SUFFICES ASSUME SeederInv, EnsureTestGroupChannels PROVE SeederInv'
    OBVIOUS
<1>1. /\ step = "testChannels" /\ step' = "testPlan" /\ batch' = batch /\ runs' = runs /\ people' = people
      /\ UNCHANGED <<speakers, friendRows, requestRows, catalog, talk, filed>>
    BY DEF EnsureTestGroupChannels, Then, Keeps, peopleVars, bondVars, restVars
<1>2. PICK G, B, d : G = seedGroups /\ B = batch.groups /\ d = runs.died
    OBVIOUS
<1>3. /\ \A i \in DOMAIN G : /\ G[i] \in SeedGroup /\ GroupOk(G[i], "testChannels", i \in B, d)
                             /\ G[i].test => MemberOf(G[i]) \subseteq people /\ i \notin B
      /\ B \subseteq DOMAIN G
    BY <1>1, <1>2, InvGroups
<1>4. PICK H : H = [i \in DOMAIN G |-> IF G[i].test /\ G[i].channels = 0 THEN [G[i] EXCEPT !.channels = 1] ELSE G[i]]
               /\ seedGroups' = H
    BY <1>1, <1>2, <1>3 DEF EnsureTestGroupChannels, Update, AssignFreePlan, TestGroups
<1>5. ASSUME NEW i \in DOMAIN G
      PROVE  /\ Keeping(G[i], H[i]) /\ GroupOk(H[i], "testPlan", i \in B, d)
             /\ MemberOf(H[i]) = MemberOf(G[i])
    <2>a. PICK g, h, b : g = G[i] /\ h = H[i] /\ b = (i \in B)
        OBVIOUS
    <2>2. h = IF g.test /\ g.channels = 0 THEN [g EXCEPT !.channels = 1] ELSE g
        BY <1>3, <1>4, <2>a
    <2>3. g \in SeedGroup /\ GroupOk(g, "testChannels", b, d)
        BY <1>3, <2>a
    <2>4. Keeping(g, h) /\ MemberOf(h) = MemberOf(g) /\ GroupOk(h, "testPlan", b, d)
        BY <2>2, <2>3, TestChannelsOk
    <2>5. QED
        BY <2>a, <2>4
<1>6. seedGroups' = H /\ DOMAIN H = DOMAIN G /\ H = [i \in DOMAIN G |-> H[i]]
    BY <1>4
<1>7. QED
    BY <1>1, <1>2, <1>3, <1>5, <1>6, Moved DEF Grouping, NoMove

LEMMA TestFreePlanKeeps == SeederInv /\ TestFreePlan => SeederInv'
<1> SUFFICES ASSUME SeederInv, TestFreePlan PROVE SeederInv'
    OBVIOUS
<1>1. /\ step = "testPlan" /\ step' = "groups" /\ batch' = batch /\ runs' = runs /\ people' = people
      /\ UNCHANGED <<speakers, friendRows, requestRows, catalog, talk, filed>>
    BY DEF TestFreePlan, Then, Keeps, peopleVars, bondVars, restVars
<1>2. PICK G, B, d : G = seedGroups /\ B = batch.groups /\ d = runs.died
    OBVIOUS
<1>3. /\ \A i \in DOMAIN G : /\ G[i] \in SeedGroup /\ GroupOk(G[i], "testPlan", i \in B, d)
                             /\ G[i].test => MemberOf(G[i]) \subseteq people /\ i \notin B
      /\ B \subseteq DOMAIN G
    BY <1>1, <1>2, InvGroups
<1>4. PICK H : H = [i \in DOMAIN G |-> IF G[i].test /\ G[i].tiers = 0 THEN [G[i] EXCEPT !.tiers = @ + 1] ELSE G[i]]
               /\ seedGroups' = H
    BY <1>1, <1>2, <1>3 DEF TestFreePlan, Update, AssignFreePlan, TestGroups
<1>5. ASSUME NEW i \in DOMAIN G
      PROVE  /\ Keeping(G[i], H[i]) /\ GroupOk(H[i], "groups", i \in B, d)
             /\ MemberOf(H[i]) = MemberOf(G[i])
    <2>a. PICK g, h, b : g = G[i] /\ h = H[i] /\ b = (i \in B)
        OBVIOUS
    <2>2. h = IF g.test /\ g.tiers = 0 THEN [g EXCEPT !.tiers = @ + 1] ELSE g
        BY <1>3, <1>4, <2>a
    <2>3. g \in SeedGroup /\ GroupOk(g, "testPlan", b, d)
        BY <1>3, <2>a
    <2>4. Keeping(g, h) /\ MemberOf(h) = MemberOf(g) /\ GroupOk(h, "groups", b, d)
        BY <2>2, <2>3, TestPlanOk
    <2>5. QED
        BY <2>a, <2>4
<1>6. seedGroups' = H /\ DOMAIN H = DOMAIN G /\ H = [i \in DOMAIN G |-> H[i]]
    BY <1>4
<1>7. QED
    BY <1>1, <1>2, <1>3, <1>5, <1>6, Moved DEF Grouping, NoMove

LEMMA NewFreePlanKeeps == SeederInv /\ NewFreePlan => SeederInv'
<1> SUFFICES ASSUME SeederInv, NewFreePlan PROVE SeederInv'
    OBVIOUS
<1>1. /\ step = "plans" /\ step' = "members" /\ batch' = batch /\ runs' = runs /\ people' = people
      /\ UNCHANGED <<speakers, friendRows, requestRows, catalog, talk, filed>>
    BY DEF NewFreePlan, Then, Keeps, peopleVars, bondVars, restVars
<1>2. PICK G, B, d : G = seedGroups /\ B = batch.groups /\ d = runs.died
    OBVIOUS
<1>3. /\ \A i \in DOMAIN G : /\ G[i] \in SeedGroup /\ GroupOk(G[i], "plans", i \in B, d)
                             /\ G[i].test => MemberOf(G[i]) \subseteq people /\ i \notin B
      /\ B \subseteq DOMAIN G
    BY <1>1, <1>2, InvGroups
<1>4. PICK H : H = [i \in DOMAIN G |-> IF i \in B /\ G[i].tiers = 0 THEN [G[i] EXCEPT !.tiers = @ + 1] ELSE G[i]]
               /\ seedGroups' = H
    BY <1>1, <1>2, <1>3 DEF NewFreePlan, Update, AssignFreePlan, TestGroups
<1>5. ASSUME NEW i \in DOMAIN G
      PROVE  /\ Keeping(G[i], H[i]) /\ GroupOk(H[i], "members", i \in B, d)
             /\ MemberOf(H[i]) = MemberOf(G[i])
    <2>a. PICK g, h, b : g = G[i] /\ h = H[i] /\ b = (i \in B)
        OBVIOUS
    <2>2. h = IF b /\ g.tiers = 0 THEN [g EXCEPT !.tiers = @ + 1] ELSE g
        BY <1>3, <1>4, <2>a
    <2>3. g \in SeedGroup /\ GroupOk(g, "plans", b, d)
        BY <1>3, <2>a
    <2>4. Keeping(g, h) /\ MemberOf(h) = MemberOf(g) /\ GroupOk(h, "members", b, d)
        BY <2>2, <2>3, NewPlanOk
    <2>5. QED
        BY <2>a, <2>4
<1>6. seedGroups' = H /\ DOMAIN H = DOMAIN G /\ H = [i \in DOMAIN G |-> H[i]]
    BY <1>4
<1>7. QED
    BY <1>1, <1>2, <1>3, <1>5, <1>6, Moved DEF Grouping, NoMove

LEMMA AssignLanguagesKeeps == SeederInv /\ AssignLanguages => SeederInv'
<1> SUFFICES ASSUME SeederInv, AssignLanguages PROVE SeederInv'
    OBVIOUS
<1>1. /\ step = "groupLanguages" /\ step' = "channels" /\ batch' = batch /\ runs' = runs /\ people' = people
      /\ UNCHANGED <<speakers, friendRows, requestRows, catalog, talk, filed>>
    BY DEF AssignLanguages, Then, Keeps, peopleVars, bondVars, restVars
<1>2. PICK G, B, d : G = seedGroups /\ B = batch.groups /\ d = runs.died
    OBVIOUS
<1>3. /\ \A i \in DOMAIN G : /\ G[i] \in SeedGroup /\ GroupOk(G[i], "groupLanguages", i \in B, d)
                             /\ G[i].test => MemberOf(G[i]) \subseteq people /\ i \notin B
      /\ B \subseteq DOMAIN G
    BY <1>1, <1>2, InvGroups
<1>4. PICK H : H = [i \in DOMAIN G |-> IF i \in B THEN [G[i] EXCEPT !.languages = @ + 1] ELSE G[i]]
               /\ seedGroups' = H
    BY <1>1, <1>2, <1>3 DEF AssignLanguages, Update, AssignFreePlan, TestGroups
<1>5. ASSUME NEW i \in DOMAIN G
      PROVE  /\ Keeping(G[i], H[i]) /\ GroupOk(H[i], "channels", i \in B, d)
             /\ MemberOf(H[i]) = MemberOf(G[i])
    <2>a. PICK g, h, b : g = G[i] /\ h = H[i] /\ b = (i \in B)
        OBVIOUS
    <2>2. h = IF b THEN [g EXCEPT !.languages = @ + 1] ELSE g
        BY <1>3, <1>4, <2>a
    <2>3. g \in SeedGroup /\ GroupOk(g, "groupLanguages", b, d)
        BY <1>3, <2>a
    <2>4. Keeping(g, h) /\ MemberOf(h) = MemberOf(g) /\ GroupOk(h, "channels", b, d)
        BY <2>2, <2>3, LanguagesOk
    <2>5. QED
        BY <2>a, <2>4
<1>6. seedGroups' = H /\ DOMAIN H = DOMAIN G /\ H = [i \in DOMAIN G |-> H[i]]
    BY <1>4
<1>7. QED
    BY <1>1, <1>2, <1>3, <1>5, <1>6, Moved DEF Grouping, NoMove

LEMMA CreateChannelsKeeps == SeederInv /\ CreateChannels => SeederInv'
<1> SUFFICES ASSUME SeederInv, CreateChannels PROVE SeederInv'
    OBVIOUS
<1>1. /\ step = "channels" /\ step' = "tiers" /\ batch' = batch /\ runs' = runs /\ people' = people
      /\ UNCHANGED <<speakers, friendRows, requestRows, catalog, talk, filed>>
    BY DEF CreateChannels, Then, Keeps, peopleVars, bondVars, restVars
<1>2. PICK G, B, d : G = seedGroups /\ B = batch.groups /\ d = runs.died
    OBVIOUS
<1>3. /\ \A i \in DOMAIN G : /\ G[i] \in SeedGroup /\ GroupOk(G[i], "channels", i \in B, d)
                             /\ G[i].test => MemberOf(G[i]) \subseteq people /\ i \notin B
      /\ B \subseteq DOMAIN G
    BY <1>1, <1>2, InvGroups
<1>4. PICK H : H = [i \in DOMAIN G |-> IF i \in B THEN [G[i] EXCEPT !.channels = @ + 1] ELSE G[i]]
               /\ seedGroups' = H
    BY <1>1, <1>2, <1>3 DEF CreateChannels, Update, AssignFreePlan, TestGroups
<1>5. ASSUME NEW i \in DOMAIN G
      PROVE  /\ Keeping(G[i], H[i]) /\ GroupOk(H[i], "tiers", i \in B, d)
             /\ MemberOf(H[i]) = MemberOf(G[i])
    <2>a. PICK g, h, b : g = G[i] /\ h = H[i] /\ b = (i \in B)
        OBVIOUS
    <2>2. h = IF b THEN [g EXCEPT !.channels = @ + 1] ELSE g
        BY <1>3, <1>4, <2>a
    <2>3. g \in SeedGroup /\ GroupOk(g, "channels", b, d)
        BY <1>3, <2>a
    <2>4. Keeping(g, h) /\ MemberOf(h) = MemberOf(g) /\ GroupOk(h, "tiers", b, d)
        BY <2>2, <2>3, ChannelsOk
    <2>5. QED
        BY <2>a, <2>4
<1>6. seedGroups' = H /\ DOMAIN H = DOMAIN G /\ H = [i \in DOMAIN G |-> H[i]]
    BY <1>4
<1>7. QED
    BY <1>1, <1>2, <1>3, <1>5, <1>6, Moved DEF Grouping, NoMove

LEMMA EnsureTiersKeeps == SeederInv /\ EnsureTiers => SeederInv'
<1> SUFFICES ASSUME SeederInv, EnsureTiers PROVE SeederInv'
    OBVIOUS
<1>1. /\ step = "tiers" /\ step' = "snapshots" /\ batch' = batch /\ runs' = runs /\ people' = people
      /\ UNCHANGED <<speakers, friendRows, requestRows, catalog, talk, filed>>
    BY DEF EnsureTiers, Then, Keeps, peopleVars, bondVars, restVars
<1>2. PICK G, B, d : G = seedGroups /\ B = batch.groups /\ d = runs.died
    OBVIOUS
<1>3. /\ \A i \in DOMAIN G : /\ G[i] \in SeedGroup /\ GroupOk(G[i], "tiers", i \in B, d)
                             /\ G[i].test => MemberOf(G[i]) \subseteq people /\ i \notin B
      /\ B \subseteq DOMAIN G
    BY <1>1, <1>2, InvGroups
<1>4. PICK H : H = [i \in DOMAIN G |-> IF G[i].tiers = 0 THEN [G[i] EXCEPT !.tiers = @ + 1] ELSE G[i]]
               /\ seedGroups' = H
    BY <1>1, <1>2, <1>3 DEF EnsureTiers, Update, AssignFreePlan, TestGroups
<1>5. ASSUME NEW i \in DOMAIN G
      PROVE  /\ Keeping(G[i], H[i]) /\ GroupOk(H[i], "snapshots", i \in B, d)
             /\ MemberOf(H[i]) = MemberOf(G[i])
    <2>a. PICK g, h, b : g = G[i] /\ h = H[i] /\ b = (i \in B)
        OBVIOUS
    <2>2. h = IF g.tiers = 0 THEN [g EXCEPT !.tiers = @ + 1] ELSE g
        BY <1>3, <1>4, <2>a
    <2>3. g \in SeedGroup /\ GroupOk(g, "tiers", b, d)
        BY <1>3, <2>a
    <2>4. Keeping(g, h) /\ MemberOf(h) = MemberOf(g) /\ GroupOk(h, "snapshots", b, d)
        BY <2>2, <2>3, TiersOk
    <2>5. QED
        BY <2>a, <2>4
<1>6. seedGroups' = H /\ DOMAIN H = DOMAIN G /\ H = [i \in DOMAIN G |-> H[i]]
    BY <1>4
<1>7. QED
    BY <1>1, <1>2, <1>3, <1>5, <1>6, Moved DEF Grouping, NoMove

LEMMA BackfillEntitlementsKeeps == SeederInv /\ BackfillEntitlements => SeederInv'
<1> SUFFICES ASSUME SeederInv, BackfillEntitlements PROVE SeederInv'
    OBVIOUS
<1>1. /\ step = "snapshots" /\ step' = "usages" /\ batch' = batch /\ runs' = runs /\ people' = people
      /\ UNCHANGED <<speakers, friendRows, requestRows, catalog, talk, filed>>
    BY DEF BackfillEntitlements, Then, Keeps, peopleVars, bondVars, restVars
<1>2. PICK G, B, d : G = seedGroups /\ B = batch.groups /\ d = runs.died
    OBVIOUS
<1>3. /\ \A i \in DOMAIN G : /\ G[i] \in SeedGroup /\ GroupOk(G[i], "snapshots", i \in B, d)
                             /\ G[i].test => MemberOf(G[i]) \subseteq people /\ i \notin B
      /\ B \subseteq DOMAIN G
    BY <1>1, <1>2, InvGroups
<1>4. PICK H : H = [i \in DOMAIN G |-> [G[i] EXCEPT !.snapshots = Max({@, G[i].tiers})]]
               /\ seedGroups' = H
    BY <1>1, <1>2, <1>3 DEF BackfillEntitlements, Update, AssignFreePlan, TestGroups
<1>5. ASSUME NEW i \in DOMAIN G
      PROVE  /\ Keeping(G[i], H[i]) /\ GroupOk(H[i], "usages", i \in B, d)
             /\ MemberOf(H[i]) = MemberOf(G[i])
    <2>a. PICK g, h, b : g = G[i] /\ h = H[i] /\ b = (i \in B)
        OBVIOUS
    <2>2. h = [g EXCEPT !.snapshots = Max({@, g.tiers})]
        BY <1>3, <1>4, <2>a
    <2>3. g \in SeedGroup /\ GroupOk(g, "snapshots", b, d)
        BY <1>3, <2>a
    <2>4. Keeping(g, h) /\ MemberOf(h) = MemberOf(g) /\ GroupOk(h, "usages", b, d)
        BY <2>2, <2>3, SnapshotsOk
    <2>5. QED
        BY <2>a, <2>4
<1>6. seedGroups' = H /\ DOMAIN H = DOMAIN G /\ H = [i \in DOMAIN G |-> H[i]]
    BY <1>4
<1>7. QED
    BY <1>1, <1>2, <1>3, <1>5, <1>6, Moved DEF Grouping, NoMove

LEMMA EnsureUsagesKeeps == SeederInv /\ EnsureUsages => SeederInv'
<1> SUFFICES ASSUME SeederInv, EnsureUsages PROVE SeederInv'
    OBVIOUS
<1>1. /\ step = "usages" /\ step' = "messages" /\ batch' = batch /\ runs' = runs /\ people' = people
      /\ UNCHANGED <<speakers, friendRows, requestRows, catalog, talk, filed>>
    BY DEF EnsureUsages, Then, Keeps, peopleVars, bondVars, restVars
<1>2. PICK G, B, d : G = seedGroups /\ B = batch.groups /\ d = runs.died
    OBVIOUS
<1>3. /\ \A i \in DOMAIN G : /\ G[i] \in SeedGroup /\ GroupOk(G[i], "usages", i \in B, d)
                             /\ G[i].test => MemberOf(G[i]) \subseteq people /\ i \notin B
      /\ B \subseteq DOMAIN G
    BY <1>1, <1>2, InvGroups
<1>4. PICK H : H = [i \in DOMAIN G |-> IF G[i].usages = 0 THEN [G[i] EXCEPT !.usages = 1] ELSE G[i]]
               /\ seedGroups' = H
    BY <1>1, <1>2, <1>3 DEF EnsureUsages, Update, AssignFreePlan, TestGroups
<1>5. ASSUME NEW i \in DOMAIN G
      PROVE  /\ Keeping(G[i], H[i]) /\ GroupOk(H[i], "messages", i \in B, d)
             /\ MemberOf(H[i]) = MemberOf(G[i])
    <2>a. PICK g, h, b : g = G[i] /\ h = H[i] /\ b = (i \in B)
        OBVIOUS
    <2>2. h = IF g.usages = 0 THEN [g EXCEPT !.usages = 1] ELSE g
        BY <1>3, <1>4, <2>a
    <2>3. g \in SeedGroup /\ GroupOk(g, "usages", b, d)
        BY <1>3, <2>a
    <2>4. Keeping(g, h) /\ MemberOf(h) = MemberOf(g) /\ GroupOk(h, "messages", b, d)
        BY <2>2, <2>3, UsagesOk
    <2>5. QED
        BY <2>a, <2>4
<1>6. seedGroups' = H /\ DOMAIN H = DOMAIN G /\ H = [i \in DOMAIN G |-> H[i]]
    BY <1>4
<1>7. QED
    BY <1>1, <1>2, <1>3, <1>5, <1>6, Moved DEF Grouping, NoMove

-----------------------------------------------------------------------------
(* Members, invitations and the test group *)

LEMMA TestMembersKeep == SeederInv /\ EnsureTestGroupMemberships => SeederInv'
<1> SUFFICES ASSUME SeederInv, EnsureTestGroupMemberships PROVE SeederInv'
    OBVIOUS
<1>1. /\ step = "testMembers" /\ step' = "testChannels" /\ batch' = batch /\ runs' = runs /\ people' = people
      /\ UNCHANGED <<speakers, friendRows, requestRows, catalog, talk, filed>>
    BY DEF EnsureTestGroupMemberships, Then, Keeps, peopleVars, bondVars, restVars
<1>2. PICK G, B, d, P : G = seedGroups /\ B = batch.groups /\ d = runs.died /\ P = people
    OBVIOUS
<1>3. /\ \A i \in DOMAIN G : /\ G[i] \in SeedGroup /\ GroupOk(G[i], "testMembers", i \in B, d)
                             /\ G[i].test => MemberOf(G[i]) \subseteq P /\ i \notin B
      /\ P \subseteq SeedUsers
    BY <1>1, <1>2, InvGroups
<1>4. TestOwner \in P /\ Cardinality(P) = TotalUsers
    BY <1>1, <1>2, SeedSizes DEF SeederInv, PeopleInv, NotPeopled, Early
<1>5. PICK k \in TestGroups : TestGroups = {k}
    BY <1>1 DEF SeederInv, GroupInv, NotTested, NotBonded, NotPeopled, Early
<1>6. k \in DOMAIN G /\ G[k].test /\ \A i \in DOMAIN G : G[i].test => i = k
    BY <1>2, <1>5 DEF TestGroups
<1>7. PICK chosen \in SUBSET (P \ (MemberOf(G[k]) \cup {TestOwner})) :
          /\ Cardinality(chosen)
             = Min({AtLeast0(TestGroupSize - Cardinality(MemberOf(G[k]) \cup {TestOwner})),
                    Cardinality(P \ (MemberOf(G[k]) \cup {TestOwner}))})
          /\ seedGroups' = [i \in DOMAIN G |-> IF i \in {k}
                 THEN [G[i] EXCEPT !.members = AddRows(@, ({TestOwner} \ MemberOf(G[k])) \cup chosen)]
                 ELSE G[i]]
    <2>1. LET has == MemberOf(seedGroups[k])
              owner == {TestOwner} \ has
              pool == people \ (has \cup {TestOwner})
              needed == AtLeast0(TestGroupSize - Cardinality(has \cup {TestOwner}))
          IN \E chosen \in SUBSET pool :
              /\ Cardinality(chosen) = Min({needed, Cardinality(pool)})
              /\ Update({k}, LAMBDA g : [g EXCEPT !.members = AddRows(@, owner \cup chosen)])
        BY <1>5 DEF EnsureTestGroupMemberships
    <2>2. QED
        BY <1>2, <2>1 DEF Update
<1>8. PICK H : H = [i \in DOMAIN G |-> IF i \in {k}
                 THEN [G[i] EXCEPT !.members = AddRows(@, ({TestOwner} \ MemberOf(G[k])) \cup chosen)]
                 ELSE G[i]] /\ seedGroups' = H
    BY <1>7
<1>9. ASSUME NEW i \in DOMAIN G
      PROVE  /\ Keeping(G[i], H[i]) /\ GroupOk(H[i], "testChannels", i \in B, d)
             /\ G[i].test => MemberOf(H[i]) \subseteq P
    <2>1. CASE i # k
        <3>1. H[i] = G[i] /\ ~G[i].test
            BY <1>3, <1>6, <1>8, <2>1 DEF SeedGroup
        <3>2. GroupOk(G[i], "testChannels", i \in B, d)
            BY <1>3, <3>1, Untested
        <3>3. QED
            BY <1>3, <3>1, <3>2 DEF Keeping
    <2>2. CASE i = k
        <3>1. PICK g, h : g = G[k] /\ h = H[k]
            OBVIOUS
        <3>2. h = [g EXCEPT !.members = AddRows(@, ({TestOwner} \ MemberOf(g)) \cup chosen)]
            BY <1>6, <1>8, <3>1
        <3>3. g \in SeedGroup /\ GroupOk(g, "testMembers", FALSE, d) /\ g.test /\ MemberOf(g) \subseteq P
            <4>1. (k \in B) = FALSE
                BY <1>3, <1>6
            <4>2. GroupOk(g, "testMembers", k \in B, d)
                BY <1>3, <1>6, <3>1
            <4>3. QED
                BY <1>3, <1>6, <3>1, <4>1, <4>2
        <3>4. Keeping(g, h) /\ GroupOk(h, "testChannels", FALSE, d) /\ MemberOf(h) \subseteq P
            BY <1>3, <1>4, <1>7, <3>1, <3>2, <3>3, TestMembersOk
        <3>5. (i \in B) = FALSE
            BY <1>3, <1>6, <2>2
        <3>6. QED
            BY <2>2, <3>1, <3>4, <3>5
    <2>3. QED
        BY <2>1, <2>2
<1>10. seedGroups' = H /\ DOMAIN H = DOMAIN G /\ H = [i \in DOMAIN G |-> H[i]]
    BY <1>8
<1>11. QED
    BY <1>1, <1>2, <1>9, <1>10, Moved DEF Grouping, NoMove

LEMMA AssignMembersKeeps == SeederInv /\ AssignMembers => SeederInv'
<1> SUFFICES ASSUME SeederInv, AssignMembers PROVE SeederInv'
    OBVIOUS
<1>1. /\ step = "members" /\ step' = "invitations" /\ batch' = batch /\ runs' = runs /\ people' = people
      /\ UNCHANGED <<speakers, friendRows, requestRows, catalog, talk, filed>>
    BY DEF AssignMembers, Then, Keeps, peopleVars, bondVars, restVars
<1>2. PICK G, B, d, P : G = seedGroups /\ B = batch.groups /\ d = runs.died /\ P = people
    OBVIOUS
<1>3. /\ \A i \in DOMAIN G : /\ G[i] \in SeedGroup /\ GroupOk(G[i], "members", i \in B, d)
                             /\ G[i].test => MemberOf(G[i]) \subseteq P /\ i \notin B
      /\ P \subseteq SeedUsers
    BY <1>1, <1>2, InvGroups
<1>4. PICK chosen \in [B -> SUBSET P] :
          seedGroups' = [i \in DOMAIN G |-> IF i \notin B THEN G[i]
              ELSE [G[i] EXCEPT !.members = AddRows(@, chosen[i] \cup {G[i].owner})]]
    BY <1>2 DEF AssignMembers
<1>5. PICK H : H = [i \in DOMAIN G |-> IF i \notin B THEN G[i]
              ELSE [G[i] EXCEPT !.members = AddRows(@, chosen[i] \cup {G[i].owner})]] /\ seedGroups' = H
    BY <1>4
<1>6. ASSUME NEW i \in DOMAIN G
      PROVE  /\ Keeping(G[i], H[i]) /\ GroupOk(H[i], "invitations", i \in B, d)
             /\ G[i].test => MemberOf(H[i]) = MemberOf(G[i])
    <2>1. PICK g, h, b : g = G[i] /\ h = H[i] /\ b = (i \in B)
        OBVIOUS
    <2>2. PICK S \in SUBSET SeedUsers : i \in B => S = chosen[i]
        <3>1. CASE i \in B
            BY <1>3, <1>4, <3>1
        <3>2. CASE i \notin B
            BY <3>2
        <3>3. QED
            BY <3>1, <3>2
    <2>3. h = IF ~b THEN g ELSE [g EXCEPT !.members = AddRows(@, S \cup {g.owner})]
        BY <1>5, <2>1, <2>2
    <2>4. g \in SeedGroup /\ GroupOk(g, "members", b, d)
        BY <1>3, <2>1
    <2>5. Keeping(g, h) /\ GroupOk(h, "invitations", b, d) /\ (g.test => MemberOf(h) = MemberOf(g))
        BY <2>3, <2>4, MembersOk
    <2>6. QED
        BY <2>1, <2>5
<1>7. seedGroups' = H /\ DOMAIN H = DOMAIN G /\ H = [i \in DOMAIN G |-> H[i]]
    BY <1>5
<1>8. QED
    BY <1>1, <1>2, <1>3, <1>6, <1>7, Moved DEF Grouping, NoMove

LEMMA InviteOthersKeeps == SeederInv /\ InviteOthers => SeederInv'
<1> SUFFICES ASSUME SeederInv, InviteOthers PROVE SeederInv'
    OBVIOUS
<1>1. /\ step = "invitations" /\ step' = "important" /\ batch' = batch /\ runs' = runs /\ people' = people
      /\ UNCHANGED <<speakers, friendRows, requestRows, catalog, talk, filed>>
    BY DEF InviteOthers, Then, Keeps, peopleVars, bondVars, restVars
<1>2. PICK G, B, d, P : G = seedGroups /\ B = batch.groups /\ d = runs.died /\ P = people
    OBVIOUS
<1>3. /\ \A i \in DOMAIN G : /\ G[i] \in SeedGroup /\ GroupOk(G[i], "invitations", i \in B, d)
                             /\ G[i].test => MemberOf(G[i]) \subseteq P /\ i \notin B
      /\ P \subseteq SeedUsers
    BY <1>1, <1>2, InvGroups
<1>4. PICK asked \in [B -> SUBSET P] :
          seedGroups' = [i \in DOMAIN G |-> IF i \notin B THEN G[i] ELSE [G[i] EXCEPT !.invited = asked[i]]]
    BY ZenonT(40), <1>2 DEF InviteOthers
<1>5. PICK H : H = [i \in DOMAIN G |-> IF i \notin B THEN G[i] ELSE [G[i] EXCEPT !.invited = asked[i]]]
               /\ seedGroups' = H
    BY <1>4
<1>6. ASSUME NEW i \in DOMAIN G
      PROVE  /\ Keeping(G[i], H[i]) /\ GroupOk(H[i], "important", i \in B, d)
             /\ MemberOf(H[i]) = MemberOf(G[i])
    <2>1. PICK g, h, b : g = G[i] /\ h = H[i] /\ b = (i \in B)
        OBVIOUS
    <2>2. PICK S \in SUBSET SeedUsers : i \in B => S = asked[i]
        <3>1. CASE i \in B
            BY <1>3, <1>4, <3>1
        <3>2. CASE i \notin B
            BY <3>2
        <3>3. QED
            BY <3>1, <3>2
    <2>3. h = IF b THEN [g EXCEPT !.invited = S] ELSE g
        BY <1>5, <2>1, <2>2
    <2>4. g \in SeedGroup /\ GroupOk(g, "invitations", b, d)
        BY <1>3, <2>1
    <2>5. Keeping(g, h) /\ MemberOf(h) = MemberOf(g) /\ GroupOk(h, "important", b, d)
        BY <2>2, <2>3, <2>4, InvitedOk DEF SeedGroup
    <2>6. QED
        BY <2>1, <2>5
<1>7. seedGroups' = H /\ DOMAIN H = DOMAIN G /\ H = [i \in DOMAIN G |-> H[i]]
    BY <1>5
<1>8. QED
    BY <1>1, <1>2, <1>3, <1>6, <1>7, Moved DEF Grouping, NoMove

LEMMA ImportantKeeps == SeederInv /\ EnsureImportantUsersInGroups => SeederInv'
<1> SUFFICES ASSUME SeederInv, EnsureImportantUsersInGroups PROVE SeederInv'
    OBVIOUS
<1>1. /\ step = "important" /\ step' = "groupLanguages" /\ batch' = batch /\ runs' = runs /\ people' = people
      /\ UNCHANGED <<speakers, friendRows, requestRows, catalog, talk, filed>>
    BY DEF EnsureImportantUsersInGroups, Then, Keeps, peopleVars, bondVars, restVars
<1>2. PICK G, B, d, P : G = seedGroups /\ B = batch.groups /\ d = runs.died /\ P = people
    OBVIOUS
<1>3. \A i \in DOMAIN G : /\ G[i] \in SeedGroup /\ GroupOk(G[i], "important", i \in B, d)
                          /\ G[i].test => MemberOf(G[i]) \subseteq P /\ i \notin B
    BY <1>1, <1>2, InvGroups
<1> DEFINE missed == ImportantUsers \ UNION {MemberOf(seedGroups[i]) : i \in batch.groups}
<1>4. \E to \in [missed -> batch.groups] :
          seedGroups' = [i \in DOMAIN seedGroups |->
                            [seedGroups[i] EXCEPT !.members = AddRows(@, {u \in missed : to[u] = i})]]
    BY DEF EnsureImportantUsersInGroups
<1> HIDE DEF missed
<1>d. PICK missing : missing = missed
    OBVIOUS
<1>a. PICK to \in [missing -> batch.groups] :
          seedGroups' = [i \in DOMAIN seedGroups |->
                            [seedGroups[i] EXCEPT !.members = AddRows(@, {u \in missing : to[u] = i})]]
    BY <1>4, <1>d
<1>b. \A i \in B : missing \cap MemberOf(G[i]) = {}
    BY <1>2, <1>d DEF missed
<1>c. missing \subseteq SeedUsers
    BY <1>d, SeedSizes DEF missed
<1>5. /\ to \in [missing -> B]
      /\ seedGroups' = [i \in DOMAIN G |-> [G[i] EXCEPT !.members = AddRows(@, {u \in missing : to[u] = i})]]
    BY <1>2, <1>a
<1>6. PICK H : H = [i \in DOMAIN G |-> [G[i] EXCEPT !.members = AddRows(@, {u \in missing : to[u] = i})]]
               /\ seedGroups' = H
    BY <1>5
<1>7. ASSUME NEW i \in DOMAIN G
      PROVE  /\ Keeping(G[i], H[i]) /\ GroupOk(H[i], "groupLanguages", i \in B, d)
             /\ G[i].test => MemberOf(H[i]) = MemberOf(G[i])
    <2>1. PICK g, h, b : g = G[i] /\ h = H[i] /\ b = (i \in B)
        OBVIOUS
    <2>2. PICK X : X = {u \in missing : to[u] = i}
        OBVIOUS
    <2>3. X \in SUBSET SeedUsers /\ (~b => X = {}) /\ \A u \in X : u \notin MemberOf(g)
        BY <1>b, <1>c, <1>5, <2>1, <2>2
    <2>4. h = [g EXCEPT !.members = AddRows(@, X)]
        BY <1>6, <2>1, <2>2
    <2>5. g \in SeedGroup /\ GroupOk(g, "important", b, d)
        BY <1>3, <2>1
    <2>6. Keeping(g, h) /\ GroupOk(h, "groupLanguages", b, d) /\ (g.test => MemberOf(h) = MemberOf(g))
        BY <2>3, <2>4, <2>5, ImportantOk
    <2>7. QED
        BY <2>1, <2>6
<1>8. seedGroups' = H /\ DOMAIN H = DOMAIN G /\ H = [i \in DOMAIN G |-> H[i]]
    BY <1>6
<1>9. QED
    BY <1>1, <1>2, <1>3, <1>7, <1>8, Moved DEF Grouping, NoMove

-----------------------------------------------------------------------------
(* The creation of groups *)

LEMMA TestGroupKeeps == SeederInv /\ SeedTestGroup => SeederInv'
<1> SUFFICES ASSUME SeederInv, SeedTestGroup PROVE SeederInv'
    OBVIOUS
<1>1. /\ step = "testGroup" /\ step' = "testMembers" /\ batch' = batch /\ runs' = runs /\ people' = people
      /\ UNCHANGED <<speakers, friendRows, requestRows, catalog, talk, filed>>
    BY DEF SeedTestGroup, Then, Keeps, peopleVars, bondVars, restVars
<1>2. PICK G, n, d, P : G = seedGroups /\ n = Len(G) /\ d = runs.died /\ P = people
    OBVIOUS
<1>3. /\ G \in Seq(SeedGroup) /\ n \in Nat /\ DOMAIN G = 1 .. n /\ batch.groups = {}
      /\ \A i \in DOMAIN G : /\ G[i] \in SeedGroup /\ GroupOk(G[i], "testGroup", FALSE, d)
                             /\ G[i].test => MemberOf(G[i]) \subseteq P
    <2>1. batch.groups = {}
        BY <1>1 DEF SeederInv, GroupInv, NotGrouped, NoTestChannels, NoTestMembers, NotTested
    <2>2. \A i : (i \in batch.groups) = FALSE
        BY <2>1
    <2>3. \A i \in DOMAIN G : GroupOk(G[i], "testGroup", i \in batch.groups, d)
        BY <1>1, <1>2, InvGroups
    <2>4. \A i \in DOMAIN G : GroupOk(G[i], "testGroup", FALSE, d)
        BY <2>2, <2>3
    <2>5. QED
        BY <1>2, <2>1, <2>4, InvGroups
<1>4. TestGroups = {i \in DOMAIN G : G[i].test} /\ \A i, j \in TestGroups : i = j
    BY <1>2 DEF SeederInv, GroupInv, TestGroups
<1>5. PICK H : H = seedGroups' /\ H = IF TestGroups = {} THEN Append(G, NewGroup(TestOwner, TRUE)) ELSE G
    BY <1>2 DEF SeedTestGroup
<1>6. \A i \in DOMAIN G : GroupOk(G[i], "testMembers", FALSE, d)
    BY <1>3, TestedOk
<1>7. /\ H \in Seq(SeedGroup)
      /\ \A i \in DOMAIN H : /\ GroupOk(H[i], "testMembers", FALSE, d)
                             /\ H[i].test => MemberOf(H[i]) \subseteq P
      /\ \E k \in DOMAIN H : H[k].test
      /\ \A i, j \in DOMAIN H : H[i].test /\ H[j].test => i = j
    <2>1. CASE TestGroups # {}
        BY <1>3, <1>4, <1>5, <1>6, <2>1
    <2>2. CASE TestGroups = {}
        <3>1. PICK g \in SeedGroup : /\ g = NewGroup(TestOwner, TRUE) /\ g.test /\ MemberOf(g) = {}
                                     /\ GroupOk(g, "testMembers", FALSE, d)
            BY TestOk
        <3>2. H = Append(G, g)
            BY <1>5, <2>2, <3>1
        <3>3. H \in Seq(SeedGroup) /\ DOMAIN H = 1 .. n + 1 /\ H[n + 1] = g
              /\ \A i \in 1 .. n : H[i] = G[i]
            BY <1>2, <1>3, <3>2
        <3>4. \A i \in 1 .. n : G[i].test = FALSE
            BY <1>3, <1>4, <2>2 DEF SeedGroup
        <3>5. \A i \in 1 .. n + 1 : i \in 1 .. n \/ i = n + 1
            BY <1>3
        <3>6. n + 1 \in 1 .. n + 1
            BY <1>3
        <3>7. QED
            BY <1>3, <1>6, <3>1, <3>3, <3>4, <3>5, <3>6
    <2>3. QED
        BY <2>1, <2>2
<1>8. GroupInv'
    <2>1. batch'.groups = {}
        BY <1>1, <1>3
    <2>2. \A i : (i \in batch'.groups) = FALSE
        BY <2>1
    <2>3. \A i \in DOMAIN seedGroups' : GroupOk(seedGroups'[i], "testMembers", FALSE, runs'.died)
        BY <1>1, <1>2, <1>5, <1>7
    <2>4. \A i \in DOMAIN seedGroups' : GroupOk(seedGroups'[i], step', i \in batch'.groups, runs'.died)
        BY <1>1, <2>2, <2>3
    <2>5. \A i \in DOMAIN seedGroups' : seedGroups'[i].test => MemberOf(seedGroups'[i]) \subseteq people'
        BY <1>1, <1>2, <1>5, <1>7
    <2>6. TestGroups' # {} /\ \A i, j \in TestGroups' : i = j
        BY <1>5, <1>7 DEF TestGroups
    <2>7. step' \in NotGrouped /\ step' # "histories"
        BY <1>1 DEF NotGrouped, NoTestChannels, NoTestMembers
    <2>8. QED
        BY <2>1, <2>4, <2>5, <2>6, <2>7 DEF GroupInv
<1>9. QED
    BY <1>1, <1>5, <1>7, <1>8, GroupFrame, InvGroups DEF Grouping

\* A function from 1 to m is a sequence.
LEMMA MadeSeq ==
    ASSUME NEW S, NEW m \in Nat, NEW N, N = [i \in 1 .. m |-> N[i]], \A i \in 1 .. m : N[i] \in S
    PROVE  N \in Seq(S) /\ Len(N) = m
    OBVIOUS

\* With no group missing there are enough, of the important users too.
LEMMA NoneMissing ==
    ASSUME SeederTypeOK, MissingGroups <= 0
    PROVE  Len(seedGroups) >= TotalGroups /\ \A u \in ImportantUsers : Owned(u, seedGroups) >= OwnGroups
<1>a. seedGroups \in Seq(SeedGroup)
    BY DEF SeederTypeOK
<1>b. Len(seedGroups) \in Nat /\ DOMAIN seedGroups = 1 .. Len(seedGroups)
    BY <1>a
<1>1. PICK G, n : G = seedGroups /\ n = Len(G) /\ DOMAIN G = 1 .. n /\ n \in Nat
    BY <1>b
<1>2. \A u : Owned(u, G) \in Nat
    <2>1. IsFiniteSet(DOMAIN G)
        BY <1>1, FS_Interval
    <2>2. \A u : IsFiniteSet({i \in DOMAIN G : G[i].owner = u})
        BY <2>1, FS_Subset
    <2>3. QED
        BY <2>2, FS_CardinalityType DEF Owned
<1>3. TotalGroups \in Nat /\ OwnGroups \in Nat
    BY SeederBounds
<1>4. PICK f : f = [u \in ImportantUsers |-> AtLeast0(OwnGroups - Owned(u, G))]
    OBVIOUS
<1>5. \A u \in ImportantUsers : f[u] \in Nat /\ f[u] >= OwnGroups - Owned(u, G)
    BY <1>2, <1>3, <1>4, AtLeast
<1>6. IsFiniteSet(ImportantUsers)
    BY SeedSizes, FS_Subset
<1>7. Deficit = SumFunctionOnSet(f, ImportantUsers)
    BY <1>1, <1>4 DEF Deficit, SumFunction
<1>8. SumFunctionOnSet(f, ImportantUsers) \in Nat
    BY <1>5, <1>6, SumNat
<1>9. PICK a \in Int, b \in Nat : a = TotalGroups - n /\ b = SumFunctionOnSet(f, ImportantUsers)
    BY <1>1, <1>3, <1>8
<1>10. Max({a, b}) <= 0
    BY <1>1, <1>7, <1>9 DEF MissingGroups
<1>11. a <= 0 /\ b = 0
    <2>1. Max({a, b}) = IF a >= b THEN a ELSE b
        BY Smaller
    <2>2. QED
        BY <1>10, <2>1
<1>12. ASSUME NEW u \in ImportantUsers PROVE Owned(u, G) >= OwnGroups
    <2>1. b = f[u] + SumFunctionOnSet(f, ImportantUsers \ {u})
        BY <1>5, <1>6, <1>9, SumTake
    <2>2. SumFunctionOnSet(f, ImportantUsers \ {u}) \in Nat
        <3>1. IsFiniteSet(ImportantUsers \ {u}) /\ \A v \in ImportantUsers \ {u} : f[v] \in Nat
            BY <1>5, <1>6, FS_Subset
        <3>2. QED
            BY <3>1, SumNat
    <2>3. f[u] = 0
        BY <1>5, <1>11, <2>1, <2>2
    <2>4. QED
        BY <1>2, <1>3, <1>5, <2>3
<1>13. QED
    BY <1>1, <1>3, <1>9, <1>11, <1>12

LEMMA SkipGroupsKeeps == SeederInv /\ SkipGroups => SeederInv'
<1> SUFFICES ASSUME SeederInv, SkipGroups PROVE SeederInv'
    OBVIOUS
<1>1. /\ step = "groups" /\ step' = "tiers" /\ batch' = batch /\ runs' = runs /\ people' = people
      /\ seedGroups' = seedGroups
      /\ UNCHANGED <<speakers, friendRows, requestRows, catalog, talk, filed>>
    BY DEF SkipGroups, Then, Keeps, peopleVars, bondVars, restVars
<1>2. Len(seedGroups) >= TotalGroups /\ \A u \in ImportantUsers : Owned(u, seedGroups) >= OwnGroups
    BY NoneMissing DEF SkipGroups, SeederInv
<1>3. batch.groups = {}
    BY <1>1 DEF SeederInv, GroupInv, NotGrouped
<1>4. \A i : (i \in batch.groups) = FALSE
    BY <1>3
<1>5. PICK G, d : G = seedGroups /\ d = runs.died
    OBVIOUS
<1>6. \A i \in DOMAIN G : G[i] \in SeedGroup /\ GroupOk(G[i], "groups", FALSE, d)
    <2>1. \A i \in DOMAIN G : G[i] \in SeedGroup /\ GroupOk(G[i], "groups", i \in batch.groups, d)
        BY <1>1, <1>5, InvGroups
    <2>2. QED
        BY <1>4, <2>1
<1>7. \A i \in DOMAIN G : GroupOk(G[i], "tiers", FALSE, d)
    BY <1>6, OldOk
<1>8. \A i \in DOMAIN seedGroups' : GroupOk(seedGroups'[i], step', i \in batch'.groups, runs'.died)
    <2>1. \A i \in DOMAIN seedGroups : GroupOk(seedGroups[i], "tiers", i \in batch.groups, runs.died)
        BY <1>4, <1>5, <1>7
    <2>2. QED
        BY <1>1, <2>1
<1>9. step \notin NotTested /\ step' \notin NotGrouped /\ step' # "histories"
    BY <1>1 DEF NotTested, NotBonded, NotPeopled, Early, NotGrouped, NoTestChannels, NoTestMembers
<1>10. TestGroups' = TestGroups
    BY <1>1 DEF TestGroups
<1>11. GroupInv'
    BY <1>1, <1>2, <1>3, <1>8, <1>9, <1>10 DEF SeederInv, GroupInv
<1>12. QED
    BY <1>1, <1>11, GroupFrame, InvGroups DEF Grouping

LEMMA CreateGroupsKeeps == SeederInv /\ CreateGroups => SeederInv'
<1> SUFFICES ASSUME SeederInv, CreateGroups PROVE SeederInv'
    OBVIOUS
<1>1. /\ step = "groups" /\ step' = "plans" /\ runs' = runs /\ people' = people
      /\ UNCHANGED <<speakers, friendRows, requestRows, catalog, talk, filed>>
      /\ batch' = [batch EXCEPT !.groups = DOMAIN seedGroups' \ DOMAIN seedGroups]
    BY DEF CreateGroups, Then, Keeps, peopleVars, bondVars, restVars
<1>2. PICK G, n, m, d, P : /\ G = seedGroups /\ n = Len(G) /\ m = MissingGroups /\ d = runs.died /\ P = people
    OBVIOUS
<1>3. /\ G \in Seq(SeedGroup) /\ n \in Nat /\ DOMAIN G = 1 .. n /\ batch.groups = {}
      /\ \A i \in DOMAIN G : /\ G[i] \in SeedGroup /\ GroupOk(G[i], "groups", FALSE, d)
                             /\ G[i].test => MemberOf(G[i]) \subseteq P
      /\ P \subseteq SeedUsers /\ batch \in Batch
    <2>1. batch.groups = {}
        BY <1>1 DEF SeederInv, GroupInv, NotGrouped
    <2>2. \A i : (i \in batch.groups) = FALSE
        BY <2>1
    <2>3. \A i \in DOMAIN G : GroupOk(G[i], "groups", i \in batch.groups, d)
        BY <1>1, <1>2, InvGroups
    <2>4. \A i \in DOMAIN G : GroupOk(G[i], "groups", FALSE, d)
        BY <2>2, <2>3
    <2>5. QED
        BY <1>2, <2>1, <2>4, InvGroups
<1>4. m \in Int /\ m > 0 /\ m >= TotalGroups - n /\ TotalGroups \in Nat
    <2>1. TotalGroups \in Nat
        BY SeederBounds
    <2>2. Deficit \in Nat
        <3>1. PICK f : f = [u \in ImportantUsers |-> AtLeast0(OwnGroups - Owned(u, G))]
            OBVIOUS
        <3>2. ASSUME NEW u
              PROVE  IsFiniteSet({i \in DOMAIN G : G[i].owner = u})
            <4>1. {i \in DOMAIN G : G[i].owner = u} \subseteq DOMAIN G
                OBVIOUS
            <4>2. n \in Nat /\ DOMAIN G = 1 .. n
                BY <1>3
            <4>3. IsFiniteSet(1 .. n)
                BY <4>2, FS_Interval
            <4>4. QED
                BY <4>1, <4>2, <4>3, FS_Subset
        <3>3. \A u : Owned(u, G) \in Nat
            BY <3>2, FS_CardinalityType DEF Owned
        <3>4. \A u \in ImportantUsers : f[u] \in Nat
            BY <3>1, <3>3, AtLeast, SeederBounds
        <3>5. SumFunctionOnSet(f, ImportantUsers) \in Nat
            BY <3>4, SeedSizes, FS_Subset, SumNat
        <3>6. QED
            BY <1>2, <3>1, <3>5 DEF Deficit, SumFunction
    <2>3. PICK a \in Int, b \in Nat : a = TotalGroups - n /\ b = Deficit
        BY <1>3, <2>1, <2>2
    <2>4. m = Max({a, b})
        BY <1>2, <2>3 DEF MissingGroups
    <2>5. Max({a, b}) = IF a >= b THEN a ELSE b
        BY SMTT(30), Smaller
    <2>6. m > 0
        BY <1>2 DEF CreateGroups
    <2>7. QED
        BY <2>1, <2>3, <2>4, <2>5, <2>6
<1>5. PICK owners \in [1 .. m -> P] :
          /\ seedGroups' = G \o [i \in 1 .. m |-> NewGroup(owners[i], FALSE)]
          /\ \A u \in ImportantUsers : Owned(u, seedGroups') >= OwnGroups
    BY <1>2 DEF CreateGroups
<1>6. PICK N : N = [i \in 1 .. m |-> NewGroup(owners[i], FALSE)]
    OBVIOUS
<1>7. N \in Seq(SeedGroup) /\ Len(N) = m /\ m \in Nat
      /\ \A i \in 1 .. m : ~N[i].test /\ GroupOk(N[i], "plans", TRUE, d)
    <2>1. \A i \in 1 .. m : owners[i] \in SeedUsers
        BY <1>3, <1>5
    <2>2. \A i \in 1 .. m : /\ N[i] \in SeedGroup /\ ~N[i].test /\ GroupOk(N[i], "plans", TRUE, d)
        BY <1>6, <2>1, NewOk
    <2>3. m \in Nat
        BY <1>4
    <2>4. N = [i \in 1 .. m |-> N[i]]
        BY <1>6
    <2>5. N \in Seq(SeedGroup) /\ Len(N) = m
        BY <2>2, <2>3, <2>4, MadeSeq
    <2>6. QED
        BY <2>2, <2>3, <2>5
<1>8. PICK H : H = G \o N /\ H = seedGroups'
    BY <1>5, <1>6
<1>9. H \in Seq(SeedGroup) /\ Len(H) = n + m /\ DOMAIN H = 1 .. n + m
      /\ (\A i \in 1 .. n : H[i] = G[i]) /\ \A i \in n + 1 .. n + m : H[i] = N[i - n]
    <2>1. G \in Seq(SeedGroup) /\ N \in Seq(SeedGroup) /\ Len(G) = n /\ Len(N) = m /\ n \in Nat /\ m \in Nat
        BY <1>2, <1>3, <1>7
    <2>2. /\ H \in Seq(SeedGroup) /\ Len(H) = n + m
          /\ \A i \in 1 .. n + m : H[i] = IF i <= n THEN G[i] ELSE N[i - n]
        <3>1. /\ G \o N \in Seq(SeedGroup) /\ Len(G \o N) = Len(G) + Len(N)
              /\ \A i \in 1 .. Len(G) + Len(N) : (G \o N)[i] = IF i <= Len(G) THEN G[i] ELSE N[i - Len(G)]
            BY <2>1, ConcatProperties
        <3>2. QED
            BY <1>8, <2>1, <3>1
    <2>3. DOMAIN H = 1 .. n + m
        BY <2>2
    <2>4. /\ \A i \in 1 .. n : i <= n /\ i \in 1 .. n + m
          /\ \A i \in n + 1 .. n + m : ~(i <= n) /\ i \in 1 .. n + m
        BY <2>1
    <2>5. QED
        BY <2>2, <2>3, <2>4
<1>10. \A i \in 1 .. n + m : \/ i \in 1 .. n /\ i \notin n + 1 .. n + m
                             \/ i \in n + 1 .. n + m /\ i \notin 1 .. n /\ i - n \in 1 .. m
    BY <1>3, <1>4
<1>11. PICK B : B = n + 1 .. n + m /\ B \subseteq DOMAIN H /\ B \subseteq Nat
    BY <1>3, <1>7, <1>9
<1>12. batch' = [batch EXCEPT !.groups = B]
    <2>1. DOMAIN H \ DOMAIN G = B
        BY <1>3, <1>9, <1>10, <1>11
    <2>2. QED
        BY <1>1, <1>2, <1>8, <2>1
<1>13. batch' \in Batch /\ batch'.groups = B /\ batch'.reports = batch.reports
    BY <1>3, <1>11, <1>12 DEF Batch
<1>14. ASSUME NEW i \in DOMAIN H
       PROVE  /\ GroupOk(H[i], "plans", i \in B, d)
              /\ H[i].test => i \in 1 .. n /\ G[i].test /\ H[i] = G[i] /\ MemberOf(H[i]) \subseteq P
    <2>1. CASE i \in 1 .. n
        <3>1. (i \in B) = FALSE /\ H[i] = G[i]
            BY <1>9, <1>10, <1>11, <2>1
        <3>2. GroupOk(G[i], "plans", FALSE, d)
            BY <1>3, <2>1, OldOk
        <3>3. QED
            BY <1>3, <2>1, <3>1, <3>2
    <2>2. CASE i \in n + 1 .. n + m
        <3>1. (i \in B) = TRUE /\ H[i] = N[i - n] /\ i - n \in 1 .. m
            BY <1>9, <1>10, <1>11, <2>2
        <3>2. QED
            BY <1>7, <3>1
    <2>3. QED
        BY <1>9, <1>10, <2>1, <2>2
<1>15. GroupInv'
    <2>1. \A i \in DOMAIN seedGroups' : GroupOk(seedGroups'[i], step', i \in batch'.groups, runs'.died)
        BY <1>1, <1>2, <1>8, <1>13, <1>14
    <2>2. \A i \in DOMAIN seedGroups' : seedGroups'[i].test => MemberOf(seedGroups'[i]) \subseteq people'
        BY <1>1, <1>2, <1>8, <1>14
    <2>3. TestGroups = {i \in 1 .. n : G[i].test}
        BY <1>2, <1>3 DEF TestGroups
    <2>4. TestGroups' = {i \in 1 .. n + m : H[i].test}
        BY <1>8, <1>9 DEF TestGroups
    <2>5. TestGroups' = TestGroups
        BY <1>3, <1>4, <1>9, <1>14, <2>3, <2>4
    <2>6. step \notin NotTested /\ step' \notin NotGrouped /\ step' # "histories"
        BY <1>1 DEF NotTested, NotBonded, NotPeopled, Early, NotGrouped, NoTestChannels, NoTestMembers
    <2>7. Len(seedGroups') >= TotalGroups
        BY <1>3, <1>4, <1>8, <1>9
    <2>8. (\A i, j \in TestGroups' : i = j) /\ TestGroups' # {}
        BY <2>5, <2>6 DEF SeederInv, GroupInv
    <2>9. batch'.groups \subseteq DOMAIN seedGroups'
        BY <1>8, <1>11, <1>13
    <2>10. QED
        BY <1>5, <2>1, <2>2, <2>6, <2>7, <2>8, <2>9 DEF GroupInv
<1>16. QED
    BY <1>1, <1>8, <1>9, <1>13, <1>15, GroupFrame DEF Grouping

-----------------------------------------------------------------------------
(* Tasks and their histories *)

LEMMA SeedTasksKeep == SeederInv /\ SeedTasks => SeederInv'
<1> SUFFICES ASSUME SeederInv, SeedTasks PROVE SeederInv'
    OBVIOUS
<1>1. /\ step = "tasks" /\ step' = "histories" /\ runs' = runs /\ people' = people
      /\ UNCHANGED <<speakers, friendRows, requestRows, catalog, talk, filed>>
      /\ batch' = [batch EXCEPT !.tasks = [i \in DOMAIN seedGroups |-> PlannedTasks(seedGroups[i])]]
    BY DEF SeedTasks, Then, Keeps, peopleVars, bondVars, restVars
<1>2. PICK G, B, d, n : G = seedGroups /\ B = batch.groups /\ d = runs.died /\ n = Len(G)
    OBVIOUS
<1>3. /\ \A i \in DOMAIN G : /\ G[i] \in SeedGroup /\ GroupOk(G[i], "tasks", i \in B, d)
                             /\ G[i].test => MemberOf(G[i]) \subseteq people
      /\ n \in Nat /\ DOMAIN G = 1 .. n /\ batch \in Batch
    BY <1>1, <1>2, InvGroups
<1>4. PICK H : H = [i \in DOMAIN G |-> [G[i] EXCEPT !.tasks = @ + PlannedTasks(G[i]),
                                                    !.special = @ \/ (G[i].test /\ PlannedTasks(G[i]) > 0)]]
               /\ seedGroups' = H
    BY <1>1, <1>2, <1>3 DEF SeedTasks, Update
<1>5. PICK N : N = [i \in 1 .. n |-> PlannedTasks(G[i])]
    OBVIOUS
<1>6. ASSUME NEW i \in DOMAIN G
      PROVE  /\ Keeping(G[i], H[i]) /\ GroupOk(H[i], "histories", i \in B, d)
             /\ MemberOf(H[i]) = MemberOf(G[i])
             /\ N[i] \in Nat /\ H[i].histories + N[i] <= H[i].tasks
             /\ ~d => H[i].histories + N[i] = H[i].tasks
    <2>1. PICK g, h, b, p : g = G[i] /\ h = H[i] /\ b = (i \in B) /\ p = PlannedTasks(g)
        OBVIOUS
    <2>2. g \in SeedGroup /\ GroupOk(g, "tasks", b, d)
        BY <1>3, <2>1
    <2>3. PICK q \in BOOLEAN : q = (g.special \/ (g.test /\ p > 0))
        OBVIOUS
    <2>4. h = [g EXCEPT !.tasks = @ + p, !.special = q]
        BY <1>4, <2>1, <2>3
    <2>5. /\ Keeping(g, h) /\ MemberOf(h) = MemberOf(g) /\ GroupOk(h, "histories", b, d)
          /\ p \in Nat /\ h.histories + p <= h.tasks
          /\ ~d => h.histories + p = h.tasks
        <3>1. p \in Nat
            BY <2>1, <2>2, PlannedFacts DEF GroupOk
        <3>2. WithTasks(g, h, p, q)
            BY <2>2, <2>3, <2>4, <3>1, TasksAdded
        <3>3. g.special \/ (g.test /\ p > 0) => q
            BY <2>3
        <3>4. p = PlannedTasks(g) /\ q \in BOOLEAN
            BY <2>1, <2>3
        <3>5. QED
            BY ONLY <2>2, <3>2, <3>3, <3>4, TasksOk, SMTT(60)
    <2>6. N[i] = p
        BY <1>3, <1>5, <2>1
    <2>7. QED
        BY <2>1, <2>5, <2>6
<1>7. N \in Seq(Nat) /\ Len(N) = n
    <2>1. N = [i \in 1 .. n |-> N[i]]
        BY <1>5
    <2>2. \A i \in 1 .. n : N[i] \in Nat
        BY <1>3, <1>6
    <2>3. QED
        BY <1>3, <2>1, <2>2, MadeSeq
<1>8. batch' = [batch EXCEPT !.tasks = N]
    BY <1>1, <1>2, <1>3, <1>5
<1>9. batch' \in Batch /\ batch'.tasks = N /\ batch'.groups = B /\ batch'.reports = batch.reports
    BY <1>2, <1>3, <1>7, <1>8 DEF Batch
<1>10. /\ step \notin NotTested /\ step' \notin NotTested
       /\ step \notin NotGrouped /\ step' \notin NotGrouped
    BY <1>1 DEF NotGrouped, NoTestChannels, NoTestMembers, NotTested, NotBonded, NotPeopled, Early
<1>11. seedGroups' = H /\ DOMAIN H = DOMAIN G /\ H = [i \in DOMAIN G |-> H[i]]
    BY <1>4
<1>12. SeederTypeOK /\ GroupInv
    BY DEF SeederInv
<1>13. GroupInv' /\ seedGroups' \in Seq(SeedGroup)
    <2>1. DOMAIN seedGroups' = DOMAIN seedGroups /\ seedGroups' = [i \in DOMAIN seedGroups |-> seedGroups'[i]]
        BY <1>2, <1>11
    <2>2. \A i \in DOMAIN seedGroups :
               /\ Keeping(seedGroups[i], seedGroups'[i])
               /\ GroupOk(seedGroups'[i], step', i \in batch.groups, runs.died)
               /\ seedGroups[i].test => MemberOf(seedGroups'[i]) \subseteq people
        BY <1>1, <1>2, <1>3, <1>6, <1>11
    <2>3. /\ Len(batch'.tasks) = Len(seedGroups)
          /\ \A i \in DOMAIN seedGroups :
               /\ seedGroups'[i].histories + batch'.tasks[i] <= seedGroups'[i].tasks
               /\ ~runs.died => seedGroups'[i].histories + batch'.tasks[i] = seedGroups'[i].tasks
        BY <1>2, <1>6, <1>7, <1>9, <1>11
    <2>4. UNCHANGED <<people, runs>> /\ batch'.groups = batch.groups
        BY <1>1, <1>2, <1>9
    <2>5. QED
        BY <1>10, <1>12, <2>1, <2>2, <2>3, <2>4, GroupMoves
<1>14. QED
    BY <1>1, <1>9, <1>13, GroupFrame

LEMMA HistoriesKeep == SeederInv /\ SeedTaskHistories => SeederInv'
<1> SUFFICES ASSUME SeederInv, SeedTaskHistories PROVE SeederInv'
    OBVIOUS
<1>1. /\ step = "histories" /\ step' = "reports" /\ runs' = runs /\ people' = people
      /\ UNCHANGED <<speakers, friendRows, requestRows, catalog, talk, filed>>
      /\ batch' = [batch EXCEPT !.tasks = <<>>]
    BY DEF SeedTaskHistories, Then, Keeps, peopleVars, bondVars, restVars
<1>2. PICK G, B, d, n, N : G = seedGroups /\ B = batch.groups /\ d = runs.died /\ n = Len(G) /\ N = batch.tasks
    OBVIOUS
<1>3. /\ \A i \in DOMAIN G : /\ G[i] \in SeedGroup /\ GroupOk(G[i], "histories", i \in B, d)
                             /\ G[i].test => MemberOf(G[i]) \subseteq people
      /\ n \in Nat /\ DOMAIN G = 1 .. n /\ batch \in Batch
    BY <1>1, <1>2, InvGroups
<1>4. PICK H : H = [i \in DOMAIN G |-> [G[i] EXCEPT !.histories = @ + N[i]]] /\ seedGroups' = H
    BY <1>1, <1>2, <1>3 DEF SeedTaskHistories
<1>5. /\ N \in Seq(Nat) /\ Len(N) = n
      /\ \A i \in DOMAIN G : /\ G[i].histories + N[i] <= G[i].tasks
                             /\ ~d => G[i].histories + N[i] = G[i].tasks
    BY <1>1, <1>2, <1>3 DEF SeederInv, GroupInv, Batch
<1>6. \A i \in DOMAIN G : N[i] \in Nat
    BY <1>3, <1>5
<1>7. ASSUME NEW i \in DOMAIN G
      PROVE  /\ Keeping(G[i], H[i]) /\ GroupOk(H[i], "reports", i \in B, d)
             /\ MemberOf(H[i]) = MemberOf(G[i])
    <2>a. PICK g, h, b, m : g = G[i] /\ h = H[i] /\ b = (i \in B) /\ m = N[i]
        OBVIOUS
    <2>1. h = [g EXCEPT !.histories = @ + m]
        BY <1>4, <2>a
    <2>2. g \in SeedGroup /\ GroupOk(g, "histories", b, d) /\ m \in Nat
          /\ g.histories + m <= g.tasks /\ (~d => g.histories + m = g.tasks)
        BY <1>3, <1>5, <1>6, <2>a
    <2>3. Keeping(g, h) /\ MemberOf(h) = MemberOf(g) /\ GroupOk(h, "reports", b, d)
        BY <2>1, <2>2, HistoriesOk
    <2>4. QED
        BY <2>a, <2>3
<1>8. batch' \in Batch /\ batch'.groups = B /\ batch'.reports = batch.reports
    <2>0. <<>> \in Seq(Nat)
        OBVIOUS
    <2>1. PICK e \in Seq(Nat) : e = <<>>
        BY <2>0
    <2>2. batch' = [batch EXCEPT !.tasks = e]
        BY <1>1, <2>1
    <2>3. QED
        BY <1>2, <1>3, <2>2 DEF Batch
<1>9. /\ step \notin NotTested /\ step' \notin NotTested
      /\ step \notin NotGrouped /\ step' \notin NotGrouped /\ step' # "histories"
    BY <1>1 DEF NotGrouped, NoTestChannels, NoTestMembers, NotTested, NotBonded, NotPeopled, Early
<1>10. seedGroups' = H /\ DOMAIN H = DOMAIN G /\ H = [i \in DOMAIN G |-> H[i]]
    BY <1>4
<1>11. SeederTypeOK /\ GroupInv
    BY DEF SeederInv
<1>12. GroupInv' /\ seedGroups' \in Seq(SeedGroup)
    <2>1. DOMAIN seedGroups' = DOMAIN seedGroups /\ seedGroups' = [i \in DOMAIN seedGroups |-> seedGroups'[i]]
        BY <1>2, <1>10
    <2>2. \A i \in DOMAIN seedGroups :
               /\ Keeping(seedGroups[i], seedGroups'[i])
               /\ GroupOk(seedGroups'[i], step', i \in batch.groups, runs.died)
               /\ seedGroups[i].test => MemberOf(seedGroups'[i]) \subseteq people
        BY <1>1, <1>2, <1>3, <1>7, <1>10
    <2>3. UNCHANGED <<people, runs>> /\ batch'.groups = batch.groups
        BY <1>1, <1>2, <1>8
    <2>4. QED
        BY <1>9, <1>11, <2>1, <2>2, <2>3, GroupMoves
<1>13. QED
    BY <1>1, <1>8, <1>12, GroupFrame

-----------------------------------------------------------------------------
(* The batches before the groups *)

\* A batch that touches no group.
LEMMA StillFrame ==
    ASSUME SeederInv, UNCHANGED <<seedGroups, talk, filed, runs>>,
           step \in GroupsAlone \ {"off"}, step' \in GroupsAlone \ {"off"},
           batch' \in Batch, batch'.groups = batch.groups, batch'.reports = batch.reports,
           catalog' \subseteq {"languages", "categories"},
           people \subseteq people', people' \subseteq SeedUsers, speakers' \subseteq people',
           friendRows' \in [Pairs -> Nat], requestRows' \in [Pairs -> Nat],
           PeopleInv', BondInv'
    PROVE  SeederInv'
<1>1. SeederTypeOK'
    BY DEF SeederInv, SeederTypeOK, Steps, GroupsAlone
<1>2. RunInv'
    BY DEF SeederInv, RunInv
<1>3. TalkInv'
    BY DEF SeederInv, TalkInv, GroupsAlone, Untold, NoUsages, NoSnapshots, NoTiers, NotGrouped,
           NoTestChannels, NoTestMembers, NotTested, NotBonded, NotPeopled, Early
<1>4. FiledInv'
    BY DEF SeederInv, FiledInv, GroupsAlone
<1>5. GroupInv'
    BY GroupStill DEF SeederInv
<1>6. QED
    BY <1>1, <1>2, <1>3, <1>4, <1>5 DEF SeederInv

LEMMA StartRunKeeps == SeederInv /\ StartRun => SeederInv'
<1> SUFFICES ASSUME SeederInv, StartRun PROVE SeederInv'
    OBVIOUS
<1>1. /\ step = "off" /\ step' = "languages" /\ batch' = NoBatch /\ people' = people
      /\ runs' = [runs EXCEPT !.started = @ + 1, !.ended = FALSE] /\ runs.started < MaxRuns
      /\ UNCHANGED <<speakers, friendRows, requestRows, catalog, talk, filed, seedGroups>>
    BY DEF StartRun, Then, Keeps, peopleVars, bondVars, restVars
<1>2. batch = NoBatch
    BY <1>1 DEF SeederInv, RunInv
<1>3. /\ runs.started \in 0 .. MaxRuns /\ runs.died \in BOOLEAN
      /\ runs' \in [started : 0 .. MaxRuns, ended : BOOLEAN, died : BOOLEAN]
      /\ runs'.started = runs.started + 1 /\ ~runs'.ended /\ runs'.died = runs.died
    <2>1. PICK r \in [started : 0 .. MaxRuns, ended : BOOLEAN, died : BOOLEAN] : r = runs
        BY DEF SeederInv, SeederTypeOK
    <2>2. MaxRuns \in Nat /\ r.started < MaxRuns /\ r.started \in 0 .. MaxRuns
        BY <1>1, <2>1, SeederBounds
    <2>3. r.started + 1 \in 0 .. MaxRuns
        BY <2>2
    <2>4. runs' = [r EXCEPT !.started = @ + 1, !.ended = FALSE]
        BY <1>1, <2>1
    <2>5. QED
        BY <2>1, <2>2, <2>3, <2>4
<1>4. SeederTypeOK'
    BY <1>1, <1>3, NobodyYet DEF SeederInv, SeederTypeOK, Steps
<1>5. RunInv'
    BY <1>1, <1>3 DEF RunInv
<1>6. TalkInv'
    <2>1. \A k \in Talks : talk[k] \in 0 .. MaxRuns /\ talk[k] <= runs.started
        BY DEF SeederInv, SeederTypeOK, TalkInv
    <2>2. \A k \in Talks : talk'[k] < runs'.started /\ talk'[k] <= runs'.started
        BY <1>1, <1>3, <2>1, SeederBounds
    <2>3. QED
        BY <2>2 DEF TalkInv
<1>7. FiledInv'
    BY <1>1, <1>2, <1>3 DEF SeederInv, FiledInv
<1>8. PeopleInv'
    BY <1>1, <1>3, SeedSizes DEF SeederInv, PeopleInv, Early, NotPeopled, NoBatch
<1>9. BondInv'
    BY <1>1 DEF SeederInv, BondInv, NotBonded, NotPeopled, Early
<1>10. GroupInv'
    BY <1>1, <1>2, <1>3, GroupStill DEF SeederInv, GroupsAlone
<1>11. QED
    BY <1>4, <1>5, <1>6, <1>7, <1>8, <1>9, <1>10 DEF SeederInv

LEMMA FilesKeep == SeederInv /\ (SaveLanguages \/ SaveCategories) => SeederInv'
<1> SUFFICES ASSUME SeederInv, SaveLanguages \/ SaveCategories PROVE SeederInv'
    OBVIOUS
<1>1. /\ \/ step = "languages" /\ step' = "categories" /\ catalog' = catalog \cup {"languages"}
         \/ step = "categories" /\ step' = "required" /\ catalog' = catalog \cup {"categories"}
      /\ batch' = batch /\ people' = people
      /\ UNCHANGED <<speakers, friendRows, requestRows, talk, filed, seedGroups, runs>>
    BY DEF SaveLanguages, SaveCategories, SaveMissing, Then, Keeps, peopleVars, bondVars, restVars
<1>2. PeopleInv'
    BY <1>1 DEF SeederInv, PeopleInv, Early, NotPeopled
<1>3. BondInv'
    BY <1>1 DEF SeederInv, BondInv, NotBonded, NotPeopled, Early
<1>4. step \in GroupsAlone \ {"off"} /\ step' \in GroupsAlone \ {"off"}
    BY <1>1 DEF GroupsAlone
<1>5. SeederTypeOK
    BY DEF SeederInv
<1>6. QED
    BY <1>1, <1>2, <1>3, <1>4, <1>5, StillFrame DEF SeederTypeOK

LEMMA RequiredKeeps == SeederInv /\ SaveRequiredUser => SeederInv'
<1> SUFFICES ASSUME SeederInv, SaveRequiredUser PROVE SeederInv'
    OBVIOUS
<1>1. /\ step = "required" /\ batch' = [batch EXCEPT !.next = @ + 1]
      /\ people' = people \cup {RequiredUsers[batch'.next]}
      /\ step' = IF batch'.next = Len(RequiredUsers) THEN "users" ELSE "required"
      /\ UNCHANGED <<speakers, friendRows, requestRows, catalog, talk, filed, seedGroups, runs>>
    BY DEF SaveRequiredUser, Then, Keeps, peopleVars, bondVars, restVars
<1>2. SeederTypeOK /\ PeopleInv /\ BondInv
    BY DEF SeederInv
<1>3. PICK n \in Nat, l \in Nat : /\ n = batch.next /\ l = Len(RequiredUsers) /\ n < l
                                  /\ RequiredUsers[n + 1] \in Req
    <2>1. batch \in Batch /\ batch.next < Len(RequiredUsers)
        BY <1>1, <1>2 DEF SeederTypeOK, PeopleInv, Early
    <2>2. PICK n \in Nat, l \in Nat : n = batch.next /\ l = Len(RequiredUsers)
        BY <2>1, SeedSizes DEF Batch
    <2>3. n + 1 \in 1 .. l /\ n < l
        BY <2>1, <2>2
    <2>4. RequiredUsers[n + 1] \in Req
        BY <2>2, <2>3, SeedSizes
    <2>5. QED
        BY <2>2, <2>3, <2>4
<1>4. /\ batch' \in Batch /\ batch'.next = n + 1
      /\ batch'.groups = batch.groups /\ batch'.reports = batch.reports
    <2>1. PICK m \in Nat : m = n + 1
        BY <1>3
    <2>2. batch' = [batch EXCEPT !.next = m] /\ batch \in Batch
        BY <1>1, <1>2, <1>3, <2>1 DEF SeederTypeOK
    <2>3. QED
        BY <2>1, <2>2 DEF Batch
<1>5. people' = people \cup {RequiredUsers[n + 1]} /\ people' \ Req = people \ Req
    BY <1>1, <1>3, <1>4
<1>6. \A i \in 1 .. n + 1 : RequiredUsers[i] \in people'
    <2>1. \A i \in 1 .. n : RequiredUsers[i] \in people
        BY <1>1, <1>2, <1>3 DEF PeopleInv, Early
    <2>2. \A i \in 1 .. n + 1 : i \in 1 .. n \/ i = n + 1
        BY <1>3
    <2>3. QED
        BY <1>3, <1>5, <2>1, <2>2
<1>7. people' \subseteq Req \/ (Req \subseteq people' /\ Cardinality(people') = TotalUsers)
    <2>1. CASE people \subseteq Req
        BY <1>3, <1>5, <2>1
    <2>2. CASE Req \subseteq people /\ Cardinality(people) = TotalUsers
        <3>1. people' = people
            BY <1>3, <1>5, <2>2
        <3>2. QED
            BY <2>2, <3>1
    <2>3. QED
        BY <1>2, <2>1, <2>2 DEF PeopleInv
<1>8. step' = "users" => Req \subseteq people'
    BY <1>1, <1>3, <1>4, <1>6, SeedSizes
<1>9. step' # "users" => batch'.next < Len(RequiredUsers)
    BY <1>1, <1>3, <1>4
<1>10. step' \in {"users", "required"}
    BY <1>1
<1>11. PeopleInv'
    BY <1>1, <1>2, <1>4, <1>5, <1>6, <1>7, <1>8, <1>9, <1>10 DEF PeopleInv, Early, NotPeopled
<1>12. BondInv'
    BY <1>1, <1>2, <1>10 DEF BondInv, NotBonded, NotPeopled, Early
<1>13. step \in GroupsAlone \ {"off"} /\ step' \in GroupsAlone \ {"off"}
    BY <1>1, <1>10 DEF GroupsAlone
<1>14. people' \subseteq SeedUsers
    BY <1>2, <1>3, <1>5, SeedSizes DEF SeederTypeOK
<1>15. QED
    BY <1>1, <1>2, <1>4, <1>5, <1>11, <1>12, <1>13, <1>14, StillFrame DEF SeederTypeOK

LEMMA UsersKeep == SeederInv /\ CreateUsers => SeederInv'
<1> SUFFICES ASSUME SeederInv, CreateUsers PROVE SeederInv'
    OBVIOUS
<1>1. PICK new \in SUBSET (GeneratedUsers \ people) :
          /\ Cardinality(new) = AtLeast0(TotalUsers - Cardinality(people))
          /\ people' = people \cup new
          /\ batch' = [batch EXCEPT !.users = new]
    BY DEF CreateUsers
<1>2. /\ step = "users" /\ step' = "userLanguages"
      /\ UNCHANGED <<speakers, friendRows, requestRows, catalog, talk, filed, seedGroups, runs>>
    BY DEF CreateUsers, Then, Keeps, peopleVars, bondVars, restVars
<1>3. SeederTypeOK /\ PeopleInv /\ BondInv
    BY DEF SeederInv
<1>4. new \subseteq SeedUsers /\ IsFiniteSet(new) /\ IsFiniteSet(people) /\ TotalUsers \in Nat
    <2>1. new \subseteq SeedUsers
        BY DEF SeedUsers
    <2>2. people \subseteq SeedUsers
        BY <1>3 DEF SeederTypeOK
    <2>3. QED
        BY <2>1, <2>2, SeedSizes, FS_Subset, SeederBounds
<1>5. PICK a \in Nat, b \in Nat : a = Cardinality(people) /\ b = Cardinality(new)
    BY <1>4, FS_CardinalityType
<1>6. Cardinality(people') = a + b
    <2>1. people \cap new = {}
        OBVIOUS
    <2>2. Cardinality(people \cup new) = Cardinality(people) + Cardinality(new) - Cardinality({})
        BY <1>4, <2>1, FS_Union
    <2>3. Cardinality({}) = 0
        BY FS_EmptySet
    <2>4. QED
        BY <1>1, <1>5, <2>2, <2>3
<1>7. Req \subseteq people
    BY <1>2, <1>3 DEF PeopleInv, Early
<1>8. a <= TotalUsers
    <2>1. CASE people \subseteq Req
        <3>1. people = Req
            BY <1>7, <2>1
        <3>2. QED
            BY <1>5, <3>1, SeederBounds DEF Req
    <2>2. CASE Cardinality(people) = TotalUsers
        BY <1>4, <1>5, <2>2
    <2>3. QED
        BY <1>3, <2>1, <2>2 DEF PeopleInv
<1>9. Cardinality(people') = TotalUsers
    <2>1. b = TotalUsers - a
        BY <1>1, <1>4, <1>5, <1>8, AtLeast
    <2>2. QED
        BY <1>4, <1>5, <1>6, <2>1
<1>10. batch' \in Batch /\ batch'.users = new
       /\ batch'.groups = batch.groups /\ batch'.reports = batch.reports
    BY <1>1, <1>3, <1>4 DEF SeederTypeOK, Batch
<1>11. new \subseteq people' \ Req /\ people' \ Req = (people \ Req) \cup new
    BY <1>1, <1>7
<1>12. PeopleInv'
    BY <1>1, <1>2, <1>3, <1>7, <1>9, <1>10, <1>11 DEF PeopleInv, Early, NotPeopled
<1>13. BondInv'
    BY <1>2, <1>3 DEF BondInv, NotBonded, NotPeopled, Early
<1>14. step \in GroupsAlone \ {"off"} /\ step' \in GroupsAlone \ {"off"}
    BY <1>2 DEF GroupsAlone
<1>15. people' \subseteq SeedUsers
    BY <1>1, <1>3, <1>4 DEF SeederTypeOK
<1>16. QED
    BY <1>1, <1>2, <1>3, <1>10, <1>12, <1>13, <1>14, <1>15, StillFrame DEF SeederTypeOK

LEMMA CollectionsKeep == SeederInv /\ SeedLanguageCollections => SeederInv'
<1> SUFFICES ASSUME SeederInv, SeedLanguageCollections PROVE SeederInv'
    OBVIOUS
<1>1. /\ step = "userLanguages" /\ step' = "friends" /\ speakers' = speakers \cup batch.users
      /\ batch' = batch /\ people' = people
      /\ UNCHANGED <<friendRows, requestRows, catalog, talk, filed, seedGroups, runs>>
    BY DEF SeedLanguageCollections, Then, Keeps, peopleVars, bondVars, restVars
<1>2. SeederTypeOK /\ PeopleInv /\ BondInv
    BY DEF SeederInv
<1>3. PeopleInv'
    BY <1>1, <1>2 DEF PeopleInv, Early, NotPeopled
<1>4. BondInv'
    BY <1>1, <1>2 DEF BondInv, NotBonded, NotPeopled, Early
<1>5. step \in GroupsAlone \ {"off"} /\ step' \in GroupsAlone \ {"off"}
    BY <1>1 DEF GroupsAlone
<1>6. speakers' \subseteq people'
    BY <1>1, <1>2 DEF SeederTypeOK, PeopleInv
<1>7. QED
    BY <1>1, <1>2, <1>3, <1>4, <1>5, <1>6, StillFrame DEF SeederTypeOK

-----------------------------------------------------------------------------
(* Friendships, messages and reports *)

LEMMA FriendsKeep == SeederInv /\ SeedFriends => SeederInv'
<1> SUFFICES ASSUME SeederInv, SeedFriends PROVE SeederInv'
    OBVIOUS
<1>1. PICK friends \in SUBSET Unlinked({p \in Pairs : p \subseteq people}),
           asked \in SUBSET Unlinked({p \in Pairs : p \subseteq people}) :
          /\ \A p \in asked : requestRows[p] = 0
          /\ friendRows' = AddRows(friendRows, friends)
          /\ batch' = [batch EXCEPT !.requests = asked]
    BY DEF SeedFriends
<1>2. /\ step = "friends" /\ step' = "requests"
      /\ UNCHANGED <<people, speakers, requestRows, catalog, talk, filed, seedGroups, runs>>
    BY DEF SeedFriends, Then, Keeps, peopleVars, bondVars, restVars
<1>3. SeederTypeOK /\ PeopleInv /\ BondInv
    BY DEF SeederInv
<1>4. asked \subseteq Pairs /\ friends \subseteq Pairs /\ \A p \in friends : friendRows[p] = 0
    BY DEF Unlinked
<1>5. batch' \in Batch /\ batch'.requests = asked
      /\ batch'.groups = batch.groups /\ batch'.reports = batch.reports
    BY <1>1, <1>3, <1>4 DEF SeederTypeOK, Batch
<1>6. /\ friendRows' \in [Pairs -> Nat]
      /\ \A p \in Pairs : friendRows'[p] = IF p \in friends THEN friendRows[p] + 1 ELSE friendRows[p]
    <2>1. PICK R \in [Pairs -> Nat] : R = friendRows
        BY <1>3 DEF SeederTypeOK
    <2>2. friendRows' = AddRows(R, friends)
        BY <1>1, <2>1
    <2>3. QED
        BY <2>1, <2>2, AddedPairs
<1>7. PeopleInv'
    BY <1>1, <1>2, <1>3 DEF PeopleInv, Early, NotPeopled
<1>8. BondInv'
    <2>1. \A p \in Pairs : friendRows'[p] <= 1 /\ requestRows'[p] <= 1
        BY <1>2, <1>3, <1>4, <1>6 DEF BondInv
    <2>2. \A p \in batch'.requests : requestRows'[p] = 0
        BY <1>1, <1>2, <1>5
    <2>3. QED
        BY <1>2, <2>1, <2>2 DEF BondInv, NotBonded
<1>9. step \in GroupsAlone \ {"off"} /\ step' \in GroupsAlone \ {"off"}
    BY <1>2 DEF GroupsAlone
<1>10. QED
    BY <1>2, <1>3, <1>5, <1>6, <1>7, <1>8, <1>9, StillFrame DEF SeederTypeOK

LEMMA RequestsKeep == SeederInv /\ SeedRequests => SeederInv'
<1> SUFFICES ASSUME SeederInv, SeedRequests PROVE SeederInv'
    OBVIOUS
<1>1. /\ step = "requests" /\ step' = "connect"
      /\ requestRows' = AddRows(requestRows, batch.requests)
      /\ batch' = [batch EXCEPT !.requests = {}]
      /\ UNCHANGED <<people, speakers, friendRows, catalog, talk, filed, seedGroups, runs>>
    BY DEF SeedRequests, Then, Keeps, peopleVars, bondVars, restVars
<1>2. SeederTypeOK /\ PeopleInv /\ BondInv
    BY DEF SeederInv
<1>3. batch' \in Batch /\ batch'.groups = batch.groups /\ batch'.reports = batch.reports
    BY <1>1, <1>2 DEF SeederTypeOK, Batch
<1>4. /\ requestRows' \in [Pairs -> Nat]
      /\ \A p \in Pairs :
            requestRows'[p] = IF p \in batch.requests THEN requestRows[p] + 1 ELSE requestRows[p]
    <2>1. PICK R \in [Pairs -> Nat] : R = requestRows
        BY <1>2 DEF SeederTypeOK
    <2>2. PICK S : S = batch.requests
        OBVIOUS
    <2>3. requestRows' = AddRows(R, S)
        BY <1>1, <2>1, <2>2
    <2>4. QED
        BY <2>1, <2>2, <2>3, AddedPairs
<1>5. PeopleInv'
    BY <1>1, <1>2 DEF PeopleInv, Early, NotPeopled
<1>6. BondInv'
    <2>1. \A p \in Pairs : friendRows'[p] <= 1 /\ requestRows'[p] <= 1
        BY <1>1, <1>2, <1>4 DEF BondInv
    <2>2. QED
        BY <1>1, <2>1 DEF BondInv, NotBonded
<1>7. step \in GroupsAlone \ {"off"} /\ step' \in GroupsAlone \ {"off"}
    BY <1>1 DEF GroupsAlone
<1>8. QED
    BY <1>1, <1>2, <1>3, <1>4, <1>5, <1>6, <1>7, StillFrame DEF SeederTypeOK

LEMMA ConnectKeeps == SeederInv /\ EnsureRequiredUserFriendships => SeederInv'
<1> SUFFICES ASSUME SeederInv, EnsureRequiredUserFriendships PROVE SeederInv'
    OBVIOUS
<1>1. /\ step = "connect" /\ step' = "testGroup"
      /\ friendRows' = AddRows(friendRows, Unlinked({p \in Pairs : p \subseteq Req}))
      /\ batch' = batch
      /\ UNCHANGED <<people, speakers, requestRows, catalog, talk, filed, seedGroups, runs>>
    BY DEF EnsureRequiredUserFriendships, Then, Keeps, peopleVars, bondVars, restVars, Req
<1>2. SeederTypeOK /\ PeopleInv /\ BondInv
    BY DEF SeederInv
<1>3. PICK S : S = Unlinked({p \in Pairs : p \subseteq Req})
    OBVIOUS
<1>4. \A p \in Pairs : p \in S <=> p \subseteq Req /\ friendRows[p] = 0
    BY <1>3 DEF Unlinked
<1>5. /\ friendRows' \in [Pairs -> Nat]
      /\ \A p \in Pairs : friendRows'[p] = IF p \in S THEN friendRows[p] + 1 ELSE friendRows[p]
    <2>1. PICK R \in [Pairs -> Nat] : R = friendRows
        BY <1>2 DEF SeederTypeOK
    <2>2. friendRows' = AddRows(R, S)
        BY <1>1, <1>3, <2>1
    <2>3. QED
        BY <2>1, <2>2, AddedPairs
<1>6. PeopleInv'
    BY <1>1, <1>2 DEF PeopleInv, Early, NotPeopled
<1>7. BondInv'
    <2>1. \A p \in Pairs : friendRows[p] \in Nat /\ friendRows[p] <= 1
        BY <1>2 DEF BondInv, SeederTypeOK
    <2>2. \A p \in Pairs : friendRows'[p] <= 1 /\ requestRows'[p] <= 1
        BY <1>1, <1>2, <1>4, <1>5 DEF BondInv
    <2>3. \A p \in Pairs : p \subseteq Req => friendRows'[p] = 1
        BY <1>4, <1>5, <2>1
    <2>4. QED
        BY <1>1, <2>2, <2>3 DEF BondInv
<1>8. step \in GroupsAlone \ {"off"} /\ step' \in GroupsAlone \ {"off"}
    BY <1>1 DEF GroupsAlone
<1>9. batch \in Batch
    BY <1>2 DEF SeederTypeOK
<1>10. QED
    BY <1>1, <1>2, <1>5, <1>6, <1>7, <1>8, <1>9, StillFrame DEF SeederTypeOK

LEMMA TalkKeeps ==
    ASSUME SeederInv, NEW kind, NEW next, SeedTalk(kind, next),
           \/ kind = "messages" /\ next = "threads"
           \/ kind = "threads" /\ next = "replies"
           \/ kind = "replies" /\ next = "direct"
           \/ kind = "direct" /\ next = "tasks"
    PROVE  SeederInv'
<1>1. /\ step = kind /\ step' = next /\ batch' = batch /\ people' = people
      /\ talk' = [talk EXCEPT ![kind] = @ + 1]
      /\ UNCHANGED <<speakers, friendRows, requestRows, catalog, filed, seedGroups, runs>>
    BY DEF SeedTalk, Then, Keeps, peopleVars, bondVars
<1>2. SeederTypeOK /\ PeopleInv /\ BondInv /\ TalkInv /\ RunInv /\ FiledInv /\ GroupInv
    BY DEF SeederInv
<1>3. \/ kind = "messages" /\ next = "threads"
      \/ kind = "threads" /\ next = "replies"
      \/ kind = "replies" /\ next = "direct"
      \/ kind = "direct" /\ next = "tasks"
    OBVIOUS
<1>4. kind \in Talks /\ kind # "off" /\ kind \in Untold(kind) /\ next \notin Untold(kind)
    BY <1>3 DEF Talks, Untold, NoUsages, NoSnapshots, NoTiers, NotGrouped, NoChannels, NoLanguages, NoMembers,
           NoTestChannels, NoTestMembers, NotTested, NotBonded, NotPeopled, Early
<1>5. \A k \in Talks : next \in Untold(k) => kind \in Untold(k)
    BY <1>3 DEF Talks, Untold, NoUsages, NoSnapshots, NoTiers, NotGrouped, NoChannels, NoLanguages, NoMembers,
           NoTestChannels, NoTestMembers, NotTested, NotBonded, NotPeopled, Early
<1>6. talk[kind] < runs.started /\ runs.started \in 0 .. MaxRuns /\ MaxRuns \in Nat
      /\ \A k \in Talks : talk[k] \in 0 .. MaxRuns
    BY <1>1, <1>2, <1>4, SeederBounds DEF TalkInv, SeederTypeOK
<1>7. /\ talk' \in [Talks -> 0 .. MaxRuns]
      /\ \A k \in Talks : talk'[k] = IF k = kind THEN talk[k] + 1 ELSE talk[k]
    <2>1. PICK T \in [Talks -> 0 .. MaxRuns] : T = talk
        BY <1>2 DEF SeederTypeOK
    <2>2. T[kind] + 1 \in 0 .. MaxRuns
        BY <1>4, <1>6, <2>1
    <2>3. talk' = [T EXCEPT ![kind] = T[kind] + 1]
        BY <1>1, <2>1
    <2>4. QED
        BY <1>4, <2>1, <2>2, <2>3
<1>8. TalkInv'
    BY <1>1, <1>2, <1>4, <1>5, <1>6, <1>7 DEF TalkInv
<1>9. SeederTypeOK'
    BY <1>1, <1>2, <1>3, <1>7 DEF SeederTypeOK, Steps
<1>10. RunInv' /\ FiledInv'
    BY <1>1, <1>2, <1>3 DEF RunInv, FiledInv
<1>11. PeopleInv'
    BY <1>1, <1>2, <1>3 DEF PeopleInv, Early, NotPeopled
<1>12. BondInv'
    BY <1>1, <1>2, <1>3 DEF BondInv, NotBonded, NotPeopled, Early
<1>13. GroupInv'
    BY <1>1, <1>2, <1>3, GroupStill DEF GroupsMade
<1>14. QED
    BY <1>8, <1>9, <1>10, <1>11, <1>12, <1>13 DEF SeederInv

LEMMA ReportsKeep == SeederInv /\ SeedReports => SeederInv'
<1> SUFFICES ASSUME SeederInv, SeedReports PROVE SeederInv'
    OBVIOUS
<1>1. PICK n \in Candidates(AtLeast0(TargetReports - filed.reports)) :
           /\ filed' = [filed EXCEPT !.reports = @ + n]
           /\ batch' = [batch EXCEPT !.reports = n]
    BY DEF SeedReports
<1>2. /\ step = "reports" /\ step' = "links"
      /\ UNCHANGED <<people, speakers, friendRows, requestRows, catalog, talk, seedGroups, runs>>
    BY DEF SeedReports, Then, Keeps, peopleVars, bondVars
<1>3. SeederTypeOK /\ PeopleInv /\ BondInv /\ TalkInv /\ RunInv /\ FiledInv /\ GroupInv
    BY DEF SeederInv
<1>4. PICK r \in Nat, c \in Nat : /\ r = filed.reports /\ c = filed.categorized
                                  /\ r <= TargetReports /\ c <= r /\ (~runs.died => c = r)
    <2>1. batch.reports = 0
        BY <1>2, <1>3 DEF FiledInv
    <2>2. filed.reports \in Nat /\ filed.categorized \in Nat
        BY <1>3 DEF SeederTypeOK
    <2>3. QED
        BY <1>3, <2>1, <2>2 DEF FiledInv
<1>5. n \in Nat /\ r + n <= TargetReports
    <2>0. TargetReports \in Nat
        BY SeederBounds
    <2>1. PICK k \in Nat : k = TargetReports - r
        BY <1>4, <2>0
    <2>2. AtLeast0(k) = k
        BY <2>1, AtLeast
    <2>3. n \in Min({k, 1}) .. k
        BY <1>1, <1>4, <2>1, <2>2 DEF Candidates
    <2>4. Min({k, 1}) = IF k <= 1 THEN k ELSE 1
        BY <2>1, Smaller
    <2>5. QED
        BY <1>4, <2>0, <2>1, <2>3, <2>4
<1>6. /\ batch' \in Batch /\ batch'.groups = batch.groups /\ batch'.reports = n
    BY <1>1, <1>3, <1>5 DEF SeederTypeOK, Batch
<1>7. /\ filed' \in [reports : Nat, categorized : Nat]
      /\ filed'.reports = r + n /\ filed'.categorized = c
    <2>1. PICK m \in Nat : m = r + n
        BY <1>4, <1>5
    <2>2. filed' = [filed EXCEPT !.reports = m]
        BY <1>1, <1>4, <2>1
    <2>3. QED
        BY <1>3, <1>4, <2>1, <2>2 DEF SeederTypeOK
<1>8. SeederTypeOK'
    BY <1>2, <1>3, <1>6, <1>7 DEF SeederTypeOK, Steps
<1>9. FiledInv'
    BY <1>2, <1>4, <1>5, <1>6, <1>7 DEF FiledInv
<1>10. RunInv'
    BY <1>2, <1>3 DEF RunInv
<1>11. TalkInv'
    BY <1>2, <1>3 DEF TalkInv, Talks, Untold, NoUsages, NoSnapshots, NoTiers, NotGrouped, NoChannels, NoLanguages,
           NoMembers, NoTestChannels, NoTestMembers, NotTested, NotBonded, NotPeopled, Early
<1>12. PeopleInv'
    BY <1>2, <1>3 DEF PeopleInv, Early, NotPeopled
<1>13. BondInv'
    BY <1>2, <1>3 DEF BondInv, NotBonded, NotPeopled, Early
<1>14. GroupInv'
    BY <1>2, <1>3, <1>6, GroupStill DEF GroupsDone
<1>15. QED
    BY <1>3, <1>8, <1>9, <1>10, <1>11, <1>12, <1>13, <1>14 DEF SeederInv

-----------------------------------------------------------------------------
(* The end of a run *)

\* A history is at most its task, in the middle of the batch of histories too.
LEMMA HistoriesBounded ==
    ASSUME SeederInv, NEW i \in DOMAIN seedGroups
    PROVE  seedGroups[i].histories <= seedGroups[i].tasks
<1>1. SeederTypeOK /\ GroupInv
    BY DEF SeederInv
<1>2. PICK g \in SeedGroup : g = seedGroups[i] /\ GroupRows(g, step)
    BY InvGroups DEF GroupOk
<1>3. g.histories \in Nat /\ g.tasks \in Nat
    BY DEF SeedGroup
<1>4. CASE step = "histories"
    <2>1. batch.tasks \in Seq(Nat) /\ Len(batch.tasks) = Len(seedGroups)
        BY <1>1, <1>4 DEF SeederTypeOK, Batch, GroupInv
    <2>2. i \in 1 .. Len(batch.tasks)
        BY <2>1, InvGroups
    <2>3. batch.tasks[i] \in Nat
        BY <2>1, <2>2
    <2>4. g.histories + batch.tasks[i] <= g.tasks
        BY <1>1, <1>2, <1>4 DEF GroupInv
    <2>5. QED
        BY <1>2, <1>3, <2>3, <2>4
<1>5. CASE step # "histories"
    BY <1>2, <1>5 DEF GroupRows
<1>6. QED
    BY <1>4, <1>5

\* A run that ends or dies leaves the tables as they are.
LEMMA EndFrame ==
    ASSUME SeederInv, step # "off", step' = "off", batch' = NoBatch,
           UNCHANGED <<people, speakers, friendRows, requestRows, catalog, talk, seedGroups>>,
           filed' \in [reports : Nat, categorized : Nat],
           runs' \in [started : 0 .. MaxRuns, ended : BOOLEAN, died : BOOLEAN],
           runs'.started = runs.started, ~runs'.died => ~runs.died /\ step = "links"
    PROVE  SeederTypeOK' /\ TalkInv' /\ PeopleInv' /\ BondInv' /\ GroupInv'
<1>1. SeederTypeOK /\ PeopleInv /\ BondInv /\ TalkInv /\ GroupInv
    BY DEF SeederInv
<1>2. SeederTypeOK'
    BY <1>1, NobodyYet DEF SeederTypeOK, Steps
<1>3. TalkInv'
    BY <1>1 DEF TalkInv
<1>4. PeopleInv'
    BY <1>1, SeedSizes DEF PeopleInv, Early, NotPeopled, NoBatch
<1>5. BondInv'
    BY <1>1 DEF BondInv, NotBonded, NotPeopled, Early
<1>6. GroupInv'
    <2>1. PICK G, s, B, d, e : G = seedGroups /\ s = step /\ B = batch.groups /\ d = runs.died /\ e = runs'.died
        OBVIOUS
    <2>2. e \in BOOLEAN /\ d \in BOOLEAN /\ (~e => ~d /\ s = "links")
        BY <1>1, <2>1 DEF SeederTypeOK
    <2>3. ASSUME NEW i \in DOMAIN G PROVE GroupOk(G[i], "off", FALSE, e)
        <3>1. PICK g, b : g = G[i] /\ b = (i \in B)
            OBVIOUS
        <3>2. g \in SeedGroup /\ GroupOk(g, s, b, d) /\ g.histories <= g.tasks
            BY <2>1, <3>1, InvGroups, HistoriesBounded
        <3>3. GroupOk(g, "off", FALSE, e)
            <4>1. CASE e = TRUE
                BY <3>2, <4>1, DiedOk
            <4>2. CASE e = FALSE
                <5>1. d = FALSE /\ s = "links"
                    BY <2>1, <2>2, <4>2
                <5>2. GroupOk(g, "off", FALSE, d)
                    BY <3>2, <5>1, EndedOk
                <5>3. QED
                    BY <4>2, <5>1, <5>2
            <4>3. QED
                BY <2>1, <4>1, <4>2
        <3>4. QED
            BY <3>1, <3>3
    <2>4. batch'.groups = {}
        BY DEF NoBatch
    <2>5. \A i : (i \in batch'.groups) = FALSE
        BY <2>4
    <2>6. \A i \in DOMAIN seedGroups' : GroupOk(seedGroups'[i], step', i \in batch'.groups, runs'.died)
        BY <2>1, <2>3, <2>5
    <2>7. TestGroups' = TestGroups
        BY DEF TestGroups
    <2>8. step' \in NotTested /\ step' \in NotGrouped /\ step' # "histories"
        BY DEF NotTested, NotBonded, NotPeopled, Early, NotGrouped, NoTestChannels, NoTestMembers
    <2>9. QED
        BY <1>1, <2>4, <2>6, <2>7, <2>8 DEF GroupInv
<1>7. QED
    BY <1>2, <1>3, <1>4, <1>5, <1>6

LEMMA FailsKeep == SeederInv /\ RunFails => SeederInv'
<1> SUFFICES ASSUME SeederInv, RunFails PROVE SeederInv'
    OBVIOUS
<1>1. /\ step # "off" /\ step' = "off" /\ batch' = NoBatch
      /\ runs' = [runs EXCEPT !.died = TRUE]
      /\ UNCHANGED <<people, speakers, friendRows, requestRows, catalog, talk, filed, seedGroups>>
    BY DEF RunFails, peopleVars, bondVars, restVars
<1>2. SeederTypeOK /\ RunInv /\ FiledInv
    BY DEF SeederInv
<1>3. /\ runs' \in [started : 0 .. MaxRuns, ended : BOOLEAN, died : BOOLEAN]
      /\ runs'.started = runs.started /\ runs'.ended = runs.ended /\ runs'.died
    BY <1>1, <1>2 DEF SeederTypeOK
<1>4. SeederTypeOK' /\ TalkInv' /\ PeopleInv' /\ BondInv' /\ GroupInv'
    BY <1>1, <1>2, <1>3, EndFrame DEF SeederTypeOK
<1>5. RunInv'
    BY <1>1, <1>2, <1>3 DEF RunInv
<1>6. FiledInv'
    <2>1. filed.categorized \in Nat /\ filed.reports \in Nat /\ batch.reports \in Nat
        BY <1>2 DEF SeederTypeOK, Batch
    <2>2. batch'.reports = 0 /\ filed' = filed
        BY <1>1 DEF NoBatch
    <2>3. QED
        BY <1>1, <1>2, <1>3, <2>1, <2>2 DEF FiledInv
<1>7. QED
    BY <1>4, <1>5, <1>6 DEF SeederInv

\* What the batches of a run add up to, once its reports are saved.
LEMMA AllDone ==
    ASSUME SeederInv, step = "links"
    PROVE  MadeUp /\ (~runs.died => /\ speakers = people \ Range(RequiredUsers)
                                    /\ \A i \in DOMAIN seedGroups : LET g == seedGroups[i] IN
                                        /\ g.owner \in MemberOf(g) /\ g.channels = 1 /\ g.histories = g.tasks
                                        /\ ~g.test => g.languages = 1)
<1>1. SeederTypeOK /\ PeopleInv /\ BondInv /\ GroupInv
    BY DEF SeederInv
<1>2. /\ "links" \notin NotPeopled /\ "links" \notin NotBonded /\ "links" \notin NotGrouped
      /\ "links" \notin NoTestMembers /\ "links" \notin NoTestChannels /\ "links" \notin NoTasks
      /\ "links" \notin NoTiers /\ "links" \notin NoSnapshots /\ "links" \notin NoUsages
      /\ "links" \notin NoMembers /\ "links" \notin NoLanguages /\ "links" \notin NoChannels
    BY DEF NoTasks, NoUsages, NoSnapshots, NoTiers, NotGrouped, NoChannels, NoLanguages, NoMembers,
           NoTestChannels, NoTestMembers, NotTested, NotBonded, NotPeopled, Early
<1>3. ASSUME NEW i \in DOMAIN seedGroups, NEW g, g = seedGroups[i]
      PROVE  /\ g.tiers = 1 /\ g.snapshots = 1 /\ g.usages = 1
             /\ MemberOf(g) # {} => g.tasks = TasksPerGroup
             /\ g.test => /\ g.channels = 1 /\ g.special
                          /\ Cardinality(MemberOf(g)) = Min({TestGroupSize, TotalUsers})
             /\ ~runs.died => /\ g.owner \in MemberOf(g) /\ g.channels = 1 /\ g.histories = g.tasks
                              /\ ~g.test => g.languages = 1
    <2>1. PICK b : b = (i \in batch.groups)
        OBVIOUS
    <2>2. GroupOk(g, "links", b, runs.died)
        BY <1>3, <2>1, InvGroups
    <2>3. QED
        BY <1>2, <2>2 DEF GroupOk, TestRows, MadeUpRows, WholeRows
<1>4. MadeUp
    BY <1>1, <1>2, <1>3 DEF MadeUp, PeopleInv, BondInv, GroupInv, Req
<1>5. ~runs.died => speakers = people \ Range(RequiredUsers)
    BY <1>1 DEF PeopleInv, Req
<1>6. QED
    BY <1>3, <1>4, <1>5

LEMMA CategoriesKeep == SeederInv /\ AssignCategories => SeederInv'
<1> SUFFICES ASSUME SeederInv, AssignCategories PROVE SeederInv'
    OBVIOUS
<1>1. /\ step = "links" /\ step' = "off" /\ batch' = NoBatch
      /\ filed' = [filed EXCEPT !.categorized = @ + batch.reports]
      /\ runs' = [runs EXCEPT !.ended = TRUE]
      /\ UNCHANGED <<people, speakers, friendRows, requestRows, catalog, talk, seedGroups>>
    BY DEF AssignCategories, Then, peopleVars, bondVars
<1>2. SeederTypeOK /\ FiledInv
    BY DEF SeederInv
<1>3. /\ runs' \in [started : 0 .. MaxRuns, ended : BOOLEAN, died : BOOLEAN]
      /\ runs'.started = runs.started /\ runs'.ended /\ runs'.died = runs.died
    BY <1>1, <1>2 DEF SeederTypeOK
<1>4. PICK r \in Nat, c \in Nat, n \in Nat : r = filed.reports /\ c = filed.categorized /\ n = batch.reports
    BY <1>2 DEF SeederTypeOK, Batch
<1>5. /\ filed' \in [reports : Nat, categorized : Nat]
      /\ filed'.reports = r /\ filed'.categorized = c + n
    <2>1. PICK m \in Nat : m = c + n
        BY <1>4
    <2>2. filed' = [filed EXCEPT !.categorized = m]
        BY <1>1, <1>4, <2>1
    <2>3. QED
        BY <1>2, <1>4, <2>1, <2>2 DEF SeederTypeOK
<1>6. SeederTypeOK' /\ TalkInv' /\ PeopleInv' /\ BondInv' /\ GroupInv'
    BY <1>1, <1>3, <1>5, EndFrame
<1>7. FiledInv'
    <2>1. batch'.reports = 0
        BY <1>1 DEF NoBatch
    <2>2. QED
        BY <1>1, <1>2, <1>3, <1>4, <1>5, <2>1 DEF FiledInv
<1>8. MadeUp'
    <2>1. MadeUp
        BY <1>1, AllDone
    <2>2. QED
        BY <1>1, <2>1 DEF MadeUp
<1>9. ~runs'.died => Unbroken'
    <2>1. ~runs.died => filed'.categorized = filed'.reports
        BY <1>2, <1>4, <1>5 DEF FiledInv
    <2>2. QED
        BY <1>1, <1>3, <2>1, AllDone DEF Unbroken
<1>10. RunInv'
    BY <1>1, <1>8, <1>9 DEF RunInv
<1>11. QED
    BY <1>6, <1>7, <1>10 DEF SeederInv

-----------------------------------------------------------------------------
(* The invariant of the command *)

LEMMA SeederInvInit == SeederInit => SeederInv
<1> SUFFICES ASSUME SeederInit PROVE SeederInv
    OBVIOUS
<1>1. /\ step = "off" /\ batch = NoBatch
      /\ catalog = {} /\ people = {} /\ speakers = {}
      /\ friendRows = [p \in Pairs |-> 0] /\ requestRows = [p \in Pairs |-> 0]
      /\ seedGroups = <<>>
      /\ talk = [k \in Talks |-> 0]
      /\ filed = [reports |-> 0, categorized |-> 0]
      /\ runs = [started |-> 0, ended |-> FALSE, died |-> FALSE]
    BY DEF SeederInit
<1>2. MaxRuns \in Nat /\ TargetReports \in Nat
    BY SeederBounds
<1>3. seedGroups \in Seq(SeedGroup) /\ DOMAIN seedGroups = {}
    BY <1>1
<1>4. SeederTypeOK
    BY <1>1, <1>2, <1>3, NobodyYet DEF SeederTypeOK, Steps
<1>5. RunInv /\ TalkInv /\ FiledInv
    BY <1>1, <1>2 DEF RunInv, TalkInv, FiledInv, NoBatch
<1>6. PeopleInv
    BY <1>1, SeedSizes DEF PeopleInv, NoBatch, Early, NotPeopled
<1>7. BondInv
    BY <1>1 DEF BondInv, NotBonded, NotPeopled, Early
<1>8. GroupInv
    BY <1>1, <1>3 DEF GroupInv, NoBatch, TestGroups, NotTested, NotBonded, NotPeopled, Early, NotGrouped,
                      NoTestChannels, NoTestMembers
<1>9. QED
    BY <1>4, <1>5, <1>6, <1>7, <1>8 DEF SeederInv

LEMMA SeederInvStep == SeederInv /\ [SeederNext]_seederVars => SeederInv'
<1> SUFFICES ASSUME SeederInv, [SeederNext]_seederVars PROVE SeederInv'
    OBVIOUS
<1>1. CASE StartRun \/ SaveLanguages \/ SaveCategories \/ SaveRequiredUser
    BY <1>1, StartRunKeeps, FilesKeep, RequiredKeeps
<1>2. CASE CreateUsers \/ SeedLanguageCollections
    BY <1>2, UsersKeep, CollectionsKeep
<1>3. CASE SeedFriends \/ SeedRequests \/ EnsureRequiredUserFriendships
    BY <1>3, FriendsKeep, RequestsKeep, ConnectKeeps
<1>4. CASE SeedTestGroup \/ EnsureTestGroupMemberships \/ EnsureTestGroupChannels \/ TestFreePlan
    BY <1>4, TestGroupKeeps, TestMembersKeep, EnsureTestGroupChannelsKeeps, TestFreePlanKeeps
<1>5. CASE SkipGroups \/ CreateGroups \/ NewFreePlan
    BY <1>5, SkipGroupsKeeps, CreateGroupsKeeps, NewFreePlanKeeps
<1>6. CASE AssignMembers \/ InviteOthers \/ EnsureImportantUsersInGroups
    BY <1>6, AssignMembersKeeps, InviteOthersKeeps, ImportantKeeps
<1>7. CASE AssignLanguages \/ CreateChannels
    BY <1>7, AssignLanguagesKeeps, CreateChannelsKeeps
<1>8. CASE EnsureTiers \/ BackfillEntitlements \/ EnsureUsages
    BY <1>8, EnsureTiersKeeps, BackfillEntitlementsKeeps, EnsureUsagesKeeps
<1>9. CASE SeedGroupConversations \/ SeedDirectMessages
    BY <1>9, TalkKeeps DEF SeedGroupConversations, SeedDirectMessages
<1>10. CASE SeedTasks \/ SeedTaskHistories
    BY <1>10, SeedTasksKeep, HistoriesKeep
<1>11. CASE SeedReports \/ AssignCategories \/ RunFails
    BY <1>11, ReportsKeep, CategoriesKeep, FailsKeep
<1>12. CASE UNCHANGED seederVars
    <2>1. UNCHANGED <<step, batch, people, speakers, friendRows, requestRows, catalog, talk, filed, seedGroups, runs>>
        BY <1>12 DEF seederVars, peopleVars, bondVars, restVars
    <2>2. SeederTypeOK' /\ RunInv' /\ TalkInv' /\ FiledInv' /\ PeopleInv' /\ BondInv'
        BY ZenonT(40), <2>1
           DEF SeederInv, SeederTypeOK, RunInv, MadeUp, Unbroken, TalkInv, FiledInv, PeopleInv, BondInv
    <2>3. GroupInv'
        BY <2>1 DEF SeederInv, GroupInv, TestGroups
    <2>4. QED
        BY <2>2, <2>3 DEF SeederInv
<1>13. QED
    BY <1>1, <1>2, <1>3, <1>4, <1>5, <1>6, <1>7, <1>8, <1>9, <1>10, <1>11, <1>12 DEF SeederNext

LEMMA SeederInvOnce == SeederInv => SeededOnce
<1> SUFFICES ASSUME SeederInv PROVE SeededOnce
    OBVIOUS
<1>1. SeederTypeOK /\ RunInv /\ FiledInv /\ PeopleInv /\ BondInv /\ GroupInv
    BY DEF SeederInv
<1>2. \A p \in Pairs : friendRows[p] <= 1 /\ requestRows[p] <= 1
    BY <1>1 DEF BondInv
<1>3. Cardinality(people) <= TotalUsers
    <2>1. CASE people \subseteq Req
        <3>1. Cardinality(people) <= Cardinality(Req) /\ IsFiniteSet(people)
            BY <2>1, SeedSizes, FS_Subset
        <3>2. Cardinality(people) \in Nat /\ Cardinality(Req) \in Nat /\ Cardinality(Req) <= TotalUsers
            BY <3>1, SeedSizes, FS_CardinalityType, SeederBounds DEF Req
        <3>3. TotalUsers \in Nat
            BY SeederBounds
        <3>4. QED
            BY <3>1, <3>2, <3>3
    <2>2. CASE Cardinality(people) = TotalUsers
        BY <2>2, SeederBounds
    <2>3. QED
        BY <1>1, <2>1, <2>2 DEF PeopleInv
<1>4. Cardinality(TestGroups) <= 1
    <2>1. CASE TestGroups = {}
        BY <2>1, FS_EmptySet
    <2>2. CASE TestGroups # {}
        <3>1. PICK i : i \in TestGroups
            BY <2>2
        <3>2. \A j \in TestGroups : j = i
            BY <1>1, <3>1 DEF GroupInv
        <3>3. TestGroups = {i}
            BY <3>1, <3>2
        <3>4. Cardinality({i}) = 1
            BY FS_Singleton
        <3>5. QED
            BY <3>3, <3>4
    <2>3. QED
        BY <2>1, <2>2
<1>5. ASSUME NEW i \in DOMAIN seedGroups, NEW g, g = seedGroups[i]
      PROVE  /\ \A u \in SeedUsers : g.members[u] <= 1
             /\ {g.languages, g.channels, g.tiers, g.snapshots, g.usages} \subseteq {0, 1}
             /\ g.histories <= g.tasks /\ g.tasks <= TasksPerGroup
    <2>1. g \in SeedGroup /\ GroupRows(g, step) /\ g.histories <= g.tasks
        BY <1>5, InvGroups, HistoriesBounded DEF GroupOk
    <2>2. /\ g.languages \in Nat /\ g.channels \in Nat /\ g.tiers \in Nat /\ g.snapshots \in Nat /\ g.usages \in Nat
          /\ g.languages <= 1 /\ g.channels <= 1 /\ g.tiers <= 1 /\ g.snapshots <= 1 /\ g.usages <= 1
        BY <2>1 DEF SeedGroup, GroupRows
    <2>3. QED
        BY <2>1, <2>2 DEF GroupRows
<1>6. filed.categorized <= filed.reports /\ filed.reports <= TargetReports
    <2>1. filed.categorized \in Nat /\ filed.reports \in Nat /\ batch.reports \in Nat
        BY <1>1 DEF SeederTypeOK, Batch
    <2>2. QED
        BY <1>1, <2>1 DEF FiledInv
<1>7. NothingTwice
    BY <1>2, <1>3, <1>4, <1>5, <1>6 DEF NothingTwice
<1>8. QED
    BY <1>1, <1>7 DEF SeededOnce, RunInv

(***************************************************************************)
(* The rows the seed command writes have their types, and a user with      *)
(* languages is a user, whatever it is asked to make and however often it  *)
(* dies (SeederService.run).                                               *)
(***************************************************************************)
THEOREM SeederTypes == SeederSpec => []SeederTypeOK
<1>1. SeederInv => SeederTypeOK
    BY DEF SeederInv
<1>2. QED
    BY <1>1, SeederInvInit, SeederInvStep, PTL DEF SeederSpec

(***************************************************************************)
(* However many users, groups, tasks and reports the seed command is to    *)
(* make, and wherever earlier runs of it died, it stores no pair, member,  *)
(* channel, tier, snapshot, usage row, task or report twice, and a run     *)
(* that ends has made up for them (SeederService.run).                     *)
(***************************************************************************)
THEOREM SeededJustOnce == SeederSpec => []SeededOnce
    BY SeederInvInit, SeederInvStep, SeederInvOnce, PTL DEF SeederSpec
=============================================================================
