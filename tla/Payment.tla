------------------------------ MODULE Payment ------------------------------
(***************************************************************************)
(* Payments of one group: PaymentService (createDepositUrl, handleCallback)*)
(* and ShareFundService (createOne, donate, deleteOneInGroup) over the     *)
(* transaction, order, share_fund, user and user_group tables.             *)
(*                                                                         *)
(* The services run no database transaction, so every await is a point     *)
(* where another request may run or the process may die.  A request        *)
(* occupies one element of Requests and advances one awaited statement at  *)
(* a time; req[r].pc names the statement it runs next.  A subscription is  *)
(* the constant plan the funds are collecting for; its price times the     *)
(* months is Target.                                                       *)
(*                                                                         *)
(* A vnp_TxnRef names three things at once: the transaction row its        *)
(* deposit inserts, the order that deposit may create, and the payment at  *)
(* the gateway, which outlives the row.                                    *)
(***************************************************************************)
EXTENDS Integers, FiniteSets, FiniteSetsExt

CONSTANTS
    Users,          \* accounts
    Owner,          \* group.createdBy
    Txns,           \* transaction codes
    NoTxn,
    Funds,          \* ids of the share funds that may ever be created
    NoFund,
    Amounts,        \* the amounts a member may pay, in units of the model
    Target,         \* price * monthQuantity of the plan
    ContributeTime, \* share_fund.contributeTime, 0 when it is omitted
    Requests,       \* requests the server may have in flight at once
    MaxDeliveries,  \* bound on the callbacks delivered for one payment
    Failures        \* TRUE when a request may die between two awaits

ASSUME UsersAssumption == Owner \in Users
ASSUME TxnsAssumption == NoTxn \notin Txns
ASSUME FundsAssumption == NoFund \notin Funds
ASSUME AmountsAssumption == Amounts \subseteq Nat \ {0} /\ Amounts # {}
ASSUME TargetAssumption == Target \in Nat \ {0}
ASSUME LimitAssumption == ContributeTime \in Nat
ASSUME BoundAssumption == MaxDeliveries \in Nat /\ Failures \in BOOLEAN

VARIABLES
    members,    \* users with a user_group row
    fund,       \* share_fund rows
    tx,         \* transactionStatus of the row a deposit or a donation inserted
    pay,        \* the columns of that row no statement changes afterwards
    late,       \* status of the row handleCallback inserts when it finds none
    order,      \* orderStatus of the order the deposit of this code created
    outcome,    \* what the gateway knows of the payment
    roles,      \* user.subscriptionRole
    plans,      \* group_subscription rows inserted by the subscription branch
    closed,     \* group_subscription rows inserted by completing a fund
    deliveries, \* callbacks delivered so far
    req         \* the requests in flight

vars == <<members, fund, tx, pay, late, order, outcome, roles, plans, closed,
          deliveries, req>>

db == <<members, fund, tx, pay, late, order, roles, plans, closed>>

-----------------------------------------------------------------------------
(* Rows and requests *)

RowStatus == {"PENDING", "SUCCESS", "FAILED"}

Role == {"CONTRIBUTION", "SPONSOR"}

\* A transaction of type DONATION carries the fund; SUBSCRIPTION has none.
Bill == [method : {"VNPAY", "SHARE_FUND"}, user : Users, fund : Funds \cup {NoFund},
         order : Txns \cup {NoTxn}, amount : Nat]

NoBill == [method |-> "VNPAY", user |-> Owner, fund |-> NoFund,
           order |-> NoTxn, amount |-> 0]

FundRow == [state : {"none", "open", "gone"}, amount : Nat]

Steps == {"idle", "findOrder", "newOrder", "insertTx", "giftInsert", "giftAdd",
          "purge", "dropFund", "openFund", "received", "member", "readRole",
          "writeRole", "readFund", "addAmount", "closeFund", "dropPaid",
          "subscribe", "record", "setOrder", "recheck", "collect", "markPaid"}

\* The local variables of a request: `row` is which transaction row the
\* callback found, `next` an amount it computed from a fund it read.
Request == [pc : Steps, txn : Txns \cup {NoTxn}, bill : Bill,
            row : {"none", "late", "deposit"}, verified : BOOLEAN, ok : BOOLEAN,
            reached : BOOLEAN, next : Nat, had : SUBSET Role, orders : SUBSET Txns]

IdleReq == [pc |-> "idle", txn |-> NoTxn, bill |-> NoBill, row |-> "none",
            verified |-> FALSE, ok |-> FALSE, reached |-> FALSE, next |-> 0,
            had |-> {}, orders |-> {}]

Exists(t) == tx[t] \in RowStatus

Fresh(t) ==
    /\ tx[t] = "unused"
    /\ order[t] = "none"
    /\ \A r \in Requests : req[r].txn # t

InGroup(u) == u = Owner \/ u \in members

RowsOf(f) == {t \in Txns : Exists(t) /\ pay[t].fund = f}

Donated(f) == {t \in RowsOf(f) : tx[t] = "SUCCESS"}

BelowLimit(f) == ContributeTime > 0 => Cardinality(Donated(f)) < ContributeTime

At(r, step) == req[r].pc = step

Become(r, q) == req' = [req EXCEPT ![r] = q]

Goto(r, step) == Become(r, [req[r] EXCEPT !.pc = step])

Finish(r) == Become(r, IdleReq)

Start(r, q) == At(r, "idle") /\ Become(r, q)

-----------------------------------------------------------------------------
(* createDepositUrl *)

\* Membership, the fund and its limit are checked, the amount is the payer's.
DepositStart(r, u, f, a) ==
    /\ InGroup(u)
    /\ f # NoFund => fund[f].state = "open" /\ BelowLimit(f)
    /\ \E t \in Txns :
        /\ Fresh(t)
        /\ Start(r, [IdleReq EXCEPT
                !.pc = IF f = NoFund THEN "newOrder" ELSE "findOrder",
                !.txn = t,
                !.bill = [NoBill EXCEPT !.user = u, !.fund = f, !.amount = a]])
    /\ UNCHANGED <<db, outcome, deliveries>>

OrdersOf(f) == {pay[t].order : t \in RowsOf(f)} \ {NoTxn}

MutOrderPerDonation(r) ==
    /\ At(r, "findOrder")
    /\ Goto(r, "newOrder")
    /\ UNCHANGED <<db, outcome, deliveries>>

\* The order of the latest donation that has one; rows carry a creation time of
\* one second, so any of them may come first.
DepositFindOrder(r) ==
    /\ At(r, "findOrder")
    /\ LET found == OrdersOf(req[r].bill.fund) IN
        \/ /\ found = {}
           /\ Goto(r, "newOrder")
        \/ \E o \in found :
            Become(r, [req[r] EXCEPT !.pc = "insertTx", !.bill.order = o])
    /\ UNCHANGED <<db, outcome, deliveries>>

DepositNewOrder(r) ==
    /\ At(r, "newOrder")
    /\ order' = [order EXCEPT ![req[r].txn] = "PENDING"]
    /\ Become(r, [req[r] EXCEPT !.pc = "insertTx", !.bill.order = req[r].txn])
    /\ UNCHANGED <<members, fund, tx, pay, late, roles, plans, closed, outcome,
                   deliveries>>

\* The row is inserted and the URL handed to the payer with no await between.
DepositInsert(r) ==
    /\ At(r, "insertTx")
    /\ LET t == req[r].txn IN
        /\ tx' = [tx EXCEPT ![t] = "PENDING"]
        /\ pay' = [pay EXCEPT ![t] = req[r].bill]
        /\ outcome' = [outcome EXCEPT ![t] = "pending"]
    /\ Finish(r)
    /\ UNCHANGED <<members, fund, late, order, roles, plans, closed, deliveries>>

-----------------------------------------------------------------------------
(* ShareFundService *)

\* One fund per subscription is checked here and inserted after another await.
CreateFundStart(r) ==
    /\ \A f \in Funds : fund[f].state # "open"
    /\ Start(r, [IdleReq EXCEPT !.pc = "openFund"])
    /\ UNCHANGED <<db, outcome, deliveries>>

CreateFundInsert(r) ==
    /\ At(r, "openFund")
    /\ \E f \in Funds :
        /\ fund[f].state = "none"
        /\ fund' = [fund EXCEPT ![f].state = "open"]
    /\ Finish(r)
    /\ UNCHANGED <<members, tx, pay, late, order, roles, plans, closed, outcome,
                   deliveries>>

DonateStart(r, u, f, a) ==
    /\ u \in members
    /\ fund[f].state = "open"
    /\ BelowLimit(f)
    /\ \E t \in Txns :
        /\ Fresh(t)
        /\ Start(r, [IdleReq EXCEPT !.pc = "giftInsert", !.txn = t,
                !.bill = [NoBill EXCEPT !.method = "SHARE_FUND", !.user = u,
                                        !.fund = f, !.amount = a],
                !.next = fund[f].amount + a])
    /\ UNCHANGED <<db, outcome, deliveries>>

DonateInsert(r) ==
    /\ At(r, "giftInsert")
    /\ tx' = [tx EXCEPT ![req[r].txn] = "SUCCESS"]
    /\ pay' = [pay EXCEPT ![req[r].txn] = req[r].bill]
    /\ Goto(r, "giftAdd")
    /\ UNCHANGED <<members, fund, late, order, roles, plans, closed, outcome,
                   deliveries>>

MutIncrement(f, amount) ==
    IF fund[f].state = "open"
    THEN fund' = [fund EXCEPT ![f].amount = @ + amount]
    ELSE UNCHANGED fund

\* An UPDATE of a fund that is gone changes no row.
WriteAmount(f, amount) ==
    IF fund[f].state = "open"
    THEN fund' = [fund EXCEPT ![f].amount = amount]
    ELSE UNCHANGED fund

DonateAdd(r) ==
    /\ At(r, "giftAdd")
    /\ WriteAmount(req[r].bill.fund, req[r].next)
    /\ Finish(r)
    /\ UNCHANGED <<members, tx, pay, late, order, roles, plans, closed, outcome,
                   deliveries>>

MutAnyDeletable(f) == TRUE

\* No contribution but PENDING ones, and nothing collected.
Deletable(f) ==
    /\ \A t \in RowsOf(f) : tx[t] = "PENDING"
    /\ fund[f].amount = 0

DeleteFundStart(r, f) ==
    /\ fund[f].state = "open"
    /\ Deletable(f)
    /\ Start(r, [IdleReq EXCEPT !.pc = "purge", !.bill = [NoBill EXCEPT !.fund = f]])
    /\ UNCHANGED <<db, outcome, deliveries>>

MutPurgeAll(t, f) == t \in RowsOf(f)

Purgeable(t, f) == t \in RowsOf(f) /\ tx[t] = "PENDING"

DeleteFundPurge(r) ==
    /\ At(r, "purge")
    /\ tx' = [t \in Txns |-> IF Purgeable(t, req[r].bill.fund) THEN "deleted" ELSE tx[t]]
    /\ Goto(r, "dropFund")
    /\ UNCHANGED <<members, fund, pay, late, order, roles, plans, closed, outcome,
                   deliveries>>

DropFund(f) == fund' = [fund EXCEPT ![f] = [state |-> "gone", amount |-> 0]]

DeleteFundDrop(r) ==
    /\ At(r, "dropFund")
    /\ DropFund(req[r].bill.fund)
    /\ Finish(r)
    /\ UNCHANGED <<members, tx, pay, late, order, roles, plans, closed, outcome,
                   deliveries>>

-----------------------------------------------------------------------------
(* handleCallback *)

\* The payer's browser is sent to the return URL, any number of times.  Only a
\* query signed by the gateway tells the decision of the gateway.
Callback(r, t, verified, ok) ==
    /\ outcome[t] # "unsent"
    /\ deliveries[t] < MaxDeliveries
    /\ verified => outcome[t] = IF ok THEN "success" ELSE "failed"
    /\ Start(r, [IdleReq EXCEPT !.pc = "received", !.txn = t,
                                !.verified = verified, !.ok = ok])
    /\ deliveries' = [deliveries EXCEPT ![t] = @ + 1]
    /\ UNCHANGED <<db, outcome>>

RowFound(t) ==
    IF Exists(t) THEN "deposit" ELSE IF late[t] # "absent" THEN "late" ELSE "none"

MutNeverProcessed(t) == FALSE

AlreadyProcessed(t) ==
    \/ RowFound(t) = "deposit" /\ tx[t] = "SUCCESS"
    \/ RowFound(t) = "late" /\ late[t] = "SUCCESS"

MutTrustUnverified(q) == TRUE

Trusted(q) == q.verified

\* An unverified query returns without a change; a success not yet processed
\* goes through the branch that applies it.
LookUp(r) ==
    /\ At(r, "received")
    /\ LET t == req[r].txn IN
        IF ~Trusted(req[r]) THEN Finish(r)
        ELSE Become(r, [req[r] EXCEPT !.row = RowFound(t),
                                      !.pc = IF req[r].ok /\ ~AlreadyProcessed(t)
                                             THEN "member" ELSE "record"])
    /\ UNCHANGED <<db, outcome, deliveries>>

\* isDonationFlow: the type and the fund come from the row that was found.
Donating(q) == q.row = "deposit" /\ pay[q.txn].fund # NoFund

Payer(r) == pay[req[r].txn].user

FundOf(r) == pay[req[r].txn].fund

\* A payer who left the group makes the callback throw.
CheckMember(r) ==
    /\ At(r, "member")
    /\ IF InGroup(Payer(r)) THEN Goto(r, "readRole") ELSE Finish(r)
    /\ UNCHANGED <<db, outcome, deliveries>>

Granted(q) == IF Donating(q) THEN "CONTRIBUTION" ELSE "SPONSOR"

MutNoPlan(q) == IF Donating(q) THEN "readFund" ELSE "record"

Apply(q) == IF Donating(q) THEN "readFund" ELSE "subscribe"

ReadRole(r) ==
    /\ At(r, "readRole")
    /\ IF Granted(req[r]) \in roles[Payer(r)]
       THEN Goto(r, Apply(req[r]))
       ELSE Become(r, [req[r] EXCEPT !.pc = "writeRole", !.had = roles[Payer(r)]])
    /\ UNCHANGED <<db, outcome, deliveries>>

MutRoleReplaced(q) == {Granted(q)}

\* The array that was read, with the role at its end.
RolesWritten(q) == q.had \cup {Granted(q)}

WriteRole(r) ==
    /\ At(r, "writeRole")
    /\ roles' = [roles EXCEPT ![Payer(r)] = RolesWritten(req[r])]
    /\ Become(r, [req[r] EXCEPT !.pc = Apply(req[r]), !.had = {}])
    /\ UNCHANGED <<members, fund, tx, pay, late, order, plans, closed, outcome,
                   deliveries>>

MutGoneThrows(r) ==
    /\ At(r, "readFund")
    /\ IF fund[FundOf(r)].state = "open"
       THEN Become(r, [req[r] EXCEPT !.pc = "addAmount",
                          !.next = fund[FundOf(r)].amount + pay[req[r].txn].amount])
       ELSE Finish(r)
    /\ UNCHANGED <<db, outcome, deliveries>>

\* A fund that is gone was completed by another callback, or deleted.
ReadFund(r) ==
    /\ At(r, "readFund")
    /\ IF fund[FundOf(r)].state = "open"
       THEN Become(r, [req[r] EXCEPT !.pc = "addAmount",
                          !.next = fund[FundOf(r)].amount + pay[req[r].txn].amount])
       ELSE Become(r, [req[r] EXCEPT !.pc = "record", !.reached = TRUE])
    /\ UNCHANGED <<db, outcome, deliveries>>

MutAboveTarget(amount) == amount > Target

ReachesTarget(amount) == amount >= Target

AddAmount(r) ==
    /\ At(r, "addAmount")
    /\ WriteAmount(FundOf(r), req[r].next)
    /\ Goto(r, IF ReachesTarget(req[r].next) THEN "closeFund" ELSE "record")
    /\ UNCHANGED <<members, tx, pay, late, order, roles, plans, closed, outcome,
                   deliveries>>

CloseFund(r) ==
    /\ At(r, "closeFund")
    /\ closed' = [closed EXCEPT ![FundOf(r)] = @ + 1]
    /\ Goto(r, "dropPaid")
    /\ UNCHANGED <<members, fund, tx, pay, late, order, roles, plans, outcome,
                   deliveries>>

DropPaidFund(r) ==
    /\ At(r, "dropPaid")
    /\ DropFund(FundOf(r))
    /\ Become(r, [req[r] EXCEPT !.pc = "record", !.reached = TRUE])
    /\ UNCHANGED <<members, tx, pay, late, order, roles, plans, closed, outcome,
                   deliveries>>

Subscribe(r) ==
    /\ At(r, "subscribe")
    /\ plans' = [plans EXCEPT ![req[r].txn] = @ + 1]
    /\ Goto(r, "record")
    /\ UNCHANGED <<members, fund, tx, pay, late, order, roles, closed, outcome,
                   deliveries>>

MutKeepPending(ok) == IF ok THEN "SUCCESS" ELSE "PENDING"

StatusOf(ok) == IF ok THEN "SUCCESS" ELSE "FAILED"

MutOrderByCode(q) ==
    IF q.row = "deposit" THEN pay[q.txn].order
    ELSE IF order[q.txn] # "none" THEN q.txn ELSE NoTxn

\* The order of the row that was found, or the one whose code is the txnRef: the
\* order of a donation has the code of its fund.
OrderOf(q) ==
    IF q.row = "deposit" THEN pay[q.txn].order
    ELSE IF pay[q.txn].fund = NoFund /\ order[q.txn] # "none" THEN q.txn ELSE NoTxn

MutNoRecheck(q) ==
    IF OrderOf(q) = NoTxn \/ (Donating(q) /\ ~q.ok) THEN "idle"
    ELSE IF Donating(q) THEN "collect" ELSE "setOrder"

AfterRecord(q) ==
    IF OrderOf(q) = NoTxn \/ (Donating(q) /\ ~q.ok) THEN "idle"
    ELSE IF ~Donating(q) THEN "setOrder"
    ELSE IF q.reached THEN "collect" ELSE "recheck"

\* The row that was found is updated by its id, which changes nothing when it is
\* deleted by now; with no row found one of type SUBSCRIPTION is inserted.
Record(r) ==
    /\ At(r, "record")
    /\ LET q == req[r]
           t == q.txn IN
        /\ tx' = IF q.row = "deposit" /\ Exists(t)
                 THEN [tx EXCEPT ![t] = StatusOf(q.ok)] ELSE tx
        /\ late' = IF q.row # "deposit"
                   THEN [late EXCEPT ![t] = StatusOf(q.ok)] ELSE late
        /\ IF AfterRecord(q) = "idle" THEN Finish(r) ELSE Goto(r, AfterRecord(q))
    /\ UNCHANGED <<members, fund, pay, order, roles, plans, closed, outcome,
                   deliveries>>

SetOrder(r) ==
    /\ At(r, "setOrder")
    /\ order' = [order EXCEPT ![OrderOf(req[r])] = IF req[r].ok THEN "PAID" ELSE "FAILED"]
    /\ Finish(r)
    /\ UNCHANGED <<members, fund, tx, pay, late, roles, plans, closed, outcome,
                   deliveries>>

\* The callback did not see the target reached itself: look at the fund again.
Recheck(r) ==
    /\ At(r, "recheck")
    /\ IF fund[FundOf(r)].state = "open" /\ ~ReachesTarget(fund[FundOf(r)].amount)
       THEN Finish(r) ELSE Goto(r, "collect")
    /\ UNCHANGED <<db, outcome, deliveries>>

PaidOrders(f) == {pay[t].order : t \in Donated(f)} \ {NoTxn}

CollectOrders(r) ==
    /\ At(r, "collect")
    /\ LET found == PaidOrders(FundOf(r)) IN
        Become(r, [req[r] EXCEPT !.pc = "markPaid",
                     !.orders = IF found # {} THEN found ELSE {OrderOf(req[r])}])
    /\ UNCHANGED <<db, outcome, deliveries>>

MarkPaid(r) ==
    /\ At(r, "markPaid")
    /\ order' = [o \in Txns |-> IF o \in req[r].orders THEN "PAID" ELSE order[o]]
    /\ Finish(r)
    /\ UNCHANGED <<members, fund, tx, pay, late, roles, plans, closed, outcome,
                   deliveries>>

-----------------------------------------------------------------------------
(* The surroundings: the gateway, the group's members, failures *)

Decide(t) ==
    /\ outcome[t] = "pending"
    /\ \E v \in {"success", "failed"} : outcome' = [outcome EXCEPT ![t] = v]
    /\ UNCHANGED <<db, deliveries, req>>

\* A member leaves or is removed, or joins again.
ChangeMembership(u) ==
    /\ members' = IF u \in members THEN members \ {u} ELSE members \cup {u}
    /\ UNCHANGED <<fund, tx, pay, late, order, roles, plans, closed, outcome,
                   deliveries, req>>

\* The statement a request awaits throws, or the process dies.
Fail(r) ==
    /\ Failures
    /\ ~At(r, "idle")
    /\ Finish(r)
    /\ UNCHANGED <<db, outcome, deliveries>>

-----------------------------------------------------------------------------
(* Specification *)

Init ==
    /\ members = Users
    /\ fund = [f \in Funds |-> [state |-> "none", amount |-> 0]]
    /\ tx = [t \in Txns |-> "unused"]
    /\ pay = [t \in Txns |-> NoBill]
    /\ late = [t \in Txns |-> "absent"]
    /\ order = [t \in Txns |-> "none"]
    /\ outcome = [t \in Txns |-> "unsent"]
    /\ roles = [u \in Users |-> {}]
    /\ plans = [t \in Txns |-> 0]
    /\ closed = [f \in Funds |-> 0]
    /\ deliveries = [t \in Txns |-> 0]
    /\ req = [r \in Requests |-> IdleReq]

\* A new request of a member, of the owner or of the gateway.
Arrive(r) ==
    \/ \E u \in Users, f \in Funds \cup {NoFund}, a \in Amounts : DepositStart(r, u, f, a)
    \/ \E u \in Users, f \in Funds, a \in Amounts : DonateStart(r, u, f, a)
    \/ CreateFundStart(r)
    \/ \E f \in Funds : DeleteFundStart(r, f)
    \/ \E t \in Txns, verified, ok \in BOOLEAN : Callback(r, t, verified, ok)

\* The next statement of a request in flight.
Continue(r) ==
    \/ DepositFindOrder(r) \/ DepositNewOrder(r) \/ DepositInsert(r)
    \/ CreateFundInsert(r) \/ DonateInsert(r) \/ DonateAdd(r)
    \/ DeleteFundPurge(r) \/ DeleteFundDrop(r)
    \/ LookUp(r) \/ CheckMember(r) \/ ReadRole(r) \/ WriteRole(r)
    \/ ReadFund(r) \/ AddAmount(r) \/ CloseFund(r) \/ DropPaidFund(r) \/ Subscribe(r)
    \/ Record(r) \/ SetOrder(r) \/ Recheck(r) \/ CollectOrders(r) \/ MarkPaid(r)

Next ==
    \/ \E r \in Requests : Arrive(r) \/ Continue(r) \/ Fail(r)
    \/ \E t \in Txns : Decide(t)
    \/ \E u \in Users : ChangeMembership(u)

\* The event loop resumes every request whose statement has completed.
Spec ==
    /\ Init /\ [][Next]_vars
    /\ \A r \in Requests : WF_vars(Continue(r))

-----------------------------------------------------------------------------
(* Properties of every schedule: requests in any order, repeated callbacks,  *)
(* requests that die between two statements                                  *)

TypeOK ==
    /\ members \in SUBSET Users
    /\ fund \in [Funds -> FundRow]
    /\ tx \in [Txns -> {"unused", "deleted"} \cup RowStatus]
    /\ pay \in [Txns -> Bill]
    /\ late \in [Txns -> {"absent", "SUCCESS", "FAILED"}]
    /\ order \in [Txns -> {"none", "PENDING", "PAID", "FAILED"}]
    /\ outcome \in [Txns -> {"unsent", "pending", "success", "failed"}]
    /\ roles \in [Users -> SUBSET Role]
    /\ plans \in [Txns -> Nat]
    /\ closed \in [Funds -> Nat]
    /\ deliveries \in [Txns -> Nat]
    /\ req \in [Requests -> Request]

\* A payment recorded as SUCCESS by a callback was charged by the gateway, and
\* when it buys a plan (or no donation row was found for it) the plan had been
\* granted before: handleCallback applies first and records last, so a callback
\* that dies half-way is done again and never leaves a customer unserved.
SettledIsServed ==
    \A t \in Txns :
        /\ tx[t] = "SUCCESS" /\ pay[t].method = "VNPAY" => outcome[t] = "success"
        /\ tx[t] = "SUCCESS" /\ pay[t].method = "VNPAY" /\ pay[t].fund = NoFund
            => plans[t] > 0
        /\ late[t] = "SUCCESS" => outcome[t] = "success" /\ plans[t] > 0

\* The order of a subscription is PAID only when its payment is recorded as
\* SUCCESS and its plan has been granted, FAILED only when it is recorded FAILED.
OrderFollowsPayment ==
    \A t \in Txns :
        pay[t].method = "VNPAY" /\ pay[t].fund = NoFund =>
            /\ order[t] = "PAID" => tx[t] = "SUCCESS" /\ plans[t] > 0
            /\ order[t] = "FAILED" => tx[t] = "FAILED"

\* Donations share one order: a donation that fails does not set it to FAILED,
\* whatever row its callback found.
DonationOrderNeverFailed ==
    \A t \in Txns :
        pay[t].fund # NoFund /\ pay[t].order # NoTxn => order[pay[t].order] # "FAILED"

\* A fund is completed, and its plan granted, only by a donation through the
\* gateway that was charged: ShareFundService.donate never completes one.
CompletedByCharge ==
    \A f \in Funds :
        closed[f] > 0 =>
            \E t \in Txns : /\ pay[t].fund = f /\ pay[t].method = "VNPAY"
                            /\ outcome[t] = "success"

\* A contribution once recorded as SUCCESS stays: deleting a fund removes PENDING
\* rows only, even when the fund was found deletable before the contribution.
ContributionsStay ==
    [][\A t \in Txns : tx[t] = "SUCCESS" => tx'[t] = "SUCCESS"]_vars

Contract == INSTANCE PaymentContract WITH
    verdict <- outcome,
    buysPlan <- [t \in Txns |-> outcome[t] # "unsent" /\ pay[t].fund = NoFund],
    served <- plans,
    settled <- [t \in Txns |->
        IF pay[t].method = "VNPAY" /\ tx[t] \in {"SUCCESS", "FAILED"} THEN tx[t]
        ELSE IF late[t] # "absent" THEN late[t] ELSE "open"],
    confirmed <- [t \in Txns |->
        IF pay[t].fund = NoFund /\ order[t] \in {"PAID", "FAILED"}
        THEN order[t] ELSE "open"]

\* The payment component does what PaymentContract promises: plans are granted
\* for charged payments only, settled after they are served, confirmed after
\* they are settled, and neither settlement nor confirmation is ever revised.
ImplementsContract == Contract!Spec

-----------------------------------------------------------------------------
(* Properties of requests none of which dies, all but AppliedOnce of one     *)
(* request at a time                                                         *)

Quiet == \A r \in Requests : At(r, "idle")

\* Between requests the amount of an open fund is the sum of its successful
\* contributions, whichever of the two services recorded them.
FundMatchesLedger ==
    Quiet => \A f \in Funds :
        fund[f].state = "open" =>
            fund[f].amount = SumFunction([t \in Donated(f) |-> pay[t].amount])

\* However often the gateway's answer is delivered, a payment grants no more plans
\* than callbacks may overlap, and a fund is completed no more often: a delivery
\* after the record applies nothing, and one at a time they apply it once.
AppliedOnce ==
    /\ \A t \in Txns : plans[t] <= Cardinality(Requests)
    /\ \A f \in Funds : closed[f] <= Cardinality(Requests)

\* A fund that took a successful contribution disappears only by granting the
\* plan it collected for.
ContributorsServed ==
    \A f \in Funds : fund[f].state = "gone" /\ Donated(f) # {} => closed[f] > 0

\* Every donation of a fund that has an order shares it, and the order is PAID
\* only once the fund has reached its target.
SharedOrder ==
    \A f \in Funds :
        /\ Cardinality(OrdersOf(f)) <= 1
        /\ \A o \in OrdersOf(f) :
            order[o] = "PAID" => closed[f] > 0 \/ ReachesTarget(fund[f].amount)

\* A payer whose payment is recorded as SUCCESS holds the role it earns.
PayerHasRole ==
    \A t \in Txns :
        tx[t] = "SUCCESS" /\ pay[t].method = "VNPAY" =>
            (IF pay[t].fund = NoFund THEN "SPONSOR" ELSE "CONTRIBUTION")
                \in roles[pay[t].user]

\* A charged payment whose payer is found in the group is recorded as SUCCESS.
ChargedIsSettled ==
    \A t \in Txns :
        (\E r \in Requests : At(r, "readRole") /\ req[r].txn = t)
            ~> (tx[t] = "SUCCESS" \/ late[t] = "SUCCESS")

-----------------------------------------------------------------------------
(* Statements of the repository that the code does not keep *)

\* A plan is applied for a donation only when its fund has reached the target.
DonationBuysNoPlan == \A t \in Txns : plans[t] > 0 => pay[t].fund = NoFund

\* No more successful contributions than the fund allows.
LimitKept ==
    \A f \in Funds : ContributeTime > 0 => Cardinality(Donated(f)) <= ContributeTime
=============================================================================
