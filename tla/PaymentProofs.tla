---------------------------- MODULE PaymentProofs ----------------------------
(***************************************************************************)
(* Proofs about Payment for any number of users, payments, funds and       *)
(* requests: type correctness, that a settled payment has been served,     *)
(* that the order of a subscription follows its payment, that the shared   *)
(* order of the donations never becomes FAILED, that a completed fund was  *)
(* charged, and that Payment implements PaymentContract.                   *)
(*                                                                         *)
(* None of these is inductive: a callback applies, records and confirms in *)
(* separate statements, each relying on what the row it read at the start  *)
(* said.  ReqInv states what a request may rely on at each statement, and  *)
(* RowInv how the rows of one transaction code relate.                     *)
(*                                                                         *)
(* When no request dies (~Failures), a payment is applied no more often    *)
(* than requests overlap: OnceInv counts what was applied together with    *)
(* the requests that are about to apply it.                                *)
(*                                                                         *)
(* When the server moreover has one request at a time (Requests = {r}) the *)
(* ledger of a fund adds up, contributors are served, donations share one  *)
(* order and payers keep the role they earned.  The invariant of that      *)
(* case, SerialInv, says what a request in flight has already written and  *)
(* still owes: a donation is in the ledger before it is in the amount, and *)
(* a callback adds the amount before it records the row.                   *)
(***************************************************************************)
EXTENDS Payment, Sums, TLAPS

CallbackSteps == {"member", "readRole", "writeRole", "readFund", "addAmount",
                  "closeFund", "dropPaid", "subscribe", "record", "setOrder",
                  "recheck", "collect", "markPaid"}

DonationSteps == {"readFund", "addAmount", "closeFund", "dropPaid", "recheck",
                  "collect", "markPaid"}

DepositSteps == {"findOrder", "newOrder", "insertTx", "giftInsert"}

\* The rows of one transaction code.
RowInv(t) ==
    /\ tx[t] = "unused" => /\ pay[t] = NoBill
                           /\ outcome[t] = "unsent"
                           /\ order[t] \in {"none", "PENDING"}
    /\ outcome[t] # "unsent" => pay[t].method = "VNPAY"
    /\ tx[t] # "unused" /\ pay[t].method = "VNPAY" => outcome[t] # "unsent"
    /\ tx[t] # "unused" /\ pay[t].fund = NoFund =>
            pay[t].order = t /\ tx[t] # "deleted"
    /\ pay[t].fund # NoFund =>
            /\ order[t] # "FAILED"
            /\ pay[t].order # NoTxn => pay[pay[t].order].fund # NoFund
            /\ pay[t].method = "VNPAY" => pay[t].order # NoTxn
    /\ pay[t].method = "VNPAY" =>
            /\ tx[t] = "SUCCESS" => outcome[t] = "success"
            /\ tx[t] = "FAILED" => outcome[t] = "failed"
    /\ late[t] = "SUCCESS" => outcome[t] = "success"
    /\ late[t] = "FAILED" => outcome[t] = "failed"

\* What a request in flight may rely on.
ReqInv(r) ==
    LET q == req[r]
        t == q.txn IN
    /\ q.pc \in DepositSteps =>
        /\ t \in Txns
        /\ tx[t] = "unused"
        /\ \A s \in Requests : req[s].txn = t => s = r
    /\ q.pc \in {"findOrder", "newOrder", "insertTx"} => q.bill.method = "VNPAY"
    /\ q.pc = "findOrder" => q.bill.fund # NoFund
    /\ q.pc = "giftInsert" => q.bill.method = "SHARE_FUND" /\ q.bill.fund # NoFund
                               /\ q.bill.order = NoTxn
    /\ q.pc = "insertTx" =>
        /\ q.bill.order # NoTxn
        /\ q.bill.order = t \/ (q.bill.fund # NoFund /\ pay[q.bill.order].fund # NoFund)
    /\ q.pc \in {"giftAdd", "purge", "dropFund"} => q.bill.fund # NoFund
    /\ q.pc \in CallbackSteps \cup {"received"} => t \in Txns /\ outcome[t] # "unsent"
    /\ q.pc \in CallbackSteps \/ (q.pc = "received" /\ q.verified) =>
        outcome[t] = IF q.ok THEN "success" ELSE "failed"
    /\ q.pc \in CallbackSteps /\ pay[t].fund = NoFund => q.row = "deposit"
    /\ q.pc \in CallbackSteps \ {"record", "setOrder"} => q.ok
    /\ q.pc \in DonationSteps => Donating(q)
    /\ q.pc = "subscribe" => ~Donating(q)
    /\ q.pc = "record" /\ q.ok /\ ~Donating(q) => plans[t] > 0
    /\ q.pc = "setOrder" => /\ pay[t].fund = NoFund
                            /\ OrderOf(q) = t
                            /\ tx[t] = StatusOf(q.ok)
    /\ q.pc = "markPaid" => \A o \in q.orders : pay[o].fund # NoFund

IInv ==
    /\ TypeOK
    /\ \A t \in Txns : RowInv(t)
    /\ \A r \in Requests : ReqInv(r)
    /\ SettledIsServed
    /\ OrderFollowsPayment

-----------------------------------------------------------------------------
(* Type correctness *)

USE UsersAssumption, TxnsAssumption, FundsAssumption, AmountsAssumption

LEMMA IdleReqType == IdleReq \in Request /\ NoBill \in Bill
BY DEF IdleReq, Request, NoBill, Bill, Steps, Role

LEMMA InitType == Init => TypeOK
BY IdleReqType DEF Init, TypeOK, FundRow, RowStatus

LEMMA StartType ==
    ASSUME TypeOK, NEW r \in Requests, NEW q \in Request, Start(r, q),
           UNCHANGED <<db, outcome, deliveries>>
    PROVE  TypeOK'
BY DEF Start, Become, TypeOK, db

LEMMA ArriveType ==
    ASSUME TypeOK, NEW r \in Requests, Arrive(r)
    PROVE  TypeOK'
<1>1. ASSUME NEW u \in Users, NEW f \in Funds \cup {NoFund}, NEW a \in Amounts,
             DepositStart(r, u, f, a)
      PROVE  TypeOK'
  <2> DEFINE b == [NoBill EXCEPT !.user = u, !.fund = f, !.amount = a]
             step == IF f = NoFund THEN "newOrder" ELSE "findOrder"
  <2>1. b \in Bill
    BY DEF Bill, NoBill
  <2>2. step \in Steps
    BY DEF Steps
  <2>3. PICK t \in Txns : Start(r, [IdleReq EXCEPT !.pc = step, !.txn = t, !.bill = b])
    BY <1>1 DEF DepositStart
  <2> HIDE DEF b, step
  <2>4. [IdleReq EXCEPT !.pc = step, !.txn = t, !.bill = b] \in Request
    BY <2>1, <2>2, IdleReqType DEF Request
  <2> QED BY <1>1, <2>3, <2>4, StartType DEF DepositStart
<1>2. ASSUME NEW u \in Users, NEW f \in Funds, NEW a \in Amounts, DonateStart(r, u, f, a)
      PROVE  TypeOK'
  <2> DEFINE b == [NoBill EXCEPT !.method = "SHARE_FUND", !.user = u,
                                 !.fund = f, !.amount = a]
             n == fund[f].amount + a
  <2>1. b \in Bill
    BY DEF Bill, NoBill
  <2>2. n \in Nat /\ "giftInsert" \in Steps
    BY DEF TypeOK, FundRow, Steps
  <2>3. PICK t \in Txns : Start(r, [IdleReq EXCEPT !.pc = "giftInsert", !.txn = t,
                                                  !.bill = b, !.next = n])
    BY <1>2 DEF DonateStart
  <2> HIDE DEF b, n
  <2>4. [IdleReq EXCEPT !.pc = "giftInsert", !.txn = t, !.bill = b, !.next = n] \in Request
    BY <2>1, <2>2, IdleReqType DEF Request
  <2> QED BY <1>2, <2>3, <2>4, StartType DEF DonateStart
<1>3. ASSUME CreateFundStart(r) PROVE TypeOK'
  <2>1. [IdleReq EXCEPT !.pc = "openFund"] \in Request
    BY IdleReqType DEF Request, Steps
  <2> QED BY <1>3, <2>1, StartType DEF CreateFundStart
<1>4. ASSUME NEW f \in Funds, DeleteFundStart(r, f) PROVE TypeOK'
  <2>1. [NoBill EXCEPT !.fund = f] \in Bill
    BY DEF Bill, NoBill
  <2>2. [IdleReq EXCEPT !.pc = "purge", !.bill = [NoBill EXCEPT !.fund = f]] \in Request
    BY <2>1, IdleReqType DEF Request, Steps
  <2> QED BY <1>4, <2>2, StartType DEF DeleteFundStart
<1>5. ASSUME NEW t \in Txns, NEW v \in BOOLEAN, NEW k \in BOOLEAN, Callback(r, t, v, k)
      PROVE  TypeOK'
  <2>1. [IdleReq EXCEPT !.pc = "received", !.txn = t, !.verified = v, !.ok = k] \in Request
    BY IdleReqType DEF Request, Steps
  <2> QED BY <1>5, <2>1 DEF Callback, Start, Become, TypeOK, db
<1> QED BY <1>1, <1>2, <1>3, <1>4, <1>5 DEF Arrive

LEMMA BecomeType ==
    ASSUME TypeOK, NEW r \in Requests, NEW q \in Request, Become(r, q)
    PROVE  req' \in [Requests -> Request]
BY DEF Become, TypeOK

LEMMA GotoType ==
    ASSUME TypeOK, NEW r \in Requests, NEW step \in Steps, Goto(r, step)
    PROVE  req' \in [Requests -> Request]
<1>1. [req[r] EXCEPT !.pc = step] \in Request
  BY DEF TypeOK, Request
<1> QED BY <1>1, BecomeType DEF Goto

LEMMA FinishType ==
    ASSUME TypeOK, NEW r \in Requests, Finish(r)
    PROVE  req' \in [Requests -> Request]
BY BecomeType, IdleReqType DEF Finish

\* A callback that has found its row works on a payment of the table.
LEMMA CallbackFacts ==
    ASSUME IInv, NEW r \in Requests, req[r].pc \in CallbackSteps
    PROVE  /\ req[r].txn \in Txns
           /\ pay[req[r].txn] \in Bill
           /\ Payer(r) \in Users
           /\ FundOf(r) \in Funds \cup {NoFund}
           /\ OrderOf(req[r]) \in Txns \cup {NoTxn}
           /\ req[r].pc \in DonationSteps =>
                /\ FundOf(r) \in Funds
                /\ OrderOf(req[r]) \in Txns
<1>1. req[r].txn \in Txns /\ outcome[req[r].txn] # "unsent"
  BY DEF IInv, ReqInv
<1>2. pay[req[r].txn] \in Bill /\ pay \in [Txns -> Bill]
  BY <1>1 DEF IInv, TypeOK
<1>3. OrderOf(req[r]) \in Txns \cup {NoTxn}
  BY <1>1, <1>2 DEF OrderOf, Bill
<1>4. ASSUME req[r].pc \in DonationSteps
      PROVE  FundOf(r) \in Funds /\ OrderOf(req[r]) \in Txns
  <2>1. Donating(req[r])
    BY <1>4 DEF IInv, ReqInv
  <2>2. pay[req[r].txn].method = "VNPAY" /\ pay[req[r].txn].fund # NoFund
    BY <1>1, <2>1 DEF IInv, RowInv, Donating
  <2>3. pay[req[r].txn].order # NoTxn
    BY <1>1, <2>2 DEF IInv, RowInv
  <2> QED BY <1>2, <2>1, <2>2, <2>3 DEF FundOf, OrderOf, Donating, Bill
<1> QED BY <1>1, <1>2, <1>3, <1>4 DEF Payer, FundOf, Bill

LEMMA ContinueRequestType ==
    ASSUME IInv, NEW r \in Requests, Continue(r)
    PROVE  req' \in [Requests -> Request]
<1> DEFINE q == req[r]
<1>0. TypeOK /\ q \in Request /\ q.bill \in Bill /\ q.txn \in Txns \cup {NoTxn}
  BY DEF IInv, TypeOK, Request
<1>1. CASE DepositFindOrder(r)
  <2>1. ASSUME NEW o \in OrdersOf(q.bill.fund)
        PROVE  [q EXCEPT !.pc = "insertTx", !.bill.order = o] \in Request
    <3>1. o \in Txns
      BY <1>0 DEF OrdersOf, RowsOf, TypeOK, Bill
    <3>2. [q.bill EXCEPT !.order = o] \in Bill
      BY <1>0, <3>1 DEF Bill
    <3> QED BY <1>0, <3>2 DEF Request, Steps
  <2> QED BY <1>0, <1>1, <2>1, BecomeType, GotoType DEF DepositFindOrder, Steps
<1>2. CASE DepositNewOrder(r)
  <2>1. [q.bill EXCEPT !.order = q.txn] \in Bill
    BY <1>0 DEF Bill
  <2>2. [q EXCEPT !.pc = "insertTx", !.bill.order = q.txn] \in Request
    BY <1>0, <2>1 DEF Request, Steps
  <2> QED BY <1>0, <1>2, <2>2, BecomeType DEF DepositNewOrder
<1>3. CASE DepositInsert(r)
  BY <1>0, <1>3, FinishType DEF DepositInsert
<1>4. CASE CreateFundInsert(r)
  BY <1>0, <1>4, FinishType DEF CreateFundInsert
<1>5. CASE DonateInsert(r)
  BY <1>0, <1>5, GotoType DEF DonateInsert, Steps
<1>6. CASE DonateAdd(r)
  BY <1>0, <1>6, FinishType DEF DonateAdd
<1>7. CASE DeleteFundPurge(r)
  BY <1>0, <1>7, GotoType DEF DeleteFundPurge, Steps
<1>8. CASE DeleteFundDrop(r)
  BY <1>0, <1>8, FinishType DEF DeleteFundDrop
<1>9. CASE LookUp(r)
  <2>1. [q EXCEPT !.row = RowFound(q.txn),
                  !.pc = IF q.ok /\ ~AlreadyProcessed(q.txn) THEN "member" ELSE "record"]
            \in Request
    BY ZenonT(40), <1>0 DEF Request, Steps, RowFound
  <2> QED BY <1>0, <1>9, <2>1, BecomeType, FinishType DEF LookUp
<1>10. CASE CheckMember(r)
  BY <1>0, <1>10, GotoType, FinishType DEF CheckMember, Steps
<1>11. CASE ReadRole(r)
  <2>1. q.pc \in CallbackSteps
    BY <1>11 DEF ReadRole, At, CallbackSteps
  <2>2. roles[Payer(r)] \in SUBSET Role
    BY <1>0, <2>1, CallbackFacts DEF TypeOK
  <2>3. [q EXCEPT !.pc = "writeRole", !.had = roles[Payer(r)]] \in Request
    BY <1>0, <2>2 DEF Request, Steps
  <2>4. Apply(q) \in Steps
    BY DEF Apply, Steps
  <2> QED BY <1>0, <1>11, <2>3, <2>4, BecomeType, GotoType DEF ReadRole
<1>12. CASE WriteRole(r)
  <2>1. Apply(q) \in Steps
    BY DEF Apply, Steps
  <2>2. [q EXCEPT !.pc = Apply(q), !.had = {}] \in Request
    BY <1>0, <2>1 DEF Request
  <2> QED BY <1>0, <1>12, <2>2, BecomeType DEF WriteRole
<1>13. CASE ReadFund(r)
  <2>1. q.pc \in CallbackSteps /\ q.pc \in DonationSteps
    BY <1>13 DEF ReadFund, At, CallbackSteps, DonationSteps
  <2>2. fund[FundOf(r)].amount + pay[q.txn].amount \in Nat
    BY <1>0, <2>1, CallbackFacts DEF TypeOK, FundRow, Bill
  <2>3. /\ [q EXCEPT !.pc = "addAmount",
                     !.next = fund[FundOf(r)].amount + pay[q.txn].amount] \in Request
        /\ [q EXCEPT !.pc = "record", !.reached = TRUE] \in Request
    BY <1>0, <2>2 DEF Request, Steps
  <2> QED BY <1>0, <1>13, <2>3, BecomeType DEF ReadFund
<1>14. CASE AddAmount(r)
  BY <1>0, <1>14, GotoType DEF AddAmount, Steps
<1>15. CASE CloseFund(r)
  BY <1>0, <1>15, GotoType DEF CloseFund, Steps
<1>16. CASE DropPaidFund(r)
  <2>1. [q EXCEPT !.pc = "record", !.reached = TRUE] \in Request
    BY <1>0 DEF Request, Steps
  <2> QED BY <1>0, <1>16, <2>1, BecomeType DEF DropPaidFund
<1>17. CASE Subscribe(r)
  BY <1>0, <1>17, GotoType DEF Subscribe, Steps
<1>18. CASE Record(r)
  BY <1>0, <1>18, GotoType, FinishType DEF Record, AfterRecord, Steps
<1>19. CASE SetOrder(r)
  BY <1>0, <1>19, FinishType DEF SetOrder
<1>20. CASE Recheck(r)
  BY <1>0, <1>20, GotoType, FinishType DEF Recheck, Steps
<1>21. CASE CollectOrders(r)
  <2> DEFINE found == PaidOrders(FundOf(r))
             os == IF found # {} THEN found ELSE {OrderOf(q)}
  <2>1. q.pc \in CallbackSteps /\ q.pc \in DonationSteps
    BY <1>21 DEF CollectOrders, At, CallbackSteps, DonationSteps
  <2>2. found \subseteq Txns
    BY <1>0 DEF PaidOrders, Donated, RowsOf, TypeOK, Bill
  <2>3. os \subseteq Txns
    BY <2>1, <2>2, CallbackFacts
  <2>4. Become(r, [q EXCEPT !.pc = "markPaid", !.orders = os])
    BY <1>21 DEF CollectOrders
  <2> HIDE DEF os
  <2>5. [q EXCEPT !.pc = "markPaid", !.orders = os] \in Request
    BY <1>0, <2>3 DEF Request, Steps
  <2> QED BY <1>0, <2>4, <2>5, BecomeType
<1>22. CASE MarkPaid(r)
  BY <1>0, <1>22, FinishType DEF MarkPaid
<1> QED BY <1>1, <1>2, <1>3, <1>4, <1>5, <1>6, <1>7, <1>8, <1>9, <1>10, <1>11, <1>12, <1>13, <1>14, <1>15, <1>16, <1>17, <1>18, <1>19, <1>20, <1>21, <1>22 DEF Continue

LEMMA ContinueType ==
    ASSUME IInv, NEW r \in Requests, Continue(r)
    PROVE  TypeOK'
<1> DEFINE q == req[r]
<1>0. /\ TypeOK
      /\ req' \in [Requests -> Request]
      /\ q \in Request /\ q.bill \in Bill /\ q.next \in Nat /\ q.had \subseteq Role
  BY ContinueRequestType DEF IInv, TypeOK, Request
<1>c. ASSUME q.pc \in CallbackSteps
      PROVE  /\ q.txn \in Txns
             /\ Payer(r) \in Users
             /\ q.pc \in DonationSteps => FundOf(r) \in Funds
  BY <1>c, CallbackFacts
<1> USE DEF db
<1>1. CASE DepositFindOrder(r)
  BY <1>0, <1>1 DEF DepositFindOrder, TypeOK
<1>2. CASE DepositNewOrder(r)
  BY <1>0, <1>2 DEF DepositNewOrder, TypeOK
<1>3. CASE DepositInsert(r)
  BY <1>0, <1>3 DEF DepositInsert, TypeOK, RowStatus
<1>4. CASE CreateFundInsert(r)
  BY <1>0, <1>4 DEF CreateFundInsert, TypeOK, FundRow
<1>5. CASE DonateInsert(r)
  BY <1>0, <1>5 DEF DonateInsert, TypeOK, RowStatus
<1>6. CASE DonateAdd(r)
  <2>1. fund' \in [Funds -> FundRow]
    BY <1>0, <1>6 DEF DonateAdd, WriteAmount, TypeOK, FundRow
  <2> QED BY <1>0, <1>6, <2>1 DEF DonateAdd, TypeOK
<1>7. CASE DeleteFundPurge(r)
  BY <1>0, <1>7 DEF DeleteFundPurge, TypeOK
<1>8. CASE DeleteFundDrop(r)
  BY <1>0, <1>8 DEF DeleteFundDrop, TypeOK, DropFund, FundRow
<1>9. CASE LookUp(r)
  BY <1>0, <1>9 DEF LookUp, TypeOK
<1>10. CASE CheckMember(r)
  BY <1>0, <1>10 DEF CheckMember, TypeOK
<1>11. CASE ReadRole(r)
  BY <1>0, <1>11 DEF ReadRole, TypeOK
<1>12. CASE WriteRole(r)
  <2>1. q.pc \in CallbackSteps
    BY <1>12 DEF WriteRole, At, CallbackSteps, DonationSteps
  <2>2. RolesWritten(q) \subseteq Role
    BY <1>0 DEF RolesWritten, Granted, Role
  <2>3. roles' \in [Users -> SUBSET Role]
    BY <1>0, <1>c, <1>12, <2>1, <2>2 DEF WriteRole, TypeOK
  <2> QED BY <1>0, <1>12, <2>3 DEF WriteRole, TypeOK
<1>13. CASE ReadFund(r)
  BY <1>0, <1>13 DEF ReadFund, TypeOK
<1>14. CASE AddAmount(r)
  <2>1. q.pc \in CallbackSteps /\ q.pc \in DonationSteps
    BY <1>14 DEF AddAmount, At, CallbackSteps, DonationSteps
  <2>2. fund' \in [Funds -> FundRow]
    BY <1>0, <1>c, <1>14, <2>1 DEF AddAmount, WriteAmount, TypeOK, FundRow
  <2> QED BY <1>0, <1>14, <2>2 DEF AddAmount, TypeOK
<1>15. CASE CloseFund(r)
  <2>1. q.pc \in CallbackSteps /\ q.pc \in DonationSteps
    BY <1>15 DEF CloseFund, At, CallbackSteps, DonationSteps
  <2>2. closed' \in [Funds -> Nat]
    BY <1>0, <1>c, <1>15, <2>1 DEF CloseFund, TypeOK
  <2> QED BY <1>0, <1>15, <2>2 DEF CloseFund, TypeOK
<1>16. CASE DropPaidFund(r)
  BY <1>0, <1>16 DEF DropPaidFund, TypeOK, DropFund, FundRow
<1>17. CASE Subscribe(r)
  <2>1. q.pc \in CallbackSteps
    BY <1>17 DEF Subscribe, At, CallbackSteps, DonationSteps
  <2>2. plans' \in [Txns -> Nat]
    BY <1>0, <1>c, <1>17, <2>1 DEF Subscribe, TypeOK
  <2> QED BY <1>0, <1>17, <2>2 DEF Subscribe, TypeOK
<1>18. CASE Record(r)
  BY <1>0, <1>18 DEF Record, TypeOK, StatusOf, RowStatus
<1>19. CASE SetOrder(r)
  BY <1>0, <1>19 DEF SetOrder, TypeOK
<1>20. CASE Recheck(r)
  BY <1>0, <1>20 DEF Recheck, TypeOK
<1>21. CASE CollectOrders(r)
  BY <1>0, <1>21 DEF CollectOrders, TypeOK
<1>22. CASE MarkPaid(r)
  BY <1>0, <1>22 DEF MarkPaid, TypeOK
<1> QED BY <1>1, <1>2, <1>3, <1>4, <1>5, <1>6, <1>7, <1>8, <1>9, <1>10, <1>11, <1>12, <1>13, <1>14, <1>15, <1>16, <1>17, <1>18, <1>19, <1>20, <1>21, <1>22 DEF Continue

-----------------------------------------------------------------------------
(* What one request may do to the rows the others rely on *)

RowsInv ==
    /\ \A t \in Txns : RowInv(t)
    /\ SettledIsServed
    /\ OrderFollowsPayment

StepOf(r) ==
    /\ \A s \in Requests \ {r} : req'[s] = req[s]
    /\ \A t \in Txns : tx[t] # "unused" => pay'[t] = pay[t] /\ tx'[t] # "unused"
    /\ \A t \in Txns : outcome[t] # "unsent" => outcome'[t] = outcome[t]
    /\ \A t \in Txns : plans'[t] >= plans[t]
    /\ \A t \in Txns : tx[t] = "unused" /\ tx'[t] # "unused" => 
            req[r].txn = t /\ req[r].pc \in DepositSteps
    /\ \A t \in Txns : req'[r].txn = t =>
            req[r].txn = t \/ outcome[t] # "unsent" \/ \A s \in Requests : req[s].txn # t
    /\ \A t \in Txns : pay[t].fund = NoFund /\ outcome[t] \in {"success", "failed"} =>
            tx'[t] \in {tx[t], StatusOf(outcome[t] = "success")}

LEMMA OthersKept ==
    ASSUME IInv, TypeOK', NEW r \in Requests, StepOf(r), NEW s \in Requests, s # r
    PROVE  ReqInv(s)'
<1> DEFINE q == req[s]
           t == q.txn
<1>1. req'[s] = q /\ ReqInv(s)
  BY DEF StepOf, IInv
<1>2. ASSUME q.pc \in DepositSteps
      PROVE  /\ t \in Txns
             /\ tx'[t] = "unused"
             /\ \A x \in Requests : req'[x].txn = t => x = s
  <2>1. /\ t \in Txns /\ tx[t] = "unused" /\ outcome[t] = "unsent"
        /\ \A x \in Requests : req[x].txn = t => x = s
    BY <1>1, <1>2 DEF ReqInv, IInv, RowInv
  <2>2. tx'[t] = "unused"
    BY <2>1 DEF StepOf
  <2>3. ASSUME NEW x \in Requests, req'[x].txn = t PROVE x = s
    BY <2>1, <2>3, <1>1 DEF StepOf
  <2> QED BY <2>1, <2>2, <2>3
<1>3. ASSUME NEW o \in Txns, pay[o].fund # NoFund \/ outcome[o] # "unsent"
      PROVE  pay'[o] = pay[o]
  <2>1. tx[o] # "unused"
    BY <1>3 DEF IInv, RowInv, NoBill
  <2> QED BY <2>1 DEF StepOf
<1>4. ASSUME q.pc \in CallbackSteps \cup {"received"}
      PROVE  /\ t \in Txns /\ outcome[t] # "unsent" /\ outcome'[t] = outcome[t]
             /\ pay'[t] = pay[t]
             /\ plans'[t] >= plans[t]
             /\ plans[t] \in Nat
             /\ Donating(q)' = Donating(q)
  <2>1. t \in Txns /\ outcome[t] # "unsent"
    BY <1>1, <1>4 DEF ReqInv
  <2> QED BY <1>1, <2>1, <1>3 DEF StepOf, Donating, IInv, TypeOK
<1>5. ASSUME q.pc = "setOrder"
      PROVE  pay'[t].fund = NoFund /\ OrderOf(q)' = t /\ tx'[t] = StatusOf(q.ok)
  <2>1. /\ t \in Txns /\ pay[t].fund = NoFund /\ OrderOf(q) = t
        /\ tx[t] = StatusOf(q.ok) /\ q.row = "deposit" /\ q.ok \in BOOLEAN
        /\ outcome[t] = IF q.ok THEN "success" ELSE "failed"
    BY <1>1, <1>5 DEF ReqInv, CallbackSteps, IInv, TypeOK, Request
  <2>2. pay'[t] = pay[t]
    BY <2>1, <1>3
  <2>3. OrderOf(q)' = pay'[t].order /\ OrderOf(q) = pay[t].order
    BY <2>1, <1>1 DEF OrderOf
  <2>4. tx'[t] = StatusOf(q.ok)
    BY <2>1 DEF StepOf, StatusOf
  <2> QED BY <2>1, <2>2, <2>3, <2>4
<1>6. ASSUME q.pc = "insertTx"
      PROVE  /\ q.bill.order # NoTxn
             /\ \/ q.bill.order = t
                \/ q.bill.fund # NoFund /\ pay'[q.bill.order].fund # NoFund
  BY <1>1, <1>3, <1>6 DEF ReqInv, IInv, TypeOK, Request, Bill
<1>7. ASSUME q.pc = "markPaid", NEW o \in q.orders
      PROVE  pay'[o].fund # NoFund
  BY <1>1, <1>3, <1>7 DEF ReqInv, IInv, TypeOK, Request
<1>8. CASE q.pc \in DepositSteps
  BY <1>1, <1>2, <1>6, <1>8 DEF ReqInv, DepositSteps, CallbackSteps, DonationSteps
<1>9. CASE q.pc = "received"
  BY <1>1, <1>4, <1>9 DEF ReqInv, DepositSteps, CallbackSteps, DonationSteps
<1>11. CASE q.pc \in CallbackSteps
  <2> DEFINE d == Donating(q)
  <2>1. d' = d /\ t' = t /\ q' = q
    BY <1>1, <1>4, <1>11
  <2>2. /\ q.pc \in DonationSteps => d
        /\ q.pc = "subscribe" => ~d
        /\ q.pc = "record" /\ q.ok /\ ~d => plans[t] > 0
        /\ q.pc \notin DepositSteps \cup {"received", "giftAdd", "purge", "dropFund"}
        /\ q.pc \in CallbackSteps \ {"record", "setOrder"} => q.ok
        /\ pay[t].fund = NoFund => q.row = "deposit"
        /\ outcome[t] = IF q.ok THEN "success" ELSE "failed"
    BY <1>1, <1>11 DEF ReqInv, DepositSteps, CallbackSteps
  <2>3. plans[t] > 0 => plans'[t] > 0
    BY <1>4, <1>11 DEF TypeOK
  <2>4. /\ t \in Txns /\ outcome'[t] = outcome[t] /\ pay'[t] = pay[t] /\ outcome[t] # "unsent"
    BY <1>4, <1>11
  <2> HIDE DEF d
  <2> QED BY <1>1, <1>5, <1>7, <1>11, <2>1, <2>2, <2>3, <2>4
          DEF ReqInv, DepositSteps, d
<1>10. CASE q.pc \notin DepositSteps \cup CallbackSteps \cup {"received"}
  BY <1>1, <1>10 DEF ReqInv, DepositSteps, CallbackSteps, DonationSteps
<1> QED BY <1>8, <1>9, <1>10, <1>11

\* A step that changes no transaction, order or outcome.
LEMMA QuietStep ==
    ASSUME IInv, TypeOK', NEW r \in Requests, NEW q, Become(r, q),
           q.txn \in Txns => \/ q.txn = req[r].txn \/ outcome[q.txn] # "unsent"
                             \/ \A s \in Requests : req[s].txn # q.txn,
           UNCHANGED <<tx, pay, late, order, outcome>>,
           \A t \in Txns : plans'[t] >= plans[t]
    PROVE  StepOf(r) /\ RowsInv' /\ req'[r] = q
<1>1. req'[r] = q /\ \A s \in Requests \ {r} : req'[s] = req[s]
  BY DEF Become, IInv, TypeOK
<1>2. StepOf(r)
  BY <1>1 DEF StepOf, IInv, TypeOK
<1>3. (\A t \in Txns : RowInv(t))'
  BY DEF IInv, RowInv
<1>4. \A t \in Txns : plans[t] \in Nat /\ plans'[t] \in Nat
  BY DEF IInv, TypeOK
<1>5. SettledIsServed' /\ OrderFollowsPayment'
  BY <1>4 DEF IInv, SettledIsServed, OrderFollowsPayment
<1> QED BY <1>1, <1>2, <1>3, <1>5 DEF RowsInv

LEMMA Preserved ==
    ASSUME IInv, TypeOK', NEW r \in Requests, StepOf(r), RowsInv', ReqInv(r)'
    PROVE  IInv'
BY OthersKept DEF IInv, RowsInv

LEMMA IdleKept ==
    ASSUME NEW r \in Requests, req'[r] = IdleReq
    PROVE  ReqInv(r)'
BY DEF ReqInv, IdleReq, DepositSteps, CallbackSteps, DonationSteps

-----------------------------------------------------------------------------
(* Every step keeps the invariant *)

LEMMA ArriveKept ==
    ASSUME IInv, NEW r \in Requests, Arrive(r)
    PROVE  IInv'
<1>0. TypeOK /\ TypeOK'
  BY ArriveType DEF IInv
<1>1. ASSUME NEW u \in Users, NEW f \in Funds \cup {NoFund}, NEW a \in Amounts,
             DepositStart(r, u, f, a)
      PROVE  IInv'
  <2> DEFINE b == [NoBill EXCEPT !.user = u, !.fund = f, !.amount = a]
             step == IF f = NoFund THEN "newOrder" ELSE "findOrder"
  <2>1. PICK t \in Txns :
            Fresh(t) /\ Start(r, [IdleReq EXCEPT !.pc = step, !.txn = t, !.bill = b])
    BY <1>1 DEF DepositStart
  <2> DEFINE q == [IdleReq EXCEPT !.pc = step, !.txn = t, !.bill = b]
  <2>2. q.txn = t /\ q.bill = b /\ q.pc = step /\ b.fund = f /\ b.method = "VNPAY"
    BY DEF IdleReq, NoBill
  <2>3. Become(r, q) /\ tx[t] = "unused" /\ \A s \in Requests : req[s].txn # t
    BY <2>1 DEF Start, Fresh
  <2>4. UNCHANGED <<tx, pay, late, order, outcome, plans>>
    BY <1>1 DEF DepositStart, db
  <2> HIDE DEF q
  <2>5. StepOf(r) /\ RowsInv' /\ req'[r] = q
    BY <1>0, <2>2, <2>3, <2>4, QuietStep DEF TypeOK
  <2>6. \A s \in Requests : req'[s].txn = t => s = r
    BY <2>3, <2>5 DEF StepOf
  <2>7. ReqInv(r)'
    BY <2>2, <2>3, <2>4, <2>5, <2>6
       DEF ReqInv, DepositSteps, CallbackSteps, DonationSteps, step
  <2> QED BY <1>0, <2>5, <2>7, Preserved
<1>2. ASSUME NEW u \in Users, NEW f \in Funds, NEW a \in Amounts, DonateStart(r, u, f, a)
      PROVE  IInv'
  <2> DEFINE b == [NoBill EXCEPT !.method = "SHARE_FUND", !.user = u,
                                 !.fund = f, !.amount = a]
             n == fund[f].amount + a
  <2>1. PICK t \in Txns :
            /\ Fresh(t)
            /\ Start(r, [IdleReq EXCEPT !.pc = "giftInsert", !.txn = t,
                                        !.bill = b, !.next = n])
    BY <1>2 DEF DonateStart
  <2> HIDE DEF n
  <2> DEFINE q == [IdleReq EXCEPT !.pc = "giftInsert", !.txn = t, !.bill = b, !.next = n]
  <2>2. /\ q.txn = t /\ q.bill = b /\ q.pc = "giftInsert"
        /\ b.fund = f /\ b.method = "SHARE_FUND" /\ b.order = NoTxn
    BY DEF IdleReq, NoBill
  <2>3. Become(r, q) /\ tx[t] = "unused" /\ \A s \in Requests : req[s].txn # t
    BY <2>1 DEF Start, Fresh
  <2>4. UNCHANGED <<tx, pay, late, order, outcome, plans>>
    BY <1>2 DEF DonateStart, db
  <2> HIDE DEF q
  <2>5. StepOf(r) /\ RowsInv' /\ req'[r] = q
    BY <1>0, <2>2, <2>3, <2>4, QuietStep DEF TypeOK
  <2>6. \A s \in Requests : req'[s].txn = t => s = r
    BY <2>3, <2>5 DEF StepOf
  <2>7. b.fund # NoFund
    BY <2>2
  <2> HIDE DEF b
  <2>8. ReqInv(r)'
    BY <2>2, <2>7, <2>3, <2>4, <2>5, <2>6
       DEF ReqInv, DepositSteps, CallbackSteps, DonationSteps
  <2> QED BY <1>0, <2>5, <2>8, Preserved
<1>3. ASSUME CreateFundStart(r) PROVE IInv'
  <2> DEFINE q == [IdleReq EXCEPT !.pc = "openFund"]
  <2>1. q.txn = NoTxn /\ q.pc = "openFund" /\ Become(r, q)
    BY <1>3 DEF CreateFundStart, Start, IdleReq
  <2>2. UNCHANGED <<tx, pay, late, order, outcome, plans>>
    BY <1>3 DEF CreateFundStart, db
  <2> HIDE DEF q
  <2>3. StepOf(r) /\ RowsInv' /\ req'[r] = q
    BY <1>0, <2>1, <2>2, QuietStep DEF TypeOK
  <2>4. ReqInv(r)'
    BY <2>1, <2>3 DEF ReqInv, DepositSteps, CallbackSteps, DonationSteps
  <2> QED BY <1>0, <2>3, <2>4, Preserved
<1>4. ASSUME NEW f \in Funds, DeleteFundStart(r, f) PROVE IInv'
  <2> DEFINE q == [IdleReq EXCEPT !.pc = "purge", !.bill = [NoBill EXCEPT !.fund = f]]
  <2>1. q.txn = NoTxn /\ q.pc = "purge" /\ q.bill.fund = f /\ Become(r, q)
    BY <1>4 DEF DeleteFundStart, Start, IdleReq, NoBill
  <2>2. UNCHANGED <<tx, pay, late, order, outcome, plans>>
    BY <1>4 DEF DeleteFundStart, db
  <2> HIDE DEF q
  <2>3. StepOf(r) /\ RowsInv' /\ req'[r] = q
    BY <1>0, <2>1, <2>2, QuietStep DEF TypeOK
  <2>4. ReqInv(r)'
    BY <2>1, <2>3 DEF ReqInv, DepositSteps, CallbackSteps, DonationSteps
  <2> QED BY <1>0, <2>3, <2>4, Preserved
<1>5. ASSUME NEW t \in Txns, NEW v \in BOOLEAN, NEW k \in BOOLEAN, Callback(r, t, v, k)
      PROVE  IInv'
  <2> DEFINE q == [IdleReq EXCEPT !.pc = "received", !.txn = t, !.verified = v, !.ok = k]
  <2>1. q.txn = t /\ q.pc = "received" /\ q.verified = v /\ q.ok = k
    BY DEF IdleReq
  <2>2. /\ Become(r, q) /\ outcome[t] # "unsent"
        /\ v => outcome[t] = IF k THEN "success" ELSE "failed"
        /\ UNCHANGED <<tx, pay, late, order, outcome, plans>>
    BY <1>5 DEF Callback, Start, db
  <2> HIDE DEF q
  <2>3. StepOf(r) /\ RowsInv' /\ req'[r] = q
    <3>1. TypeOK' BY <1>5, ArriveType, <1>0
    <3> QED BY <1>0, <2>1, <2>2, <3>1, QuietStep DEF TypeOK
  <2>4. ReqInv(r)'
    BY <2>1, <2>2, <2>3 DEF ReqInv, DepositSteps, CallbackSteps, DonationSteps
  <2> QED BY <1>0, <2>3, <2>4, Preserved
<1> QED BY <1>1, <1>2, <1>3, <1>4, <1>5 DEF Arrive

\* A request that ends without touching the rows.
LEMMA FinishKept ==
    ASSUME IInv, TypeOK', NEW r \in Requests, Finish(r),
           UNCHANGED <<tx, pay, late, order, outcome, plans>>
    PROVE  IInv'
<1>1. IdleReq.txn = NoTxn /\ Become(r, IdleReq)
  BY DEF IdleReq, Finish
<1>2. \A t \in Txns : plans'[t] >= plans[t]
  BY DEF IInv, TypeOK
<1>3. StepOf(r) /\ RowsInv' /\ req'[r] = IdleReq
  BY <1>1, <1>2, QuietStep
<1> QED BY <1>3, IdleKept, Preserved

\* A callback that moves on without touching transactions or orders.
LEMMA CallbackKept ==
    ASSUME IInv, TypeOK', NEW r \in Requests, NEW q, Become(r, q),
           req[r].pc \in CallbackSteps, q.pc \in CallbackSteps \ {"setOrder"},
           q.txn = req[r].txn, q.row = req[r].row, q.ok = req[r].ok,
           q.pc \in DonationSteps => Donating(q),
           q.pc = "subscribe" => ~Donating(q),
           q.pc # "record" => q.ok,
           q.pc = "record" /\ q.ok /\ ~Donating(q) => plans'[q.txn] > 0,
           q.pc = "markPaid" => \A o \in q.orders : pay[o].fund # NoFund,
           UNCHANGED <<tx, pay, late, order, outcome>>,
           \A t \in Txns : plans'[t] >= plans[t]
    PROVE  IInv'
<1> DEFINE t == q.txn
<1>1. StepOf(r) /\ RowsInv' /\ req'[r] = q
  BY QuietStep
<1>2. /\ t \in Txns /\ outcome[t] # "unsent"
      /\ outcome[t] = IF q.ok THEN "success" ELSE "failed"
      /\ pay[t].fund = NoFund => q.row = "deposit"
  BY DEF IInv, ReqInv
<1>3. Donating(req[r])' = Donating(q)
  BY <1>1 DEF Donating
<1>4. ReqInv(r)'
  BY <1>1, <1>2, <1>3 DEF ReqInv, CallbackSteps, DepositSteps, DonationSteps
<1> QED BY <1>1, <1>4, Preserved

LEMMA CallbackContinueKept ==
    ASSUME IInv, TypeOK', NEW r \in Requests,
           \/ CheckMember(r) \/ ReadRole(r) \/ WriteRole(r) \/ ReadFund(r)
           \/ AddAmount(r) \/ CloseFund(r) \/ DropPaidFund(r) \/ Subscribe(r)
           \/ Recheck(r) \/ CollectOrders(r)
    PROVE  IInv'
<1> DEFINE p == req[r]
           d == Donating(p)
<1>0. /\ p.pc \in CallbackSteps \ {"record", "setOrder", "markPaid"}
      /\ p.pc \in {"member", "readRole", "writeRole", "readFund", "addAmount",
                   "closeFund", "dropPaid", "subscribe", "recheck", "collect"}
  BY DEF CheckMember, ReadRole, WriteRole, ReadFund, AddAmount, CloseFund,
         DropPaidFund, Subscribe, Recheck, CollectOrders, At, CallbackSteps
<1>1. /\ p.ok /\ p \in Request /\ p.txn \in Txns
      /\ p.pc \in DonationSteps => d
      /\ p.pc = "subscribe" => ~d
  BY <1>0 DEF IInv, ReqInv, TypeOK, CallbackSteps
<1>2. \A t \in Txns : plans[t] \in Nat
  BY DEF IInv, TypeOK
<1>a. ASSUME NEW step \in CallbackSteps \ {"setOrder"}, NEW q, Become(r, q),
             q.pc = step, q.txn = p.txn, q.row = p.row, q.ok = p.ok,
             step \in DonationSteps => d, step = "subscribe" => ~d,
             step = "record" /\ ~d => plans'[p.txn] > 0,
             step = "markPaid" => \A o \in q.orders : pay[o].fund # NoFund,
             UNCHANGED <<tx, pay, late, order, outcome>>,
             \A t \in Txns : plans'[t] >= plans[t]
      PROVE  IInv'
  <2>1. Donating(q) = d
    BY <1>a DEF Donating
  <2> HIDE DEF d
  <2> QED BY <1>0, <1>1, <1>a, <2>1, CallbackKept
<1>3. ASSUME NEW step \in CallbackSteps \ {"setOrder", "markPaid"}, Goto(r, step),
             step \in DonationSteps => d, step = "subscribe" => ~d,
             step = "record" /\ ~d => plans'[p.txn] > 0,
             UNCHANGED <<tx, pay, late, order, outcome>>,
             \A t \in Txns : plans'[t] >= plans[t]
      PROVE  IInv'
  <2> DEFINE q == [p EXCEPT !.pc = step]
  <2>1. /\ q.pc = step /\ q.txn = p.txn /\ q.row = p.row /\ q.ok = p.ok
        /\ Become(r, q)
    BY <1>1, <1>3 DEF Goto, Request
  <2> HIDE DEF q, d
  <2> QED BY <1>3, <1>a, <2>1
<1>4. CASE CheckMember(r)
  <2>1. UNCHANGED <<tx, pay, late, order, outcome, plans>>
    BY <1>4 DEF CheckMember, db
  <2>2. CASE Goto(r, "readRole")
    BY <1>2, <1>3, <2>1, <2>2 DEF CallbackSteps, DonationSteps
  <2>3. CASE Finish(r)
    BY <2>1, <2>3, FinishKept
  <2> QED BY <1>4, <2>2, <2>3 DEF CheckMember
<1>5. CASE ReadRole(r)
  <2>1. UNCHANGED <<tx, pay, late, order, outcome, plans>>
    BY <1>5 DEF ReadRole, db
  <2>2. CASE Goto(r, Apply(p))
    BY <1>2, <1>3, <2>1, <2>2 DEF Apply, CallbackSteps, DonationSteps
  <2>3. CASE Become(r, [p EXCEPT !.pc = "writeRole", !.had = roles[Payer(r)]])
    <3> DEFINE q == [p EXCEPT !.pc = "writeRole", !.had = roles[Payer(r)]]
    <3>1. /\ q.pc = "writeRole" /\ q.txn = p.txn /\ q.row = p.row /\ q.ok = p.ok
          /\ Become(r, q)
      BY <1>1, <2>3 DEF Request
    <3> HIDE DEF q
    <3> QED BY <1>2, <1>a, <2>1, <3>1 DEF CallbackSteps, DonationSteps
  <2> QED BY <1>5, <2>2, <2>3 DEF ReadRole
<1>6. CASE WriteRole(r)
  <2>1. UNCHANGED <<tx, pay, late, order, outcome, plans>>
    BY <1>6 DEF WriteRole
  <2> DEFINE q == [p EXCEPT !.pc = Apply(p), !.had = {}]
  <2>2. /\ q.pc = Apply(p) /\ q.txn = p.txn /\ q.row = p.row /\ q.ok = p.ok
        /\ Become(r, q)
    BY <1>1, <1>6 DEF WriteRole, Request
  <2>3. Apply(p) = IF d THEN "readFund" ELSE "subscribe"
    BY DEF Apply
  <2> HIDE DEF q, d
  <2> QED BY <1>2, <1>a, <2>1, <2>2, <2>3
          DEF CallbackSteps, DonationSteps
<1>7. CASE ReadFund(r)
  <2>1. UNCHANGED <<tx, pay, late, order, outcome, plans>> /\ d
    BY <1>1, <1>7 DEF ReadFund, db, At, DonationSteps
  <2>2. ASSUME NEW step, NEW q, Become(r, q), step \in {"addAmount", "record"},
               q.pc = step, q.txn = p.txn, q.row = p.row, q.ok = p.ok
        PROVE  IInv'
    BY <1>2, <1>a, <2>1, <2>2 DEF CallbackSteps, DonationSteps
  <2> DEFINE n == fund[FundOf(r)].amount + pay[p.txn].amount
             qa == [p EXCEPT !.pc = "addAmount", !.next = n]
             qr == [p EXCEPT !.pc = "record", !.reached = TRUE]
  <2>3. Become(r, qa) \/ Become(r, qr)
    BY <1>7 DEF ReadFund
  <2>4. /\ qa.pc = "addAmount" /\ qa.txn = p.txn /\ qa.row = p.row /\ qa.ok = p.ok
        /\ qr.pc = "record" /\ qr.txn = p.txn /\ qr.row = p.row /\ qr.ok = p.ok
    BY <1>1 DEF Request
  <2> HIDE DEF qa, qr
  <2> QED BY <2>2, <2>3, <2>4
<1>8. CASE AddAmount(r)
  <2>1. UNCHANGED <<tx, pay, late, order, outcome, plans>> /\ d
    BY <1>1, <1>8 DEF AddAmount, At, DonationSteps
  <2>2. PICK step \in {"closeFund", "record"} : Goto(r, step)
    BY <1>8 DEF AddAmount
  <2> QED BY <1>2, <1>3, <2>1, <2>2 DEF CallbackSteps
<1>9. CASE CloseFund(r)
  <2>1. UNCHANGED <<tx, pay, late, order, outcome, plans>> /\ d /\ Goto(r, "dropPaid")
    BY <1>1, <1>9 DEF CloseFund, At, DonationSteps
  <2> QED BY <1>2, <1>3, <2>1 DEF CallbackSteps
<1>10. CASE DropPaidFund(r)
  <2>1. UNCHANGED <<tx, pay, late, order, outcome, plans>> /\ d
    BY <1>1, <1>10 DEF DropPaidFund, At, DonationSteps
  <2> DEFINE q == [p EXCEPT !.pc = "record", !.reached = TRUE]
  <2>2. /\ q.pc = "record" /\ q.txn = p.txn /\ q.row = p.row /\ q.ok = p.ok
        /\ Become(r, q)
    BY <1>1, <1>10 DEF DropPaidFund, Request
  <2> HIDE DEF q, d
  <2> QED BY <1>2, <1>a, <2>1, <2>2
          DEF CallbackSteps, DonationSteps
<1>11. CASE Subscribe(r)
  <2>1. UNCHANGED <<tx, pay, late, order, outcome>> /\ ~d /\ Goto(r, "record")
    BY <1>1, <1>11 DEF Subscribe, At
  <2>2. (\A t \in Txns : plans'[t] >= plans[t]) /\ plans'[p.txn] > 0
    BY <1>1, <1>2, <1>11 DEF Subscribe, IInv, TypeOK
  <2> QED BY <1>3, <2>1, <2>2 DEF CallbackSteps, DonationSteps
<1>12. CASE Recheck(r)
  <2>1. UNCHANGED <<tx, pay, late, order, outcome, plans>> /\ d
    BY <1>1, <1>12 DEF Recheck, db, At, DonationSteps
  <2>2. CASE Goto(r, "collect")
    BY <1>2, <1>3, <2>1, <2>2 DEF CallbackSteps
  <2>3. CASE Finish(r)
    BY <2>1, <2>3, FinishKept
  <2> QED BY <1>12, <2>2, <2>3 DEF Recheck
<1>13. CASE CollectOrders(r)
  <2>1. UNCHANGED <<tx, pay, late, order, outcome, plans>> /\ d
    BY <1>1, <1>13 DEF CollectOrders, db, At, DonationSteps
  <2> DEFINE found == PaidOrders(FundOf(r))
             os == IF found # {} THEN found ELSE {OrderOf(p)}
             q == [p EXCEPT !.pc = "markPaid", !.orders = os]
  <2>2. FundOf(r) # NoFund /\ p.row = "deposit"
    BY <2>1 DEF Donating, FundOf
  <2>3. ASSUME NEW t \in Txns, pay[t].fund # NoFund, pay[t].order # NoTxn
        PROVE  pay[pay[t].order].fund # NoFund
    BY <2>3 DEF IInv, RowInv
  <2>4. \A o \in found : pay[o].fund # NoFund
    BY <2>2, <2>3 DEF PaidOrders, Donated, RowsOf
  <2>5. pay[OrderOf(p)].fund # NoFund
    <3>1. outcome[p.txn] # "unsent" /\ pay[p.txn].fund # NoFund
      BY <1>0, <2>2 DEF IInv, ReqInv, FundOf, CallbackSteps
    <3>2. pay[p.txn].order # NoTxn
      BY <1>1, <3>1 DEF IInv, RowInv
    <3> QED BY <1>1, <2>2, <2>3, <3>1, <3>2 DEF OrderOf
  <2>6. \A o \in os : pay[o].fund # NoFund
    BY <2>4, <2>5
  <2>7. Become(r, q)
    BY <1>13 DEF CollectOrders
  <2> HIDE DEF os
  <2>8. /\ q.pc = "markPaid" /\ q.txn = p.txn /\ q.row = p.row /\ q.ok = p.ok
        /\ q.orders = os
    BY <1>1 DEF Request
  <2> HIDE DEF q, d
  <2> QED BY <1>2, <1>a, <2>1, <2>6, <2>7, <2>8
          DEF CallbackSteps, DonationSteps
<1> QED BY <1>4, <1>5, <1>6, <1>7, <1>8, <1>9, <1>10, <1>11, <1>12, <1>13

\* Until its row is inserted, the code of a deposit or donation is in no row.
LEMMA DepositFacts ==
    ASSUME IInv, NEW r \in Requests, req[r].pc \in DepositSteps
    PROVE  LET t == req[r].txn IN
           /\ t \in Txns /\ tx[t] = "unused" /\ pay[t] = NoBill
           /\ outcome[t] = "unsent" /\ order[t] \in {"none", "PENDING"}
           /\ late[t] = "absent"
           /\ \A x \in Txns : pay[x].fund # NoFund => pay[x].order # t
           /\ \A s \in Requests : req[s].txn = t => s = r
<1> DEFINE t == req[r].txn
<1>1. t \in Txns /\ tx[t] = "unused" /\ \A s \in Requests : req[s].txn = t => s = r
  BY DEF IInv, ReqInv
<1>2. pay[t] = NoBill /\ outcome[t] = "unsent" /\ order[t] \in {"none", "PENDING"}
  BY <1>1 DEF IInv, RowInv
<1>3. late[t] = "absent"
  BY <1>1, <1>2 DEF IInv, RowInv, TypeOK
<1>4. ASSUME NEW x \in Txns, pay[x].fund # NoFund PROVE pay[x].order # t
  BY <1>1, <1>2, <1>4 DEF IInv, RowInv, NoBill
<1> QED BY <1>1, <1>2, <1>3, <1>4

LEMMA FindOrderKept ==
    ASSUME IInv, TypeOK', NEW r \in Requests, DepositFindOrder(r)
    PROVE  IInv'
<1> DEFINE p == req[r]
           t == p.txn
<1>1. /\ p \in Request /\ p.bill \in Bill /\ t \in Txns /\ tx[t] = "unused"
      /\ \A s \in Requests : req[s].txn = t => s = r
      /\ p.bill.method = "VNPAY" /\ p.bill.fund # NoFund
  <2>1. p.pc = "findOrder" /\ p \in Request /\ p.bill \in Bill
    BY DEF DepositFindOrder, At, IInv, TypeOK, Request
  <2> QED BY <2>1, DepositFacts DEF IInv, ReqInv, DepositSteps
<1>2. UNCHANGED <<tx, pay, late, order, outcome, plans>>
      /\ \A x \in Txns : plans'[x] >= plans[x]
  <2>1. UNCHANGED <<tx, pay, late, order, outcome, plans>>
    BY DEF DepositFindOrder, db
  <2> QED BY <2>1 DEF IInv, TypeOK
<1>3. CASE Goto(r, "newOrder")
  <2> DEFINE q == [p EXCEPT !.pc = "newOrder"]
  <2>1. q.pc = "newOrder" /\ q.txn = t /\ q.bill = p.bill /\ Become(r, q)
    BY <1>1, <1>3 DEF Goto, Request
  <2> HIDE DEF q
  <2>2. StepOf(r) /\ RowsInv' /\ req'[r] = q
    BY <1>2, <2>1, QuietStep
  <2>3. \A s \in Requests : req'[s].txn = t => s = r
    BY <1>1, <2>2 DEF StepOf
  <2>4. ReqInv(r)'
    BY <1>1, <1>2, <2>1, <2>2, <2>3 DEF ReqInv, DepositSteps, CallbackSteps, DonationSteps
  <2> QED BY <2>2, <2>4, Preserved
<1>4. ASSUME NEW o \in OrdersOf(p.bill.fund),
             Become(r, [p EXCEPT !.pc = "insertTx", !.bill.order = o])
      PROVE  IInv'
  <2> DEFINE q == [p EXCEPT !.pc = "insertTx", !.bill.order = o]
  <2>1. /\ q.pc = "insertTx" /\ q.txn = t /\ Become(r, q)
        /\ q.bill.order = o /\ q.bill.fund = p.bill.fund /\ q.bill.method = "VNPAY"
    BY <1>1, <1>4 DEF Request, Bill
  <2> HIDE DEF q
  <2>2. StepOf(r) /\ RowsInv' /\ req'[r] = q
    BY <1>2, <2>1, QuietStep
  <2>3. \A s \in Requests : req'[s].txn = t => s = r
    BY <1>1, <2>2 DEF StepOf
  <2>4. o # NoTxn /\ pay[o].fund # NoFund
    BY <1>1, <1>4 DEF OrdersOf, RowsOf, IInv, RowInv
  <2>5. ReqInv(r)'
    BY <1>1, <1>2, <2>1, <2>2, <2>3, <2>4
       DEF ReqInv, DepositSteps, CallbackSteps, DonationSteps
  <2> QED BY <2>2, <2>5, Preserved
<1> QED BY <1>3, <1>4 DEF DepositFindOrder

LEMMA LookUpKept ==
    ASSUME IInv, TypeOK', NEW r \in Requests, LookUp(r)
    PROVE  IInv'
<1> DEFINE p == req[r]
           t == p.txn
           step == IF p.ok /\ ~AlreadyProcessed(t) THEN "member" ELSE "record"
           q == [p EXCEPT !.row = RowFound(t), !.pc = step]
<1>1. p \in Request /\ t \in Txns /\ outcome[t] # "unsent"
  BY DEF LookUp, At, IInv, ReqInv, TypeOK
<1>2. UNCHANGED <<tx, pay, late, order, outcome, plans>>
      /\ \A x \in Txns : plans'[x] >= plans[x]
  BY DEF LookUp, db, IInv, TypeOK
<1>3. CASE Finish(r)
  BY <1>2, <1>3, FinishKept
<1>4. CASE Trusted(p) /\ Become(r, q)
  <2>1. /\ q.pc = step /\ q.txn = t /\ q.ok = p.ok /\ q.row = RowFound(t)
        /\ Become(r, q)
    BY <1>1, <1>4 DEF Request
  <2>2. outcome[t] = IF p.ok THEN "success" ELSE "failed"
    BY <1>4 DEF LookUp, At, Trusted, IInv, ReqInv
  <2>3. ASSUME pay[t].fund = NoFund PROVE q.row = "deposit"
    <3>1. tx[t] \notin {"unused", "deleted"}
      BY <1>1, <2>3 DEF IInv, RowInv
    <3> QED BY <1>1, <2>1, <3>1 DEF IInv, TypeOK, RowFound, Exists
  <2>4. ASSUME step = "record", p.ok, ~Donating(q) PROVE plans[t] > 0
    <3>1. AlreadyProcessed(t)
      BY <2>4
    <3>2. CASE RowFound(t) = "deposit" /\ tx[t] = "SUCCESS"
      <4>1. pay[t].fund = NoFund
        BY <2>1, <2>4, <3>2 DEF Donating
      <4> QED BY <1>1, <3>2, <4>1 DEF IInv, RowInv, SettledIsServed
    <3>3. CASE late[t] = "SUCCESS"
      BY <1>1, <3>3 DEF IInv, SettledIsServed
    <3> QED BY <3>1, <3>2, <3>3 DEF AlreadyProcessed
  <2>5. step \in {"member", "record"} /\ (step = "member" => p.ok)
    OBVIOUS
  <2> HIDE DEF q, step
  <2>6. StepOf(r) /\ RowsInv' /\ req'[r] = q
    BY <1>2, <2>1, QuietStep
  <2>7. (Donating(req[r]))' = Donating(q)
    BY <1>2, <2>6 DEF Donating
  <2>8. ReqInv(r)'
    BY <1>1, <1>2, <2>1, <2>2, <2>3, <2>4, <2>5, <2>6, <2>7
       DEF ReqInv, DepositSteps, CallbackSteps, DonationSteps
  <2> QED BY <2>6, <2>8, Preserved
<1> QED BY <1>3, <1>4 DEF LookUp

LEMMA NewOrderKept ==
    ASSUME IInv, TypeOK', NEW r \in Requests, DepositNewOrder(r)
    PROVE  IInv'
<1> DEFINE p == req[r]
           t == p.txn
           q == [p EXCEPT !.pc = "insertTx", !.bill.order = t]
<1>1. p.pc = "newOrder" /\ p.bill.method = "VNPAY"
  BY DEF DepositNewOrder, At, IInv, ReqInv
<1>2. /\ t \in Txns /\ tx[t] = "unused" /\ pay[t] = NoBill
      /\ outcome[t] = "unsent" /\ t # NoTxn
      /\ \A s \in Requests : req[s].txn = t => s = r
  BY <1>1, DepositFacts DEF DepositSteps
<1>3. /\ q.pc = "insertTx" /\ q.txn = t /\ q.bill.order = t /\ q.bill.method = "VNPAY"
  BY SMTT(30), <1>1 DEF IInv, TypeOK, Request, Bill
<1>4. /\ order' = [order EXCEPT ![t] = "PENDING"]
      /\ req' = [req EXCEPT ![r] = q]
      /\ UNCHANGED <<tx, pay, late, outcome, plans>>
  BY DEF DepositNewOrder, Become
<1> HIDE DEF q
<1>5. req'[r] = q /\ \A s \in Requests \ {r} : req'[s] = req[s]
  BY <1>4 DEF IInv, TypeOK
<1>6. StepOf(r)
  BY <1>3, <1>4, <1>5 DEF StepOf, IInv, TypeOK
<1>7. \A x \in Txns : order'[x] = order[x] \/ (x = t /\ order'[x] = "PENDING")
  BY <1>4 DEF IInv, TypeOK
<1>8. RowsInv'
  <2>1. (\A x \in Txns : RowInv(x))'
    BY <1>4, <1>7 DEF IInv, RowInv
  <2>2. SettledIsServed' /\ OrderFollowsPayment'
    BY <1>4, <1>7 DEF IInv, SettledIsServed, OrderFollowsPayment
  <2> QED BY <2>1, <2>2 DEF RowsInv
<1>9. ReqInv(r)'
  <2>1. \A s \in Requests : req'[s].txn = t => s = r
    BY <1>2, <1>5
  <2> QED BY <1>2, <1>3, <1>4, <1>5, <2>1
          DEF ReqInv, DepositSteps, CallbackSteps, DonationSteps
<1> QED BY <1>6, <1>8, <1>9, Preserved

LEMMA InsertKept ==
    ASSUME IInv, TypeOK', NEW r \in Requests, DepositInsert(r) \/ DonateInsert(r)
    PROVE  IInv'
<1> DEFINE p == req[r]
           t == p.txn
           b == p.bill
<1>1. p.pc \in {"insertTx", "giftInsert"}
  BY DEF DepositInsert, DonateInsert, At
<1>2. /\ t \in Txns /\ tx[t] = "unused" /\ pay[t] = NoBill
      /\ outcome[t] = "unsent" /\ order[t] \in {"none", "PENDING"}
      /\ late[t] = "absent" /\ t # NoTxn
      /\ \A x \in Txns : pay[x].fund # NoFund => pay[x].order # t
      /\ \A s \in Requests : req[s].txn = t => s = r
  BY <1>1, DepositFacts DEF DepositSteps
<1>3. /\ pay' = [pay EXCEPT ![t] = b]
      /\ UNCHANGED <<late, order, plans>>
      /\ tx' = [tx EXCEPT ![t] = IF p.pc = "insertTx" THEN "PENDING" ELSE "SUCCESS"]
      /\ outcome' = IF p.pc = "insertTx" THEN [outcome EXCEPT ![t] = "pending"] ELSE outcome
  BY DEF DepositInsert, DonateInsert, At
<1>4. /\ p.pc = "insertTx" => b.method = "VNPAY" /\ b.order # NoTxn
            /\ (b.order = t \/ (b.fund # NoFund /\ pay[b.order].fund # NoFund))
      /\ p.pc = "giftInsert" => b.method = "SHARE_FUND" /\ b.fund # NoFund /\ b.order = NoTxn
      /\ b.order \in Txns \cup {NoTxn}
  BY DEF IInv, ReqInv, TypeOK, Request, Bill
<1>5. /\ pay'[t] = b
      /\ tx'[t] = IF p.pc = "insertTx" THEN "PENDING" ELSE "SUCCESS"
      /\ outcome'[t] = IF p.pc = "insertTx" THEN "pending" ELSE "unsent"
      /\ \A x \in Txns \ {t} : pay'[x] = pay[x] /\ tx'[x] = tx[x] /\ outcome'[x] = outcome[x]
  BY <1>2, <1>3 DEF IInv, TypeOK
<1>6. /\ \A s \in Requests \ {r} : req'[s] = req[s]
      /\ p.pc = "insertTx" => req'[r] = IdleReq
      /\ p.pc = "giftInsert" => req'[r].pc = "giftAdd" /\ req'[r].txn = t /\ req'[r].bill = b
  BY DEF DepositInsert, DonateInsert, At, Goto, Finish, Become, IInv, TypeOK, Request
<1> HIDE DEF b
<1>7. StepOf(r)
  <2>1. \A x \in Txns : plans'[x] >= plans[x]
    BY <1>3 DEF IInv, TypeOK
  <2>2. req'[r].txn = t \/ req'[r].txn = NoTxn
    BY <1>1, <1>6 DEF IdleReq
  <2>3. p.pc \in DepositSteps
    BY <1>1 DEF DepositSteps
  <2> QED BY <1>1, <1>2, <1>5, <1>6, <2>1, <2>2, <2>3 DEF StepOf
<1>8. ASSUME NEW x \in Txns PROVE RowInv(x)'
  <2>1. CASE x = t
    <3>1. b.order # NoTxn /\ b.fund # NoFund => pay'[b.order].fund # NoFund
      BY <1>1, <1>4, <1>5
    <3> QED BY <1>1, <1>2, <1>3, <1>4, <1>5, <2>1, <3>1 DEF RowInv
  <2>2. CASE x # t
    <3>1. pay[x].order \in Txns \cup {NoTxn}
      BY DEF IInv, TypeOK, Bill
    <3> QED BY <1>2, <1>3, <1>5, <2>2, <3>1 DEF IInv, RowInv
  <2> QED BY <2>1, <2>2
<1>9. SettledIsServed' /\ OrderFollowsPayment'
  <2>1. ASSUME NEW x \in Txns, x # t
        PROVE  pay'[x] = pay[x] /\ tx'[x] = tx[x] /\ outcome'[x] = outcome[x]
    BY <1>5, <2>1
  <2>2. SettledIsServed'
    BY <1>1, <1>2, <1>3, <1>4, <1>5 DEF IInv, SettledIsServed
  <2>3. OrderFollowsPayment'
    BY <1>1, <1>2, <1>3, <1>4, <1>5 DEF IInv, OrderFollowsPayment
  <2> QED BY <2>2, <2>3
<1>10. ReqInv(r)'
  <2>1. CASE p.pc = "insertTx"
    BY <1>6, <2>1, IdleKept
  <2>2. CASE p.pc = "giftInsert"
    BY <1>4, <1>6, <2>2 DEF ReqInv, DepositSteps, CallbackSteps, DonationSteps
  <2> QED BY <1>1, <2>1, <2>2
<1> QED BY <1>7, <1>8, <1>9, <1>10, Preserved DEF RowsInv

LEMMA PurgeKept ==
    ASSUME IInv, TypeOK', NEW r \in Requests, DeleteFundPurge(r)
    PROVE  IInv'
<1> DEFINE p == req[r]
           f == p.bill.fund
<1>1. p.pc = "purge" /\ f # NoFund
  BY DEF DeleteFundPurge, At, IInv, ReqInv
<1>2. /\ UNCHANGED <<pay, late, order, outcome, plans>>
      /\ \A x \in Txns : \/ tx'[x] = tx[x]
                         \/ tx[x] = "PENDING" /\ tx'[x] = "deleted" /\ pay[x].fund # NoFund
  BY <1>1 DEF DeleteFundPurge, Purgeable, RowsOf
<1>3. /\ \A s \in Requests \ {r} : req'[s] = req[s]
      /\ req'[r].pc = "dropFund" /\ req'[r].txn = p.txn /\ req'[r].bill = p.bill
  BY DEF DeleteFundPurge, Goto, Become, IInv, TypeOK, Request
<1>4. StepOf(r)
  <2>1. \A x \in Txns : plans'[x] >= plans[x]
    BY <1>2 DEF IInv, TypeOK
  <2> QED BY <1>2, <1>3, <2>1 DEF StepOf
<1>5. ASSUME NEW x \in Txns PROVE RowInv(x)'
  BY <1>2 DEF IInv, RowInv
<1>6. SettledIsServed' /\ OrderFollowsPayment'
  BY <1>2 DEF IInv, SettledIsServed, OrderFollowsPayment
<1>7. ReqInv(r)'
  BY <1>1, <1>3 DEF ReqInv, DepositSteps, CallbackSteps, DonationSteps
<1> QED BY <1>4, <1>5, <1>6, <1>7, Preserved DEF RowsInv

LEMMA RecordKept ==
    ASSUME IInv, TypeOK', NEW r \in Requests, Record(r)
    PROVE  IInv'
<1> DEFINE p == req[r]
           t == p.txn
           d == Donating(p)
<1>1. p.pc = "record" /\ p \in Request
  BY DEF Record, At, IInv, TypeOK
<1>2. /\ t \in Txns /\ outcome[t] # "unsent" /\ p.ok \in BOOLEAN
      /\ outcome[t] = IF p.ok THEN "success" ELSE "failed"
      /\ pay[t].fund = NoFund => p.row = "deposit"
      /\ p.ok /\ ~d => plans[t] > 0
  BY <1>1 DEF IInv, ReqInv, CallbackSteps, Request
<1>3. /\ pay[t].method = "VNPAY" /\ tx[t] # "unused"
      /\ pay[t].fund = NoFund => pay[t].order = t /\ Exists(t)
  BY <1>2 DEF IInv, RowInv, TypeOK, Exists
<1>4. d <=> p.row = "deposit" /\ pay[t].fund # NoFund
  BY DEF Donating
<1>5. /\ UNCHANGED <<pay, order, outcome, plans>>
      /\ \A x \in Txns \ {t} : tx'[x] = tx[x] /\ late'[x] = late[x]
      /\ tx'[t] = IF p.row = "deposit" /\ Exists(t) THEN StatusOf(p.ok) ELSE tx[t]
      /\ late'[t] = IF p.row # "deposit" THEN StatusOf(p.ok) ELSE late[t]
  BY <1>2 DEF Record, IInv, TypeOK
<1>6. \/ AfterRecord(p) = "idle" /\ req' = [req EXCEPT ![r] = IdleReq]
      \/ AfterRecord(p) # "idle" /\ req' = [req EXCEPT ![r] = [p EXCEPT !.pc = AfterRecord(p)]]
  BY DEF Record, Finish, Goto, Become
<1>7. /\ \A s \in Requests \ {r} : req'[s] = req[s]
      /\ \/ req'[r] = IdleReq
         \/ /\ AfterRecord(p) # "idle" /\ req'[r].pc = AfterRecord(p)
            /\ req'[r].txn = t /\ req'[r].row = p.row /\ req'[r].ok = p.ok
  BY <1>1, <1>6 DEF IInv, TypeOK, Request
<1> HIDE DEF d
<1>8. StepOf(r)
  <2>1. \A x \in Txns : plans'[x] >= plans[x]
    BY <1>5 DEF IInv, TypeOK
  <2>2. req'[r].txn \in {t, NoTxn}
    BY <1>7 DEF IdleReq
  <2>3. tx'[t] # "unused" /\ tx'[t] \in {tx[t], StatusOf(outcome[t] = "success")}
    BY <1>2, <1>3, <1>5 DEF StatusOf
  <2> QED BY <1>2, <1>3, <1>5, <1>7, <2>1, <2>2, <2>3 DEF StepOf
<1>9. ASSUME NEW x \in Txns PROVE RowInv(x)'
  <2>1. CASE x = t
    BY <1>2, <1>3, <1>5, <2>1 DEF IInv, RowInv, StatusOf, Exists, RowStatus
  <2>2. CASE x # t
    BY <1>5, <2>2 DEF IInv, RowInv
  <2> QED BY <2>1, <2>2
<1>10. SettledIsServed'
  BY <1>2, <1>3, <1>4, <1>5 DEF IInv, SettledIsServed, StatusOf
<1>11. OrderFollowsPayment'
  <2>1. tx[t] = "SUCCESS" /\ pay[t].fund = NoFund => p.ok
    BY <1>2, <1>3 DEF IInv, RowInv
  <2>2. tx[t] = "FAILED" /\ pay[t].fund = NoFund => ~p.ok
    BY <1>2, <1>3 DEF IInv, RowInv
  <2> QED BY <1>2, <1>3, <1>5, <2>1, <2>2 DEF IInv, OrderFollowsPayment, StatusOf
<1>12. ReqInv(r)'
  <2>1. CASE req'[r] = IdleReq
    BY <2>1, IdleKept
  <2>2. CASE AfterRecord(p) = "setOrder" /\ req'[r].pc = "setOrder" /\ req'[r].txn = t
             /\ req'[r].row = p.row /\ req'[r].ok = p.ok
    <3>1. ~d /\ OrderOf(p) # NoTxn
      BY <2>2 DEF AfterRecord, d
    <3>2. pay[t].fund = NoFund /\ p.row = "deposit"
      BY <1>2, <1>4, <3>1 DEF OrderOf
    <3>3. (OrderOf(req[r]))' = t
      BY <1>3, <1>5, <2>2, <3>2 DEF OrderOf
    <3>4. tx'[t] = StatusOf(p.ok)
      BY <1>3, <1>5, <3>2
    <3> QED BY <1>2, <1>5, <2>2, <3>2, <3>3, <3>4
            DEF ReqInv, DepositSteps, CallbackSteps, DonationSteps
  <2>3. CASE AfterRecord(p) \in {"collect", "recheck"} /\ req'[r].pc = AfterRecord(p)
             /\ req'[r].txn = t /\ req'[r].row = p.row /\ req'[r].ok = p.ok
    <3>1. d /\ p.ok
      BY <1>2, <2>3 DEF AfterRecord, d
    <3>2. (Donating(req[r]))'
      BY <1>4, <1>5, <2>3, <3>1 DEF Donating
    <3> QED BY <1>2, <1>4, <1>5, <2>3, <3>1, <3>2
            DEF ReqInv, DepositSteps, CallbackSteps, DonationSteps
  <2> QED BY <1>7, <2>1, <2>2, <2>3 DEF AfterRecord
<1> QED BY <1>8, <1>9, <1>10, <1>11, <1>12, Preserved DEF RowsInv

LEMMA SetOrderKept ==
    ASSUME IInv, TypeOK', NEW r \in Requests, SetOrder(r)
    PROVE  IInv'
<1> DEFINE p == req[r]
           t == p.txn
<1>1. p.pc = "setOrder"
  BY DEF SetOrder, At
<1>2. /\ t \in Txns /\ outcome[t] # "unsent" /\ pay[t].fund = NoFund /\ OrderOf(p) = t
      /\ tx[t] = StatusOf(p.ok) /\ p.ok \in BOOLEAN
  BY <1>1 DEF IInv, ReqInv, CallbackSteps, TypeOK, Request
<1>3. /\ UNCHANGED <<tx, pay, late, outcome, plans>>
      /\ \A x \in Txns \ {t} : order'[x] = order[x]
      /\ order'[t] = IF p.ok THEN "PAID" ELSE "FAILED"
  BY <1>2 DEF SetOrder, IInv, TypeOK
<1>4. req'[r] = IdleReq /\ \A s \in Requests \ {r} : req'[s] = req[s]
  BY DEF SetOrder, Finish, Become, IInv, TypeOK
<1>5. StepOf(r)
  <2>1. \A x \in Txns : plans'[x] >= plans[x]
    BY <1>3 DEF IInv, TypeOK
  <2>2. req'[r].txn = NoTxn
    BY <1>4 DEF IdleReq
  <2> QED BY <1>3, <1>4, <2>1, <2>2 DEF StepOf
<1>6. ASSUME NEW x \in Txns PROVE RowInv(x)'
  <2>1. tx[t] # "unused"
    BY <1>2 DEF StatusOf
  <2> QED BY <1>2, <1>3, <2>1 DEF IInv, RowInv
<1>7. SettledIsServed'
  BY <1>3 DEF IInv, SettledIsServed
<1>8. OrderFollowsPayment'
  BY <1>2, <1>3 DEF IInv, SettledIsServed, OrderFollowsPayment, StatusOf
<1> QED BY <1>4, <1>5, <1>6, <1>7, <1>8, IdleKept, Preserved DEF RowsInv

LEMMA MarkPaidKept ==
    ASSUME IInv, TypeOK', NEW r \in Requests, MarkPaid(r)
    PROVE  IInv'
<1> DEFINE os == req[r].orders
<1>1. \A o \in os : pay[o].fund # NoFund
  BY DEF MarkPaid, At, IInv, ReqInv
<1>2. /\ UNCHANGED <<tx, pay, late, outcome, plans>>
      /\ \A x \in Txns : order'[x] = IF x \in os THEN "PAID" ELSE order[x]
  BY DEF MarkPaid
<1>3. req'[r] = IdleReq /\ \A s \in Requests \ {r} : req'[s] = req[s]
  BY DEF MarkPaid, Finish, Become, IInv, TypeOK
<1> HIDE DEF os
<1>4. StepOf(r)
  <2>1. \A x \in Txns : plans'[x] >= plans[x]
    BY <1>2 DEF IInv, TypeOK
  <2>2. req'[r].txn = NoTxn
    BY <1>3 DEF IdleReq
  <2> QED BY <1>2, <1>3, <2>1, <2>2 DEF StepOf
<1>5. ASSUME NEW x \in Txns PROVE RowInv(x)'
  BY <1>1, <1>2 DEF IInv, RowInv, NoBill
<1>6. SettledIsServed' /\ OrderFollowsPayment'
  BY <1>1, <1>2 DEF IInv, SettledIsServed, OrderFollowsPayment
<1> QED BY <1>3, <1>4, <1>5, <1>6, IdleKept, Preserved DEF RowsInv

LEMMA ContinueKept ==
    ASSUME IInv, NEW r \in Requests, Continue(r)
    PROVE  IInv'
<1>1. TypeOK'
  BY ContinueType
<1>2. CASE CreateFundInsert(r)
  BY <1>1, <1>2, FinishKept DEF CreateFundInsert
<1>3. CASE DonateAdd(r)
  BY <1>1, <1>3, FinishKept DEF DonateAdd
<1>4. CASE DeleteFundDrop(r)
  BY <1>1, <1>4, FinishKept DEF DeleteFundDrop
<1> QED BY <1>1, <1>2, <1>3, <1>4, FindOrderKept, NewOrderKept, InsertKept, PurgeKept,
           LookUpKept, CallbackContinueKept, RecordKept, SetOrderKept, MarkPaidKept
        DEF Continue

LEMMA FailKept ==
    ASSUME IInv, NEW r \in Requests, Fail(r)
    PROVE  IInv'
<1>1. Finish(r) /\ UNCHANGED <<members, fund, roles, closed, deliveries>>
      /\ UNCHANGED <<tx, pay, late, order, outcome, plans>>
  BY DEF Fail, db
<1>2. TypeOK'
  BY <1>1, FinishType DEF IInv, TypeOK
<1> QED BY <1>1, <1>2, FinishKept

LEMMA DecideKept ==
    ASSUME IInv, NEW t \in Txns, Decide(t)
    PROVE  IInv'
<1>1. /\ outcome[t] = "pending" /\ outcome'[t] \in {"success", "failed"}
      /\ \A x \in Txns \ {t} : outcome'[x] = outcome[x]
      /\ UNCHANGED <<members, fund, tx, pay, late, order, roles, plans, closed,
                     deliveries, req>>
      /\ outcome' \in [Txns -> {"unsent", "pending", "success", "failed"}]
  BY DEF Decide, db, IInv, TypeOK
<1>2. TypeOK'
  BY <1>1 DEF IInv, TypeOK
<1>3. ASSUME NEW x \in Txns PROVE RowInv(x)'
  BY <1>1 DEF IInv, RowInv
<1>4. ASSUME NEW s \in Requests PROVE ReqInv(s)'
  <2> DEFINE q == req[s]
  <2>1. Donating(q)' = Donating(q) /\ OrderOf(q)' = OrderOf(q)
    BY <1>1 DEF Donating, OrderOf
  <2>2. q.pc \in CallbackSteps \/ (q.pc = "received" /\ q.verified) => q.txn # t
    BY <1>1 DEF IInv, ReqInv
  <2> QED BY <1>1, <2>1, <2>2 DEF IInv, ReqInv
<1>5. SettledIsServed' /\ OrderFollowsPayment'
  BY <1>1 DEF IInv, SettledIsServed, OrderFollowsPayment
<1> QED BY <1>2, <1>3, <1>4, <1>5 DEF IInv

LEMMA OthersUnchanged ==
    ASSUME IInv, UNCHANGED <<fund, tx, pay, late, order, outcome, roles, plans, closed,
                             deliveries, req>>,
           members' \in SUBSET Users
    PROVE  IInv'
<1>1. TypeOK'
  BY DEF IInv, TypeOK
<1>2. (\A t \in Txns : RowInv(t))'
  BY DEF IInv, RowInv
<1>3. (\A r \in Requests : ReqInv(r))'
  BY DEF IInv, ReqInv, Donating, OrderOf
<1>4. SettledIsServed' /\ OrderFollowsPayment'
  BY DEF IInv, SettledIsServed, OrderFollowsPayment
<1> QED BY <1>1, <1>2, <1>3, <1>4 DEF IInv

LEMMA NextKept == IInv /\ [Next]_vars => IInv'
<1> SUFFICES ASSUME IInv, [Next]_vars PROVE IInv'
  OBVIOUS
<1>1. ASSUME NEW r \in Requests, Arrive(r) \/ Continue(r) \/ Fail(r) PROVE IInv'
  BY <1>1, ArriveKept, ContinueKept, FailKept
<1>2. ASSUME NEW t \in Txns, Decide(t) PROVE IInv'
  BY <1>2, DecideKept
<1>3. ASSUME NEW u \in Users, ChangeMembership(u) PROVE IInv'
  <2>1. members' \in SUBSET Users
    BY <1>3 DEF ChangeMembership, IInv, TypeOK
  <2> QED BY <1>3, <2>1, OthersUnchanged DEF ChangeMembership
<1>4. CASE UNCHANGED vars
  <2>1. members' \in SUBSET Users
    BY <1>4 DEF vars, IInv, TypeOK
  <2> QED BY <1>4, <2>1, OthersUnchanged DEF vars
<1> QED BY <1>1, <1>2, <1>3, <1>4 DEF Next

LEMMA InitKept == Init => IInv
<1> SUFFICES ASSUME Init PROVE IInv
  OBVIOUS
<1>1. TypeOK
  BY InitType
<1>2. \A t \in Txns : RowInv(t)
  BY DEF Init, RowInv, NoBill
<1>3. \A r \in Requests : ReqInv(r)
  BY DEF Init, ReqInv, IdleReq, DepositSteps, CallbackSteps, DonationSteps
<1>4. SettledIsServed /\ OrderFollowsPayment
  BY DEF Init, SettledIsServed, OrderFollowsPayment
<1> QED BY <1>1, <1>2, <1>3, <1>4 DEF IInv

-----------------------------------------------------------------------------
(* The theorems *)

\* The strengthened invariant holds in every state the payment code reaches,
\* whatever the interleaving of requests and wherever they die.
THEOREM Inductive == Spec => []IInv
BY InitKept, NextKept, PTL DEF Spec

\* The rows and the local variables of the requests keep their types.
THEOREM TypeCorrect == Spec => []TypeOK
<1>1. IInv => TypeOK
  BY DEF IInv
<1> QED BY <1>1, Inductive, PTL

\* A payment recorded as SUCCESS by handleCallback was charged, and the plan it
\* buys had been granted before.
THEOREM SettledServed == Spec => []SettledIsServed
<1>1. IInv => SettledIsServed
  BY DEF IInv
<1> QED BY <1>1, Inductive, PTL

\* The order of a subscription says PAID or FAILED only after its payment does.
THEOREM OrderFollows == Spec => []OrderFollowsPayment
<1>1. IInv => OrderFollowsPayment
  BY DEF IInv
<1> QED BY <1>1, Inductive, PTL

\* No callback sets the order that donations share to FAILED.
THEOREM DonationOrder == Spec => []DonationOrderNeverFailed
<1>1. IInv => DonationOrderNeverFailed
  <2> SUFFICES ASSUME IInv, NEW t \in Txns, pay[t].fund # NoFund, pay[t].order # NoTxn
               PROVE  order[pay[t].order] # "FAILED"
    BY DEF DonationOrderNeverFailed
  <2>1. pay[t].order \in Txns /\ pay[pay[t].order].fund # NoFund
    BY DEF IInv, RowInv, TypeOK, Bill
  <2> QED BY <2>1 DEF IInv, RowInv
<1> QED BY <1>1, Inductive, PTL

\* A transaction recorded as SUCCESS is neither revised by a later callback nor
\* removed by the deletion of its fund.
THEOREM ContributionKept == Spec => ContributionsStay
<1>1. ASSUME IInv, [Next]_vars, NEW t \in Txns, tx[t] = "SUCCESS" PROVE tx'[t] = "SUCCESS"
  <2>1. ASSUME NEW r \in Requests, Record(r) PROVE tx'[t] = "SUCCESS"
    <3> DEFINE p == req[r]
    <3>1. p.pc = "record"
      BY <2>1 DEF Record, At
    <3>2. /\ p.txn \in Txns /\ outcome[p.txn] # "unsent"
          /\ outcome[p.txn] = IF p.ok THEN "success" ELSE "failed"
      BY <1>1, <3>1 DEF IInv, ReqInv, CallbackSteps
    <3>3. p.txn = t => p.ok
      BY <1>1, <3>2 DEF IInv, RowInv
    <3> QED BY <1>1, <2>1, <3>2, <3>3 DEF Record, StatusOf, IInv, TypeOK
  <2>2. ASSUME NEW r \in Requests, DepositInsert(r) \/ DonateInsert(r)
        PROVE  tx'[t] = "SUCCESS"
    <3>1. req[r].pc \in DepositSteps
      BY <2>2 DEF DepositInsert, DonateInsert, At, DepositSteps
    <3>2. req[r].txn # t
      BY <1>1, <3>1, DepositFacts
    <3> QED BY <1>1, <2>2, <3>2 DEF DepositInsert, DonateInsert, IInv, TypeOK
  <2>3. ASSUME NEW r \in Requests, DeleteFundPurge(r) PROVE tx'[t] = "SUCCESS"
    BY SMTT(30), <1>1, <2>3 DEF DeleteFundPurge, Purgeable
  <2>4. ASSUME NEW r \in Requests, Arrive(r) \/ Continue(r) \/ Fail(r)
        PROVE  \/ tx' = tx \/ Record(r) \/ DepositInsert(r) \/ DonateInsert(r)
               \/ DeleteFundPurge(r)
    BY <2>4 DEF Arrive, Continue, Fail, db, DepositStart, DonateStart, CreateFundStart,
       DeleteFundStart, Callback, DepositFindOrder, DepositNewOrder, CreateFundInsert,
       DonateAdd, DeleteFundDrop, LookUp, CheckMember, ReadRole, WriteRole, ReadFund,
       AddAmount, CloseFund, DropPaidFund, Subscribe, SetOrder, Recheck,
       CollectOrders, MarkPaid
  <2>5. (\E x \in Txns : Decide(x)) \/ (\E u \in Users : ChangeMembership(u))
        \/ UNCHANGED vars => tx' = tx
    BY DEF Decide, ChangeMembership, vars, db
  <2> QED BY <1>1, <2>1, <2>2, <2>3, <2>4, <2>5 DEF Next
<1>2. IInv /\ [Next]_vars => [\A t \in Txns : tx[t] = "SUCCESS" => tx'[t] = "SUCCESS"]_vars
  BY <1>1
<1> QED BY <1>2, Inductive, PTL DEF Spec, ContributionsStay
-----------------------------------------------------------------------------
(* A completed fund was charged *)

\* The gateway's answer is final, so a payment that was charged stays charged.
LEMMA ChargedStays ==
    ASSUME IInv, [Next]_vars, NEW t \in Txns, outcome[t] = "success"
    PROVE  outcome'[t] = "success" /\ pay'[t] = pay[t]
<1>1. ASSUME NEW r \in Requests, DepositInsert(r) \/ DonateInsert(r)
      PROVE  outcome'[t] = "success" /\ pay'[t] = pay[t]
  <2>1. req[r].pc \in DepositSteps
    BY <1>1 DEF DepositInsert, DonateInsert, At, DepositSteps
  <2>2. req[r].txn # t
    BY <2>1, DepositFacts
  <2> QED BY <1>1, <2>2 DEF DepositInsert, DonateInsert, IInv, TypeOK
<1>2. ASSUME NEW x \in Txns, Decide(x)
      PROVE  outcome'[t] = "success" /\ pay'[t] = pay[t]
  BY SMTT(30), <1>2 DEF Decide, db, IInv, TypeOK
<1>3. ASSUME NEW r \in Requests, Arrive(r) \/ Continue(r) \/ Fail(r)
      PROVE  \/ UNCHANGED <<pay, outcome>> \/ DepositInsert(r) \/ DonateInsert(r)
  BY <1>3 DEF Arrive, Continue, Fail, db, DepositStart, DonateStart, CreateFundStart,
     DeleteFundStart, Callback, DepositFindOrder, DepositNewOrder, CreateFundInsert,
     DonateAdd, DeleteFundPurge, DeleteFundDrop, LookUp, CheckMember, ReadRole,
     WriteRole, ReadFund, AddAmount, CloseFund, DropPaidFund, Subscribe, Record,
     SetOrder, Recheck, CollectOrders, MarkPaid
<1>4. (\E u \in Users : ChangeMembership(u)) \/ UNCHANGED vars => UNCHANGED <<pay, outcome>>
  BY DEF ChangeMembership, vars
<1> QED BY <1>1, <1>2, <1>3, <1>4 DEF Next

\* A fund is completed, and its plan granted, only by a donation through the
\* gateway that was charged: ShareFundService.donate never completes one.
THEOREM CompletedCharged == Spec => []CompletedByCharge
<1>1. Init => CompletedByCharge
  BY DEF Init, CompletedByCharge
<1>2. IInv /\ CompletedByCharge /\ [Next]_vars => CompletedByCharge'
  <2> SUFFICES ASSUME IInv, CompletedByCharge, [Next]_vars,
                      NEW f \in Funds, closed'[f] > 0
               PROVE  \E t \in Txns : /\ pay'[t].fund = f /\ pay'[t].method = "VNPAY"
                                      /\ outcome'[t] = "success"
    BY DEF CompletedByCharge
  <2>1. CASE closed[f] > 0
    <3>1. PICK t \in Txns : /\ pay[t].fund = f /\ pay[t].method = "VNPAY"
                            /\ outcome[t] = "success"
      BY <2>1 DEF CompletedByCharge
    <3>2. outcome'[t] = "success" /\ pay'[t] = pay[t]
      BY <3>1, ChargedStays
    <3> QED BY <3>1, <3>2
  <2>2. ASSUME NEW r \in Requests, CloseFund(r), closed[f] = 0
        PROVE  \E t \in Txns : /\ pay'[t].fund = f /\ pay'[t].method = "VNPAY"
                               /\ outcome'[t] = "success"
    <3> DEFINE t == req[r].txn
    <3>1. req[r].pc = "closeFund"
      BY <2>2 DEF CloseFund, At
    <3>2. t \in Txns /\ outcome[t] = "success"
      BY <3>1 DEF IInv, ReqInv, CallbackSteps
    <3>3. pay[t].method = "VNPAY"
      BY <3>2 DEF IInv, RowInv
    <3>4. FundOf(r) = f
      BY <2>2 DEF CloseFund, IInv, TypeOK
    <3>5. outcome'[t] = "success" /\ pay'[t] = pay[t]
      BY SMTT(30), <3>2, ChargedStays
    <3> QED BY <3>2, <3>3, <3>4, <3>5 DEF FundOf
  <2>3. ASSUME NEW r \in Requests, Arrive(r) \/ Continue(r) \/ Fail(r)
        PROVE  closed' = closed \/ CloseFund(r)
    BY <2>3 DEF Arrive, Continue, Fail, db, DepositStart, DonateStart, CreateFundStart,
       DeleteFundStart, Callback, DepositFindOrder, DepositNewOrder, DepositInsert,
       CreateFundInsert, DonateInsert, DonateAdd, DeleteFundPurge, DeleteFundDrop,
       LookUp, CheckMember, ReadRole, WriteRole, ReadFund, AddAmount, DropPaidFund,
       Subscribe, Record, SetOrder, Recheck, CollectOrders, MarkPaid
  <2>4. (\E x \in Txns : Decide(x)) \/ (\E u \in Users : ChangeMembership(u))
        \/ UNCHANGED vars => closed' = closed
    BY DEF Decide, ChangeMembership, vars, db
  <2>5. closed[f] = 0 \/ closed[f] > 0
    BY DEF IInv, TypeOK
  <2> QED BY <2>1, <2>2, <2>3, <2>4, <2>5 DEF Next
<1> QED BY <1>1, <1>2, Inductive, PTL DEF Spec

-----------------------------------------------------------------------------
(* The payment component implements PaymentContract *)

\* The values PaymentContract's variables take, as Contract substitutes them.
AbsBuys == [t \in Txns |-> outcome[t] # "unsent" /\ pay[t].fund = NoFund]

AbsSettled == [t \in Txns |->
    IF pay[t].method = "VNPAY" /\ tx[t] \in {"SUCCESS", "FAILED"} THEN tx[t]
    ELSE IF late[t] # "absent" THEN late[t] ELSE "open"]

AbsConfirmed == [t \in Txns |->
    IF pay[t].fund = NoFund /\ order[t] \in {"PAID", "FAILED"}
    THEN order[t] ELSE "open"]

AbsVars == <<outcome, AbsBuys, plans, AbsSettled, AbsConfirmed>>

LEMMA AbsIsContract == UNCHANGED AbsVars => UNCHANGED Contract!vars
BY DEF AbsVars, AbsBuys, AbsSettled, AbsConfirmed, Contract!vars

LEMMA ContractInit == Init => Contract!Init
<1> SUFFICES ASSUME Init PROVE Contract!Init
  OBVIOUS
<1>1. \A t \in Txns : AbsBuys[t] = FALSE
  BY DEF Init, AbsBuys
<1>2. \A t \in Txns : AbsSettled[t] = "open" /\ AbsConfirmed[t] = "open"
  BY DEF Init, AbsSettled, AbsConfirmed
<1>3. /\ AbsBuys = [t \in Txns |-> FALSE]
      /\ AbsSettled = [t \in Txns |-> "open"]
      /\ AbsConfirmed = [t \in Txns |-> "open"]
  <2>1. AbsBuys = [t \in Txns |-> AbsBuys[t]]
    BY DEF AbsBuys
  <2>2. AbsSettled = [t \in Txns |-> AbsSettled[t]]
    BY DEF AbsSettled
  <2>3. AbsConfirmed = [t \in Txns |-> AbsConfirmed[t]]
    BY DEF AbsConfirmed
  <2> QED BY <1>1, <1>2, <2>1, <2>2, <2>3
<1> QED BY <1>3 DEF Init, Contract!Init, AbsBuys, AbsSettled, AbsConfirmed

\* A step that leaves alone every column the contract reads is a stutter.
LEMMA SameRows ==
    ASSUME UNCHANGED <<tx, pay, late, order, outcome, plans>>
    PROVE  UNCHANGED AbsVars
BY DEF AbsVars, AbsBuys, AbsSettled, AbsConfirmed

\* Two steps at which the columns change without the contract seeing it.
LEMMA SameView ==
    ASSUME UNCHANGED <<outcome, plans>>,
           \A t \in Txns : /\ AbsBuys'[t] = AbsBuys[t]
                           /\ AbsSettled'[t] = AbsSettled[t]
                           /\ AbsConfirmed'[t] = AbsConfirmed[t]
    PROVE  UNCHANGED AbsVars
<1>1. AbsBuys = [t \in Txns |-> AbsBuys[t]] /\ AbsBuys' = [t \in Txns |-> AbsBuys'[t]]
  BY DEF AbsBuys
<1>2. /\ AbsSettled = [t \in Txns |-> AbsSettled[t]]
      /\ AbsSettled' = [t \in Txns |-> AbsSettled'[t]]
  BY DEF AbsSettled
<1>3. /\ AbsConfirmed = [t \in Txns |-> AbsConfirmed[t]]
      /\ AbsConfirmed' = [t \in Txns |-> AbsConfirmed'[t]]
  BY DEF AbsConfirmed
<1>4. AbsBuys' = AbsBuys /\ AbsSettled' = AbsSettled /\ AbsConfirmed' = AbsConfirmed
  BY <1>1, <1>2, <1>3
<1> QED BY <1>4 DEF AbsVars

LEMMA SendStep ==
    ASSUME IInv, NEW r \in Requests, DepositInsert(r), NEW t \in Txns, t = req[r].txn
    PROVE  Contract!Send(t)
<1>1. /\ t \in Txns /\ tx[t] = "unused" /\ outcome[t] = "unsent"
      /\ order[t] \in {"none", "PENDING"} /\ late[t] = "absent"
  BY DepositFacts DEF DepositInsert, At, DepositSteps
<1>2. /\ tx' = [tx EXCEPT ![t] = "PENDING"] /\ pay' = [pay EXCEPT ![t] = req[r].bill]
      /\ outcome' = [outcome EXCEPT ![t] = "pending"]
      /\ UNCHANGED <<late, order, plans>>
      /\ tx \in [Txns -> {"unused", "deleted"} \cup RowStatus]
      /\ pay \in [Txns -> Bill]
      /\ outcome \in [Txns -> {"unsent", "pending", "success", "failed"}]
  BY DEF DepositInsert, IInv, TypeOK
<1> DEFINE b == req[r].bill.fund = NoFund
<1>3. AbsBuys' = [AbsBuys EXCEPT ![t] = b] /\ b \in BOOLEAN
  BY <1>1, <1>2 DEF AbsBuys
<1>4. AbsSettled' = AbsSettled
  BY <1>1, <1>2 DEF AbsSettled
<1>5. AbsConfirmed' = AbsConfirmed
  BY <1>1, <1>2 DEF AbsConfirmed
<1> HIDE DEF b
<1> QED BY <1>1, <1>2, <1>3, <1>4, <1>5
        DEF Contract!Send, AbsBuys, AbsSettled, AbsConfirmed

LEMMA DecideStep ==
    ASSUME IInv, NEW t \in Txns, Decide(t)
    PROVE  Contract!Decide(t)
<1>1. /\ outcome[t] = "pending" /\ UNCHANGED <<tx, pay, late, order, plans>>
      /\ \E v \in {"success", "failed"} : outcome' = [outcome EXCEPT ![t] = v]
      /\ outcome \in [Txns -> {"unsent", "pending", "success", "failed"}]
  BY DEF Decide, db, IInv, TypeOK
<1>2. AbsBuys' = AbsBuys
  <2>1. \A x \in Txns : (outcome'[x] # "unsent") = (outcome[x] # "unsent")
    BY <1>1
  <2> QED BY <1>1, <2>1 DEF AbsBuys
<1>3. AbsSettled' = AbsSettled /\ AbsConfirmed' = AbsConfirmed
  BY <1>1 DEF AbsSettled, AbsConfirmed
<1> QED BY <1>1, <1>2, <1>3 DEF Contract!Decide, AbsBuys, AbsSettled, AbsConfirmed

LEMMA GrantStep ==
    ASSUME IInv, NEW r \in Requests, Subscribe(r), NEW t \in Txns, t = req[r].txn
    PROVE  Contract!Grant(t)
<1>1. outcome[t] = "success"
  BY DEF Subscribe, At, IInv, ReqInv, CallbackSteps
<1>2. plans' = [plans EXCEPT ![t] = @ + 1] /\ UNCHANGED <<tx, pay, late, order, outcome>>
  BY DEF Subscribe
<1>3. AbsBuys' = AbsBuys /\ AbsSettled' = AbsSettled /\ AbsConfirmed' = AbsConfirmed
  BY <1>2 DEF AbsBuys, AbsSettled, AbsConfirmed
<1> QED BY <1>1, <1>2, <1>3 DEF Contract!Grant, AbsBuys, AbsSettled, AbsConfirmed

\* Recording a payment settles it, unless the same was recorded before, in the
\* row of the deposit or in the one an earlier callback inserted.
LEMMA SettleStep ==
    ASSUME IInv, NEW r \in Requests, Record(r), NEW t \in Txns, t = req[r].txn
    PROVE  Contract!Settle(t) \/ UNCHANGED AbsVars
<1> DEFINE p == req[r]
           s == StatusOf(p.ok)
<1>1. p.pc = "record"
  BY DEF Record, At
<1>2. /\ t \in Txns /\ outcome[t] # "unsent" /\ p.ok \in BOOLEAN
      /\ outcome[t] = IF p.ok THEN "success" ELSE "failed"
      /\ pay[t].fund = NoFund => p.row = "deposit"
      /\ p.ok /\ pay[t].fund = NoFund => plans[t] > 0
  BY <1>1 DEF IInv, ReqInv, CallbackSteps, TypeOK, Request, Donating
<1>3. /\ pay[t].method = "VNPAY"
      /\ tx[t] = "SUCCESS" => p.ok
      /\ tx[t] = "FAILED" => ~p.ok
      /\ late[t] = "SUCCESS" => p.ok
      /\ late[t] = "FAILED" => ~p.ok
      /\ tx[t] \in {"unused", "deleted"} \cup RowStatus
      /\ late[t] \in {"absent", "SUCCESS", "FAILED"}
  BY <1>2 DEF IInv, RowInv, TypeOK
<1>4. /\ UNCHANGED <<pay, order, outcome, plans>>
      /\ \A x \in Txns \ {t} : tx'[x] = tx[x] /\ late'[x] = late[x]
      /\ tx'[t] = IF p.row = "deposit" /\ Exists(t) THEN s ELSE tx[t]
      /\ late'[t] = IF p.row # "deposit" THEN s ELSE late[t]
  BY <1>2 DEF Record, IInv, TypeOK
<1>5. AbsBuys' = AbsBuys /\ AbsConfirmed' = AbsConfirmed
  BY <1>4 DEF AbsBuys, AbsConfirmed
<1>6. s = (IF p.ok THEN "SUCCESS" ELSE "FAILED")
  BY DEF StatusOf
<1>7. \A x \in Txns \ {t} : AbsSettled'[x] = AbsSettled[x]
  BY <1>4 DEF AbsSettled
<1>8. AbsSettled[t] \in {"open", s}
  BY <1>2, <1>3, <1>6 DEF AbsSettled
<1>9. AbsSettled'[t] \in {AbsSettled[t], s}
  BY <1>2, <1>3, <1>4, <1>6 DEF AbsSettled, Exists, RowStatus
<1> HIDE DEF s
<1>10. CASE AbsSettled'[t] = AbsSettled[t]
  <2>1. \A x \in Txns : /\ AbsBuys'[x] = AbsBuys[x] /\ AbsSettled'[x] = AbsSettled[x]
                        /\ AbsConfirmed'[x] = AbsConfirmed[x]
    BY <1>5, <1>7, <1>10
  <2> QED BY <1>2, <1>4, <2>1, SameView
<1>11. CASE AbsSettled[t] = "open" /\ AbsSettled'[t] = s
  <2>1. AbsSettled' = [AbsSettled EXCEPT ![t] = s]
    <3>1. /\ AbsSettled = [x \in Txns |-> AbsSettled[x]]
          /\ AbsSettled' = [x \in Txns |-> AbsSettled'[x]]
      BY DEF AbsSettled
    <3> QED BY <1>2, <1>7, <1>11, <3>1
  <2>2. AbsBuys[t] => pay[t].fund = NoFund
    BY <1>2 DEF AbsBuys
  <2>3. \/ /\ outcome[t] = "success" /\ s = "SUCCESS"
           /\ AbsBuys[t] => plans[t] > 0
        \/ outcome[t] = "failed" /\ s = "FAILED"
    BY <1>2, <1>6, <2>2
  <2>4. /\ AbsSettled[t] = "open"
        /\ \/ /\ outcome[t] = "success"
              /\ AbsBuys[t] => plans[t] > 0
              /\ AbsSettled' = [AbsSettled EXCEPT ![t] = "SUCCESS"]
           \/ /\ outcome[t] = "failed"
              /\ AbsSettled' = [AbsSettled EXCEPT ![t] = "FAILED"]
        /\ outcome' = outcome /\ AbsBuys' = AbsBuys /\ plans' = plans
        /\ AbsConfirmed' = AbsConfirmed
    BY <1>4, <1>5, <1>11, <2>1, <2>3
  <2> QED BY <2>4 DEF Contract!Settle, AbsBuys, AbsSettled, AbsConfirmed
<1> QED BY <1>8, <1>9, <1>10, <1>11

\* The order of a subscription follows the settlement of its payment, once.
LEMMA ConfirmStep ==
    ASSUME IInv, NEW r \in Requests, SetOrder(r), NEW t \in Txns, t = req[r].txn
    PROVE  Contract!Confirm(t) \/ UNCHANGED AbsVars
<1> DEFINE p == req[r]
           o == IF p.ok THEN "PAID" ELSE "FAILED"
<1>1. p.pc = "setOrder"
  BY DEF SetOrder, At
<1>2. /\ t \in Txns /\ outcome[t] # "unsent" /\ pay[t].fund = NoFund /\ OrderOf(p) = t
      /\ tx[t] = StatusOf(p.ok) /\ p.ok \in BOOLEAN
  BY <1>1 DEF IInv, ReqInv, CallbackSteps, TypeOK, Request
<1>3. /\ UNCHANGED <<tx, pay, late, outcome, plans>>
      /\ order' = [order EXCEPT ![t] = o]
      /\ order \in [Txns -> {"none", "PENDING", "PAID", "FAILED"}]
  BY <1>2 DEF SetOrder, IInv, TypeOK
<1>4. pay[t].method = "VNPAY" /\ (order[t] = "PAID" => p.ok) /\ (order[t] = "FAILED" => ~p.ok)
  BY <1>2 DEF IInv, RowInv, OrderFollowsPayment, StatusOf
<1>5. AbsBuys' = AbsBuys /\ AbsSettled' = AbsSettled
  BY <1>3 DEF AbsBuys, AbsSettled
<1>6. AbsConfirmed' = [AbsConfirmed EXCEPT ![t] = o]
  BY <1>2, <1>3 DEF AbsConfirmed
<1>7. AbsConfirmed[t] \in {"open", o}
  BY <1>2, <1>4 DEF AbsConfirmed
<1>8. AbsBuys[t] /\ AbsSettled[t] = StatusOf(p.ok)
  BY <1>2, <1>4 DEF AbsBuys, AbsSettled, StatusOf
<1>9. CASE AbsConfirmed[t] = o
  <2>1. AbsConfirmed' = AbsConfirmed
    BY <1>2, <1>6, <1>9 DEF AbsConfirmed
  <2> QED BY <1>2, <1>3, <1>5, <2>1 DEF AbsVars
<1>10. CASE AbsConfirmed[t] = "open"
  <2>1. /\ AbsBuys[t] /\ AbsConfirmed[t] = "open"
        /\ \/ /\ AbsSettled[t] = "SUCCESS"
              /\ AbsConfirmed' = [AbsConfirmed EXCEPT ![t] = "PAID"]
           \/ /\ AbsSettled[t] = "FAILED"
              /\ AbsConfirmed' = [AbsConfirmed EXCEPT ![t] = "FAILED"]
        /\ outcome' = outcome /\ AbsBuys' = AbsBuys /\ plans' = plans
        /\ AbsSettled' = AbsSettled
    BY <1>2, <1>3, <1>5, <1>6, <1>8, <1>10 DEF StatusOf
  <2> QED BY <2>1 DEF Contract!Confirm, AbsBuys, AbsSettled, AbsConfirmed
<1> QED BY <1>7, <1>9, <1>10

\* Opening an order, recording a member's own donation, purging the PENDING rows
\* of a fund and marking the order of its donations are not seen by the contract.
LEMMA UnseenStep ==
    ASSUME IInv, NEW r \in Requests,
           DepositNewOrder(r) \/ DonateInsert(r) \/ DeleteFundPurge(r) \/ MarkPaid(r)
    PROVE  UNCHANGED AbsVars
<1> DEFINE p == req[r]
           t == p.txn
<1>1. CASE DepositNewOrder(r)
  <2>1. t \in Txns /\ order[t] \in {"none", "PENDING"}
    BY <1>1, DepositFacts DEF DepositNewOrder, At, DepositSteps
  <2>2. /\ order' = [order EXCEPT ![t] = "PENDING"]
        /\ UNCHANGED <<tx, pay, late, outcome, plans>>
    BY <1>1 DEF DepositNewOrder
  <2>3. \A x \in Txns : order'[x] = order[x] \/ (order[x] \in {"none", "PENDING"}
                                                 /\ order'[x] = "PENDING")
    BY <2>1, <2>2 DEF IInv, TypeOK
  <2> QED BY <2>2, <2>3, SameView DEF AbsBuys, AbsSettled, AbsConfirmed
<1>2. CASE DonateInsert(r)
  <2>1. /\ p.pc = "giftInsert" /\ p.bill.method = "SHARE_FUND" /\ p.bill.fund # NoFund
    BY <1>2 DEF DonateInsert, At, IInv, ReqInv
  <2>2. /\ t \in Txns /\ tx[t] = "unused" /\ outcome[t] = "unsent"
        /\ order[t] \in {"none", "PENDING"} /\ late[t] = "absent"
    BY <2>1, DepositFacts DEF DepositSteps
  <2>3. /\ UNCHANGED <<late, order, outcome, plans>>
        /\ pay'[t] = p.bill /\ tx'[t] = "SUCCESS"
        /\ \A x \in Txns \ {t} : pay'[x] = pay[x] /\ tx'[x] = tx[x]
    BY <1>2, <2>2 DEF DonateInsert, IInv, TypeOK
  <2>4. ASSUME NEW x \in Txns
        PROVE  /\ AbsBuys'[x] = AbsBuys[x]
               /\ AbsSettled'[x] = AbsSettled[x]
               /\ AbsConfirmed'[x] = AbsConfirmed[x]
    BY <2>1, <2>2, <2>3 DEF AbsBuys, AbsSettled, AbsConfirmed
  <2> QED BY <2>3, <2>4, SameView
<1>3. CASE DeleteFundPurge(r)
  <2>1. /\ UNCHANGED <<pay, late, order, outcome, plans>>
        /\ \A x \in Txns : \/ tx'[x] = tx[x]
                           \/ tx[x] = "PENDING" /\ tx'[x] = "deleted"
    BY <1>3 DEF DeleteFundPurge, Purgeable
  <2> QED BY <2>1, SameView DEF AbsBuys, AbsSettled, AbsConfirmed
<1>4. CASE MarkPaid(r)
  <2>1. \A o \in p.orders : pay[o].fund # NoFund
    BY <1>4 DEF MarkPaid, At, IInv, ReqInv
  <2>2. /\ UNCHANGED <<tx, pay, late, outcome, plans>>
        /\ \A x \in Txns : order'[x] = IF x \in p.orders THEN "PAID" ELSE order[x]
    BY <1>4 DEF MarkPaid
  <2> QED BY <2>1, <2>2, SameView DEF AbsBuys, AbsSettled, AbsConfirmed
<1> QED BY <1>1, <1>2, <1>3, <1>4

LEMMA ContractMove ==
    ASSUME NEW t \in Txns,
           \/ Contract!Send(t) \/ Contract!Decide(t) \/ Contract!Grant(t)
           \/ Contract!Settle(t) \/ Contract!Confirm(t)
    PROVE  Contract!Next
BY DEF Contract!Next

\* Every step of the payment component is a step of the contract or a stutter.
LEMMA ContractStep == IInv /\ [Next]_vars => [Contract!Next]_(Contract!vars)
<1> SUFFICES ASSUME IInv, [Next]_vars
             PROVE  Contract!Next \/ UNCHANGED AbsVars
  BY SMTT(30), AbsIsContract
<1>1. ASSUME NEW r \in Requests, Arrive(r) \/ Continue(r) \/ Fail(r)
      PROVE  \/ UNCHANGED <<tx, pay, late, order, outcome, plans>>
             \/ DepositNewOrder(r) \/ DonateInsert(r) \/ DeleteFundPurge(r) \/ MarkPaid(r)
             \/ DepositInsert(r) \/ Subscribe(r) \/ Record(r) \/ SetOrder(r)
  BY <1>1 DEF Arrive, Continue, Fail, db, DepositStart, DonateStart, CreateFundStart,
     DeleteFundStart, Callback, DepositFindOrder, CreateFundInsert, DonateAdd,
     DeleteFundDrop, LookUp, CheckMember, ReadRole, WriteRole, ReadFund, AddAmount,
     CloseFund, DropPaidFund, Recheck, CollectOrders
<1>2. ASSUME NEW r \in Requests,
             DepositInsert(r) \/ Subscribe(r) \/ Record(r) \/ SetOrder(r)
      PROVE  Contract!Next \/ UNCHANGED AbsVars
  <2>1. req[r].txn \in Txns
    BY <1>2, CallbackFacts, DepositFacts
       DEF DepositInsert, Subscribe, Record, SetOrder, At, DepositSteps, CallbackSteps
  <2>2. PICK t \in Txns : t = req[r].txn
    BY <2>1
  <2> QED BY <1>2, <2>2, SendStep, GrantStep, SettleStep, ConfirmStep, ContractMove
<1>3. ASSUME NEW t \in Txns, Decide(t) PROVE Contract!Next
  BY <1>3, DecideStep, ContractMove
<1>4. (\E u \in Users : ChangeMembership(u)) \/ UNCHANGED vars
        => UNCHANGED <<tx, pay, late, order, outcome, plans>>
  BY DEF ChangeMembership, vars
<1>5. ASSUME NEW r \in Requests, Arrive(r) \/ Continue(r) \/ Fail(r)
      PROVE  Contract!Next \/ UNCHANGED AbsVars
  BY <1>1, <1>2, <1>5, UnseenStep, SameRows
<1> QED BY <1>3, <1>4, <1>5, SameRows DEF Next

\* The payment component, with its rows, its requests interrupted at every await
\* and its callbacks repeated, does what PaymentContract promises.
THEOREM Implements == Spec => ImplementsContract
BY ContractInit, ContractStep, Inductive, PTL DEF Spec, ImplementsContract, Contract!Spec

-----------------------------------------------------------------------------
(* The sum of a set of contributions *)

Total(rows, S) == SumFunction([t \in S |-> rows[t].amount])

LEMMA TotalNone ==
    ASSUME NEW rows
    PROVE  Total(rows, {}) = 0
<1>1. IsFiniteSet({})
    BY FS_EmptySet
<1>2. QED
    BY <1>1, SumStep DEF Total, SumFunction

LEMMA TotalNat ==
    ASSUME NEW rows, NEW S, IsFiniteSet(S), \A t \in S : rows[t].amount \in Nat
    PROVE  Total(rows, S) \in Nat
<1> DEFINE f == [t \in S |-> rows[t].amount]
<1>1. DOMAIN f = S /\ \A t \in S : f[t] \in Nat
    OBVIOUS
<1> HIDE DEF f
<1>2. SumFunctionOnSet(f, S) \in Nat
    BY <1>1, SumNat
<1>3. QED
    BY <1>1, <1>2 DEF Total, SumFunction, f

\* Any contribution may be taken first.
LEMMA TotalTake ==
    ASSUME NEW rows, NEW S, IsFiniteSet(S), \A t \in S : rows[t].amount \in Nat, NEW x \in S
    PROVE  Total(rows, S) = rows[x].amount + Total(rows, S \ {x})
<1> DEFINE f == [t \in S |-> rows[t].amount]
           g == [t \in S \ {x} |-> rows[t].amount]
<1>1. /\ DOMAIN f = S /\ \A t \in S : f[t] \in Nat
      /\ DOMAIN g = S \ {x} /\ \A t \in S \ {x} : f[t] = g[t]
      /\ f[x] = rows[x].amount
    OBVIOUS
<1>2. Total(rows, S) = SumFunctionOnSet(f, S) /\ Total(rows, S \ {x}) = SumFunctionOnSet(g, S \ {x})
    BY <1>1 DEF Total, SumFunction
<1> HIDE DEF f, g
<1>3. SumFunctionOnSet(f, S) = f[x] + SumFunctionOnSet(f, S \ {x})
    BY <1>1, SumTake
<1>4. SumFunctionOnSet(f, S \ {x}) = SumFunctionOnSet(g, S \ {x})
    BY <1>1, FS_Subset, SumSame
<1>5. QED
    BY <1>1, <1>2, <1>3, <1>4

\* Only the amounts of the contributions count.
LEMMA TotalSame ==
    ASSUME NEW rows, NEW other, NEW S, \A t \in S : rows[t].amount = other[t].amount
    PROVE  Total(rows, S) = Total(other, S)
<1>1. [t \in S |-> rows[t].amount] = [t \in S |-> other[t].amount]
    OBVIOUS
<1>2. QED
    BY <1>1 DEF Total

-----------------------------------------------------------------------------
(* The invariant *)

\* A deposit or a donation to a fund.
Gives(q) == q.pc \in {"findOrder", "newOrder", "insertTx", "giftInsert", "giftAdd"} /\ q.bill.fund # NoFund

\* A callback that has not yet recorded what it applies.
ApplySteps == {"member", "readRole", "writeRole", "subscribe", "readFund", "addAmount", "closeFund", "dropPaid"}
\* The same, once the payer has the role.
GrantedSteps == {"subscribe", "readFund", "addAmount", "closeFund", "dropPaid"}

\* A donation that is in the ledger and not yet in the amount of its fund.
Unadded(r, f) ==
    IF At(r, "giftAdd") /\ req[r].bill.fund = f THEN req[r].bill.amount ELSE 0

\* A callback has applied a payment and is about to record it.
Applies(r) == At(r, "record") /\ req[r].ok /\ ~AlreadyProcessed(req[r].txn)

\* A payment that is in the amount of its fund and not yet in the ledger.
Unrecorded(r, f) ==
    IF (req[r].pc \in {"closeFund", "dropPaid"} \/ (Applies(r) /\ Donating(req[r]))) /\ FundOf(r) = f
    THEN pay[req[r].txn].amount ELSE 0

\* The amount of an open fund, but for what the request in flight still owes.
LedgerInv(r, f) ==
    /\ IsFiniteSet(Donated(f))
    /\ fund[f].state = "open" =>
          fund[f].amount + Unadded(r, f) = Total(pay, Donated(f)) + Unrecorded(r, f)

\* A fund is completed once, is gone then, and its donations share an order.
FundInv(r, f) ==
    /\ fund[f].state = "none" => fund[f].amount = 0 /\ closed[f] = 0
    /\ fund[f].state # "open" /\ closed[f] = 0 => RowsOf(f) = {}
    /\ closed[f] <= 1
    /\ closed[f] = 1 => fund[f].state = "gone" \/ (At(r, "dropPaid") /\ FundOf(r) = f)
    /\ \A o, p \in OrdersOf(f) : o = p
    /\ \A o \in OrdersOf(f) : order[o] = "PAID" => closed[f] > 0 \/ ReachesTarget(fund[f].amount)

\* A plan is granted once, to a payment that is recorded or about to be.
CodeInv(r, t) ==
    /\ plans[t] <= 1
    /\ plans[t] = 1 => AlreadyProcessed(t) \/ (Applies(r) /\ req[r].txn = t /\ ~Donating(req[r]))
    /\ tx[t] = "SUCCESS" /\ pay[t].method = "VNPAY" =>
            (IF pay[t].fund = NoFund THEN "SPONSOR" ELSE "CONTRIBUTION") \in roles[pay[t].user]
    /\ pay[t].fund # NoFund /\ pay[t].order # NoTxn => pay[pay[t].order].fund = pay[t].fund

\* What a deposit, a donation and the deletion of a fund have read is still so.
GiftInv(r) ==
    LET q == req[r]
        f == q.bill.fund IN
    /\ Gives(q) => fund[f].state = "open"
    /\ Gives(q) /\ q.pc = "newOrder" => OrdersOf(f) = {}
    /\ Gives(q) /\ q.pc = "insertTx" =>
          \/ q.bill.order = q.txn /\ order[q.txn] = "PENDING" /\ OrdersOf(f) = {}
          \/ q.bill.order \in OrdersOf(f)
    /\ q.pc \in {"giftInsert", "giftAdd"} => q.next = fund[f].amount + q.bill.amount
    /\ q.pc = "giftAdd" => q.txn \in Txns /\ pay[q.txn] = q.bill /\ tx[q.txn] = "SUCCESS"
    /\ q.pc = "purge" => fund[f].state = "open" /\ fund[f].amount = 0 /\ \A t \in RowsOf(f) : tx[t] = "PENDING"
    /\ q.pc = "dropFund" => fund[f].state = "open" /\ RowsOf(f) = {}

\* What a callback has read and written is still so.
AnswerInv(r) ==
    LET q == req[r]
        t == q.txn
        f == FundOf(r) IN
    /\ q.pc \in ApplySteps => q.row = RowFound(t) /\ ~AlreadyProcessed(t)
    /\ q.pc = "record" => q.row = RowFound(t)
    /\ q.pc \in ApplySteps \cup {"received"} => ~q.reached
    /\ q.pc = "writeRole" => q.had = roles[Payer(r)]
    /\ q.pc \in GrantedSteps \/ Applies(r) => Granted(q) \in roles[Payer(r)]
    /\ q.pc \in {"addAmount", "closeFund", "dropPaid"} => fund[f].state = "open"
    /\ q.pc = "addAmount" => q.next = fund[f].amount + pay[t].amount
    /\ q.pc = "dropPaid" => closed[f] = 1
    /\ q.pc = "record" /\ Donating(q) /\ q.reached => closed[f] = 1
    /\ q.pc \in {"recheck", "collect", "markPaid"} => tx[t] = "SUCCESS"
    /\ q.pc \in {"collect", "markPaid"} => closed[f] > 0 \/ ReachesTarget(fund[f].amount)
    /\ q.pc = "markPaid" => \A o \in q.orders : pay[o].fund = f

SerialInv(r) ==
    /\ \A f \in Funds : FundInv(r, f) /\ LedgerInv(r, f)
    /\ \A t \in Txns : CodeInv(r, t)
    /\ GiftInv(r)
    /\ AnswerInv(r)

-----------------------------------------------------------------------------
(* The steps of the only request *)

Alone(r) == Requests = {r} /\ IInv /\ SerialInv(r)

LEMMA AloneType ==
    ASSUME NEW r, Alone(r)
    PROVE  /\ r \in Requests /\ TypeOK /\ req[r] \in Request /\ ReqInv(r)
           /\ \A f \in Funds : fund[f] \in FundRow /\ closed[f] \in Nat /\ f # NoFund
           /\ \A t \in Txns : pay[t] \in Bill /\ plans[t] \in Nat /\ RowInv(t)
<1>1. r \in Requests /\ IInv
    BY DEF Alone
<1>2. TypeOK /\ ReqInv(r) /\ \A t \in Txns : RowInv(t)
    BY <1>1 DEF IInv
<1>3. req[r] \in Request /\ \A f \in Funds : fund[f] \in FundRow /\ closed[f] \in Nat
    BY <1>1, <1>2 DEF TypeOK
<1>4. \A t \in Txns : pay[t] \in Bill /\ plans[t] \in Nat
    BY <1>2 DEF TypeOK
<1>5. QED
    BY <1>1, <1>2, <1>3, <1>4, FundsAssumption

LEMMA GotoFields ==
    ASSUME NEW r \in Requests, TypeOK, NEW step, Goto(r, step)
    PROVE  /\ req'[r].pc = step /\ req'[r].txn = req[r].txn /\ req'[r].bill = req[r].bill
           /\ req'[r].row = req[r].row /\ req'[r].ok = req[r].ok /\ req'[r].reached = req[r].reached
           /\ req'[r].next = req[r].next /\ req'[r].had = req[r].had /\ req'[r].orders = req[r].orders
    BY DEF Goto, Become, TypeOK, Request

LEMMA BecomeIs ==
    ASSUME NEW r \in Requests, TypeOK, NEW q, Become(r, q)
    PROVE  req'[r] = q
    BY DEF Become, TypeOK

\* What the request owes, and what it relies on, when it is done.
LEMMA FinishOwes ==
    ASSUME NEW r \in Requests, TypeOK, Finish(r)
    PROVE  /\ req'[r].pc = "idle" /\ ~Applies(r)' /\ GiftInv(r)' /\ AnswerInv(r)'
           /\ \A f : Unadded(r, f)' = 0 /\ Unrecorded(r, f)' = 0
<1>1. req'[r].pc = "idle"
    BY BecomeIs DEF Finish, IdleReq
<1>2. ~Applies(r)' /\ GiftInv(r)' /\ AnswerInv(r)'
    BY <1>1 DEF Applies, At, GiftInv, AnswerInv, Gives, ApplySteps, GrantedSteps
<1>3. ASSUME NEW f PROVE Unadded(r, f)' = 0 /\ Unrecorded(r, f)' = 0
    BY <1>1, <1>2 DEF Unadded, Unrecorded, At
<1>4. QED
    BY <1>1, <1>2, <1>3

\* Outside these statements a request owes nothing.
LEMMA OwesNothing ==
    ASSUME NEW r, req[r].pc \notin {"giftAdd", "closeFund", "dropPaid", "record"}
    PROVE  ~Applies(r) /\ \A f : Unadded(r, f) = 0 /\ Unrecorded(r, f) = 0
    BY DEF Applies, Unadded, Unrecorded, At

LEMMA SameFund ==
    ASSUME NEW r, NEW f, FundInv(r, f), ~At(r, "dropPaid"), fund'[f] = fund[f], closed'[f] = closed[f],
           RowsOf(f)' = RowsOf(f), OrdersOf(f)' = OrdersOf(f),
           \A o \in OrdersOf(f) : order'[o] = "PAID" => order[o] = "PAID"
    PROVE  FundInv(r, f)'
    BY DEF FundInv

LEMMA SameCode ==
    ASSUME NEW r, NEW t \in Txns, CodeInv(r, t), ~Applies(r), UNCHANGED <<tx, pay, late, roles, plans>>
    PROVE  CodeInv(r, t)'
<1>1. AlreadyProcessed(t)' = AlreadyProcessed(t)
    BY DEF AlreadyProcessed, RowFound, Exists
<1>2. QED
    BY <1>1 DEF CodeInv

LEMMA SameRowsOf ==
    ASSUME UNCHANGED <<tx, pay>>
    PROVE  \A f : RowsOf(f)' = RowsOf(f) /\ Donated(f)' = Donated(f) /\ OrdersOf(f)' = OrdersOf(f)
    BY DEF RowsOf, Donated, OrdersOf, Exists

\* A statement that only reads.
LEMMA ReadsOnly ==
    ASSUME NEW r, Alone(r), UNCHANGED <<fund, tx, pay, late, order, roles, plans, closed>>,
           req[r].pc \notin {"giftAdd", "closeFund", "dropPaid", "record"},
           \A f \in Funds : fund[f].state = "open" => Unadded(r, f)' = 0 /\ Unrecorded(r, f)' = 0,
           GiftInv(r)', AnswerInv(r)'
    PROVE  SerialInv(r)'
<1>1. ~Applies(r) /\ \A f : Unadded(r, f) = 0 /\ Unrecorded(r, f) = 0
    BY OwesNothing
<1>2. \A f \in Funds : FundInv(r, f)'
    BY SameFund, SameRowsOf DEF Alone, SerialInv, At
<1>3. \A f \in Funds : LedgerInv(r, f)'
    BY <1>1, SameRowsOf DEF Alone, SerialInv, LedgerInv
<1>4. \A t \in Txns : CodeInv(r, t)'
    BY <1>1, SameCode DEF Alone, SerialInv
<1>5. QED
    BY <1>2, <1>3, <1>4 DEF SerialInv

LEMMA AloneStarts ==
    ASSUME NEW r, Alone(r), Arrive(r)
    PROVE  SerialInv(r)'
<1>0. r \in Requests /\ TypeOK /\ \A f \in Funds : f # NoFund
    BY AloneType
<1>1. ASSUME NEW q, Start(r, q), UNCHANGED db, q.pc \in {"newOrder", "findOrder", "openFund", "giftInsert", "purge", "received"},
             Gives(q) => fund[q.bill.fund].state = "open" /\ q.pc # "newOrder",
             q.pc = "giftInsert" => q.next = fund[q.bill.fund].amount + q.bill.amount,
             q.pc = "purge" => fund[q.bill.fund].state = "open" /\ Deletable(q.bill.fund),
             ~q.reached
      PROVE  SerialInv(r)'
  <2>1. req'[r] = q /\ req[r].pc = "idle"
    BY <1>0, <1>1, BecomeIs DEF Start, At
  <2>2. UNCHANGED <<fund, tx, pay, late, order, roles, plans, closed>>
    BY <1>1 DEF db
  <2>3. \A f : Unadded(r, f)' = 0 /\ Unrecorded(r, f)' = 0
    BY <1>1, <2>1 DEF Unadded, Unrecorded, At, Applies
  <2>4. GiftInv(r)'
    BY <1>1, <2>1, <2>2 DEF GiftInv, Gives, Deletable, RowsOf, Exists
  <2>5. AnswerInv(r)'
    BY <1>1, <2>1, <2>2 DEF AnswerInv, ApplySteps, GrantedSteps, Applies, At
  <2>6. QED
    BY <2>1, <2>2, <2>3, <2>4, <2>5, ReadsOnly
<1>2. ASSUME NEW u \in Users, NEW f \in Funds \cup {NoFund}, NEW a \in Amounts, DepositStart(r, u, f, a)
      PROVE  SerialInv(r)'
  <2> DEFINE b == [NoBill EXCEPT !.user = u, !.fund = f, !.amount = a]
             step == IF f = NoFund THEN "newOrder" ELSE "findOrder"
  <2>1. PICK t \in Txns : Start(r, [IdleReq EXCEPT !.pc = step, !.txn = t, !.bill = b])
    BY <1>2 DEF DepositStart
  <2> DEFINE q == [IdleReq EXCEPT !.pc = step, !.txn = t, !.bill = b]
  <2>2. q.bill.fund = f /\ q.pc = step /\ ~q.reached
    BY DEF IdleReq, NoBill
  <2> HIDE DEF q
  <2>3. UNCHANGED db /\ (f # NoFund => fund[f].state = "open") /\ Start(r, q)
    BY <1>2, <2>1 DEF DepositStart, q
  <2>4. QED
    BY <1>1, <2>2, <2>3 DEF Gives
<1>3. ASSUME NEW u \in Users, NEW f \in Funds, NEW a \in Amounts, DonateStart(r, u, f, a)
      PROVE  SerialInv(r)'
  <2> DEFINE b == [NoBill EXCEPT !.method = "SHARE_FUND", !.user = u, !.fund = f, !.amount = a]
             n == fund[f].amount + a
  <2>1. PICK t \in Txns : Start(r, [IdleReq EXCEPT !.pc = "giftInsert", !.txn = t, !.bill = b, !.next = n])
    BY <1>3 DEF DonateStart
  <2> HIDE DEF n
  <2> DEFINE q == [IdleReq EXCEPT !.pc = "giftInsert", !.txn = t, !.bill = b, !.next = n]
  <2>2. q.bill.fund = f /\ q.bill.amount = a /\ q.pc = "giftInsert" /\ ~q.reached /\ q.next = n
    BY DEF IdleReq, NoBill
  <2> HIDE DEF q
  <2>3. UNCHANGED db /\ fund[f].state = "open" /\ Start(r, q)
    BY <1>3, <2>1 DEF DonateStart, q
  <2>4. q.next = fund[q.bill.fund].amount + q.bill.amount
    BY <2>2 DEF n
  <2>5. QED
    BY <1>1, <2>2, <2>3, <2>4 DEF Gives
<1>4. ASSUME CreateFundStart(r)
      PROVE  SerialInv(r)'
  <2> DEFINE q == [IdleReq EXCEPT !.pc = "openFund"]
  <2>1. q.pc = "openFund" /\ ~q.reached
    BY DEF IdleReq
  <2> HIDE DEF q
  <2>2. UNCHANGED db /\ Start(r, q)
    BY <1>4 DEF CreateFundStart, q
  <2>3. QED
    BY <1>1, <2>1, <2>2 DEF Gives
<1>5. ASSUME NEW f \in Funds, DeleteFundStart(r, f)
      PROVE  SerialInv(r)'
  <2> DEFINE q == [IdleReq EXCEPT !.pc = "purge", !.bill = [NoBill EXCEPT !.fund = f]]
  <2>1. q.pc = "purge" /\ q.bill.fund = f /\ ~q.reached
    BY DEF IdleReq, NoBill
  <2> HIDE DEF q
  <2>2. UNCHANGED db /\ Start(r, q) /\ fund[f].state = "open" /\ Deletable(f)
    BY <1>5 DEF DeleteFundStart, q
  <2>3. QED
    BY <1>1, <2>1, <2>2 DEF Gives
<1>6. ASSUME NEW t \in Txns, NEW verified \in BOOLEAN, NEW ok \in BOOLEAN, Callback(r, t, verified, ok)
      PROVE  SerialInv(r)'
  <2> DEFINE q == [IdleReq EXCEPT !.pc = "received", !.txn = t, !.verified = verified, !.ok = ok]
  <2>1. q.pc = "received" /\ ~q.reached
    BY DEF IdleReq
  <2> HIDE DEF q
  <2>2. UNCHANGED db /\ Start(r, q)
    BY <1>6 DEF Callback, q
  <2>3. QED
    BY <1>1, <2>1, <2>2 DEF Gives
<1>7. QED
    BY <1>2, <1>3, <1>4, <1>5, <1>6 DEF Arrive

LEMMA AloneFindOrder ==
    ASSUME NEW r, Alone(r), DepositFindOrder(r)
    PROVE  SerialInv(r)'
<1> DEFINE f == req[r].bill.fund
<1>0. /\ r \in Requests /\ TypeOK /\ req[r] \in Request /\ req[r].pc = "findOrder"
      /\ GiftInv(r) /\ f # NoFund
    BY AloneType DEF Alone, SerialInv, DepositFindOrder, At, ReqInv
<1>1. fund[f].state = "open"
    BY <1>0 DEF GiftInv, Gives
<1>2. UNCHANGED <<fund, tx, pay, late, order, roles, plans, closed>>
    BY DEF DepositFindOrder, db
<1>3. /\ req'[r].bill.fund = f
      /\ \/ req'[r].pc = "newOrder" /\ OrdersOf(f) = {}
         \/ req'[r].pc = "insertTx" /\ req'[r].bill.order \in OrdersOf(f)
  <2>1. CASE OrdersOf(f) = {} /\ Goto(r, "newOrder")
    BY <1>0, <2>1, GotoFields
  <2>2. CASE \E o \in OrdersOf(f) : Become(r, [req[r] EXCEPT !.pc = "insertTx", !.bill.order = o])
    <3>1. PICK o \in OrdersOf(f) : Become(r, [req[r] EXCEPT !.pc = "insertTx", !.bill.order = o])
      BY <2>2
    <3>2. req'[r] = [req[r] EXCEPT !.pc = "insertTx", !.bill.order = o]
      BY <1>0, <3>1, BecomeIs
    <3>3. QED
      BY <1>0, <3>2 DEF Request, Bill
  <2>3. QED
    BY <2>1, <2>2 DEF DepositFindOrder
<1>4. \A g : Unadded(r, g)' = 0 /\ Unrecorded(r, g)' = 0
    BY <1>3 DEF Unadded, Unrecorded, At, Applies
<1>5. PICK g : g = f
    OBVIOUS
<1>6. OrdersOf(g)' = OrdersOf(g)
    BY <1>2, SameRowsOf
<1>7. GiftInv(r)'
    BY <1>1, <1>2, <1>3, <1>5, <1>6 DEF GiftInv, Gives
<1>8. AnswerInv(r)'
    BY <1>3 DEF AnswerInv, ApplySteps, GrantedSteps, Applies, At
<1>9. QED
    BY SMTT(30), <1>0, <1>2, <1>4, <1>7, <1>8, ReadsOnly

\* A statement of a callback changes neither its payment nor the row it found.
LEMMA SamePayment ==
    ASSUME NEW r, req'[r].txn = req[r].txn, req'[r].row = req[r].row, pay' = pay
    PROVE  /\ FundOf(r)' = FundOf(r) /\ Payer(r)' = Payer(r)
           /\ Donating(req[r])' = Donating(req[r]) /\ Granted(req[r])' = Granted(req[r])
    BY DEF FundOf, Payer, Donating, Granted

LEMMA SameAnswers ==
    ASSUME UNCHANGED <<tx, late>>
    PROVE  \A t : RowFound(t)' = RowFound(t) /\ AlreadyProcessed(t)' = AlreadyProcessed(t)
    BY DEF RowFound, AlreadyProcessed, Exists

LEMMA AloneLookUp ==
    ASSUME NEW r, Alone(r), LookUp(r)
    PROVE  SerialInv(r)'
<1> DEFINE t == req[r].txn
           step == IF req[r].ok /\ ~AlreadyProcessed(t) THEN "member" ELSE "record"
<1>0. /\ r \in Requests /\ TypeOK /\ req[r] \in Request /\ req[r].pc = "received"
      /\ ~req[r].reached
    BY AloneType DEF Alone, SerialInv, LookUp, At, AnswerInv
<1>1. UNCHANGED <<fund, tx, pay, late, order, roles, plans, closed>>
    BY DEF LookUp, db
<1>2. CASE ~Trusted(req[r])
    BY <1>0, <1>1, <1>2, FinishOwes, ReadsOnly DEF LookUp
<1>3. CASE Trusted(req[r])
  <2>1. req'[r] = [req[r] EXCEPT !.row = RowFound(t), !.pc = step]
    BY <1>0, <1>3, BecomeIs DEF LookUp
  <2>2. /\ req'[r].pc = step /\ req'[r].txn = t /\ req'[r].row = RowFound(t)
        /\ req'[r].ok = req[r].ok /\ ~req'[r].reached
    BY <1>0, <2>1 DEF Request
  <2>3. PICK s : s = t
    OBVIOUS
  <2>4. RowFound(s)' = RowFound(s) /\ AlreadyProcessed(s)' = AlreadyProcessed(s)
    BY <1>1, SameAnswers
  <2> HIDE DEF t
  <2>5. ~Applies(r)' /\ req'[r].txn = s /\ req'[r].pc \in {"member", "record"}
    BY <2>2, <2>3, <2>4 DEF Applies, At
  <2>6. \A g : Unadded(r, g)' = 0 /\ Unrecorded(r, g)' = 0
    BY <2>5 DEF Unadded, Unrecorded, At
  <2>7. GiftInv(r)'
    BY <2>5 DEF GiftInv, Gives
  <2>8. AnswerInv(r)'
    BY <2>2, <2>3, <2>4, <2>5 DEF AnswerInv, ApplySteps, GrantedSteps
  <2>9. QED
    BY <1>0, <1>1, <2>6, <2>7, <2>8, ReadsOnly
<1>4. QED
    BY <1>2, <1>3

\* A callback that applies a payment.
LEMMA ApplyFacts ==
    ASSUME NEW r, Alone(r), req[r].pc \in CallbackSteps
    PROVE  /\ req[r].txn \in Txns /\ Payer(r) \in Users
           /\ pay[req[r].txn].amount \in Nat /\ pay[req[r].txn].method = "VNPAY"
           /\ req[r].pc \in ApplySteps => /\ req[r].row = RowFound(req[r].txn) /\ req[r].ok
                                         /\ ~AlreadyProcessed(req[r].txn) /\ ~req[r].reached
           /\ req[r].pc \in DonationSteps => Donating(req[r]) /\ FundOf(r) \in Funds
<1>1. r \in Requests /\ IInv /\ AnswerInv(r) /\ ReqInv(r)
    BY AloneType DEF Alone, SerialInv
<1>2. /\ req[r].txn \in Txns /\ Payer(r) \in Users
      /\ req[r].pc \in DonationSteps => FundOf(r) \in Funds
    BY <1>1, CallbackFacts
<1>3. pay[req[r].txn].amount \in Nat /\ pay[req[r].txn].method = "VNPAY"
    BY <1>1, <1>2, AloneType DEF Bill, ReqInv, RowInv
<1>4. req[r].pc \in DonationSteps => Donating(req[r])
    BY <1>1 DEF ReqInv
<1>5. req[r].pc \in ApplySteps => /\ req[r].row = RowFound(req[r].txn) /\ req[r].ok
                                  /\ ~AlreadyProcessed(req[r].txn) /\ ~req[r].reached
    BY <1>1 DEF AnswerInv, ReqInv, ApplySteps, CallbackSteps
<1>6. QED
    BY <1>2, <1>3, <1>4, <1>5

LEMMA AloneCheckMember ==
    ASSUME NEW r, Alone(r), CheckMember(r)
    PROVE  SerialInv(r)'
<1>0. /\ r \in Requests /\ TypeOK /\ req[r].pc = "member" /\ req[r].pc \in CallbackSteps \cap ApplySteps
    BY AloneType DEF CheckMember, At, CallbackSteps, ApplySteps
<1>1. UNCHANGED <<fund, tx, pay, late, order, roles, plans, closed>>
    BY DEF CheckMember, db
<1>2. CASE Finish(r)
    BY <1>0, <1>1, <1>2, FinishOwes, ReadsOnly
<1>3. CASE Goto(r, "readRole")
  <2>1. /\ req'[r].pc = "readRole" /\ req'[r].txn = req[r].txn /\ req'[r].row = req[r].row
        /\ req'[r].reached = req[r].reached
    BY <1>0, <1>3, GotoFields
  <2>2. \A g : Unadded(r, g)' = 0 /\ Unrecorded(r, g)' = 0
    BY <2>1 DEF Unadded, Unrecorded, At, Applies
  <2>3. GiftInv(r)'
    BY <2>1 DEF GiftInv, Gives
  <2>4. AnswerInv(r)'
    BY <1>0, <1>1, <2>1, ApplyFacts, SameAnswers DEF AnswerInv, ApplySteps, GrantedSteps, Applies, At
  <2>5. QED
    BY <1>0, <1>1, <2>2, <2>3, <2>4, ReadsOnly
<1>4. QED
    BY <1>2, <1>3 DEF CheckMember

LEMMA AloneReadRole ==
    ASSUME NEW r, Alone(r), ReadRole(r)
    PROVE  SerialInv(r)'
<1>0. /\ r \in Requests /\ TypeOK /\ req[r] \in Request /\ req[r].pc = "readRole"
      /\ req[r].pc \in CallbackSteps \cap ApplySteps
    BY AloneType DEF ReadRole, At, CallbackSteps, ApplySteps
<1>1. UNCHANGED <<fund, tx, pay, late, order, roles, plans, closed>>
    BY DEF ReadRole, db
<1>2. /\ req'[r].txn = req[r].txn /\ req'[r].row = req[r].row /\ req'[r].reached = req[r].reached
      /\ \/ req'[r].pc \in {"readFund", "subscribe"} /\ Granted(req[r]) \in roles[Payer(r)]
         \/ req'[r].pc = "writeRole" /\ req'[r].had = roles[Payer(r)]
  <2>1. CASE Granted(req[r]) \in roles[Payer(r)] /\ Goto(r, Apply(req[r]))
    <3>1. Apply(req[r]) \in {"readFund", "subscribe"}
      BY DEF Apply
    <3>2. QED
      BY <1>0, <2>1, <3>1, GotoFields
  <2>2. CASE Become(r, [req[r] EXCEPT !.pc = "writeRole", !.had = roles[Payer(r)]])
    BY ZenonT(40), <1>0, <2>2, BecomeIs DEF Request
  <2>3. QED
    BY <2>1, <2>2 DEF ReadRole
<1>3. \A g : Unadded(r, g)' = 0 /\ Unrecorded(r, g)' = 0
    BY <1>2 DEF Unadded, Unrecorded, At, Applies
<1>4. GiftInv(r)'
    BY <1>2 DEF GiftInv, Gives
<1>5. /\ Payer(r)' = Payer(r) /\ Granted(req[r])' = Granted(req[r])
      /\ RowFound(req[r].txn)' = RowFound(req[r].txn) /\ AlreadyProcessed(req[r].txn)' = AlreadyProcessed(req[r].txn)
  <2>1. PICK t : t = req[r].txn
    OBVIOUS
  <2>2. RowFound(t)' = RowFound(t) /\ AlreadyProcessed(t)' = AlreadyProcessed(t) /\ req'[r].txn = t
    BY <1>1, <1>2, <2>1, SameAnswers
  <2>3. QED
    BY <1>1, <1>2, <2>1, <2>2, SamePayment
<1>6. AnswerInv(r)'
    BY <1>0, <1>1, <1>2, <1>5, ApplyFacts DEF AnswerInv, ApplySteps, GrantedSteps, Applies, At
<1>7. QED
    BY <1>0, <1>1, <1>3, <1>4, <1>6, ReadsOnly

\* A fund with a row that is not open is completed.
LEMMA GoneIsClosed ==
    ASSUME NEW r, Alone(r), NEW t \in Txns, Exists(t), pay[t].fund \in Funds,
           fund[pay[t].fund].state # "open"
    PROVE  closed[pay[t].fund] = 1
<1>1. t \in RowsOf(pay[t].fund)
    BY DEF RowsOf
<1>2. FundInv(r, pay[t].fund) /\ closed[pay[t].fund] \in Nat
    BY AloneType DEF Alone, SerialInv
<1>3. QED
    BY <1>1, <1>2 DEF FundInv

LEMMA AloneReadFund ==
    ASSUME NEW r, Alone(r), ReadFund(r)
    PROVE  SerialInv(r)'
<1> DEFINE f == FundOf(r)
           t == req[r].txn
<1>0. /\ r \in Requests /\ TypeOK /\ req[r] \in Request /\ req[r].pc = "readFund"
      /\ req[r].pc \in CallbackSteps \cap ApplySteps \cap DonationSteps \cap GrantedSteps
    BY AloneType DEF ReadFund, At, CallbackSteps, ApplySteps, DonationSteps, GrantedSteps
<1>1. UNCHANGED <<fund, tx, pay, late, order, roles, plans, closed>>
    BY DEF ReadFund, db
<1>2. /\ t \in Txns /\ Donating(req[r]) /\ f \in Funds /\ req[r].row = RowFound(t)
      /\ ~AlreadyProcessed(t) /\ ~req[r].reached /\ Granted(req[r]) \in roles[Payer(r)]
    BY <1>0, ApplyFacts DEF Alone, SerialInv, AnswerInv
<1>3. Exists(t) /\ pay[t].fund = f
    BY <1>2 DEF Donating, RowFound, FundOf
<1>4. /\ req'[r].txn = req[r].txn /\ req'[r].row = req[r].row
      /\ \/ /\ req'[r].pc = "addAmount" /\ fund[f].state = "open" /\ ~req'[r].reached
            /\ req'[r].next = fund[f].amount + pay[t].amount
         \/ req'[r].pc = "record" /\ fund[f].state # "open"
  <2>1. CASE /\ fund[f].state = "open"
             /\ Become(r, [req[r] EXCEPT !.pc = "addAmount", !.next = fund[f].amount + pay[t].amount])
    BY ZenonT(40), <1>0, <1>2, <2>1, BecomeIs DEF Request
  <2>2. CASE fund[f].state # "open" /\ Become(r, [req[r] EXCEPT !.pc = "record", !.reached = TRUE])
    BY ZenonT(40), <1>0, <2>2, BecomeIs DEF Request
  <2>3. QED
    BY <2>1, <2>2 DEF ReadFund
<1>5. /\ FundOf(r)' = f /\ Payer(r)' = Payer(r) /\ Granted(req[r])' = Granted(req[r])
      /\ RowFound(req[r].txn)' = RowFound(req[r].txn) /\ AlreadyProcessed(req[r].txn)' = AlreadyProcessed(req[r].txn)
  <2>1. PICK s : s = req[r].txn
    OBVIOUS
  <2>2. RowFound(s)' = RowFound(s) /\ AlreadyProcessed(s)' = AlreadyProcessed(s) /\ req'[r].txn = s
    BY <1>1, <1>4, <2>1, SameAnswers
  <2>3. QED
    BY <1>1, <1>4, <2>1, <2>2, SamePayment
<1>6. fund[f].state # "open" => closed[f] = 1
    BY <1>2, <1>3, GoneIsClosed
<1>7. ASSUME NEW g \in Funds, fund[g].state = "open" PROVE Unadded(r, g)' = 0 /\ Unrecorded(r, g)' = 0
    BY <1>4, <1>5, <1>7 DEF Unadded, Unrecorded, At, Applies
<1>8. GiftInv(r)'
    BY <1>4 DEF GiftInv, Gives
<1>9. AnswerInv(r)'
  <2> HIDE DEF f
  <2>1. PICK g : g = f
    OBVIOUS
  <2>2. QED
    BY <1>1, <1>2, <1>4, <1>5, <1>6, <2>1 DEF AnswerInv, ApplySteps, GrantedSteps
<1>10. QED
    BY <1>0, <1>1, <1>7, <1>8, <1>9, ReadsOnly

LEMMA AloneRecheck ==
    ASSUME NEW r, Alone(r), Recheck(r)
    PROVE  SerialInv(r)'
<1> DEFINE f == FundOf(r)
           t == req[r].txn
<1>0. /\ r \in Requests /\ TypeOK /\ req[r].pc = "recheck"
      /\ req[r].pc \in CallbackSteps \cap DonationSteps
    BY AloneType DEF Recheck, At, CallbackSteps, DonationSteps
<1>1. UNCHANGED <<fund, tx, pay, late, order, roles, plans, closed>>
    BY DEF Recheck, db
<1>2. t \in Txns /\ f \in Funds /\ tx[t] = "SUCCESS"
    BY <1>0, ApplyFacts DEF Alone, SerialInv, AnswerInv
<1>3. CASE Finish(r)
    BY <1>0, <1>1, <1>3, FinishOwes, ReadsOnly
<1>4. CASE ~(fund[f].state = "open" /\ ~ReachesTarget(fund[f].amount)) /\ Goto(r, "collect")
  <2>1. /\ req'[r].pc = "collect" /\ req'[r].txn = t /\ req'[r].row = req[r].row
    BY <1>0, <1>4, GotoFields
  <2>2. \A g : Unadded(r, g)' = 0 /\ Unrecorded(r, g)' = 0
    BY <2>1 DEF Unadded, Unrecorded, At, Applies
  <2>3. GiftInv(r)'
    BY <2>1 DEF GiftInv, Gives
  <2>4. Exists(t) /\ pay[t].fund = f
    BY <1>2 DEF Exists, RowStatus, FundOf
  <2>5. closed[f] > 0 \/ ReachesTarget(fund[f].amount)
    BY <1>2, <1>4, <2>4, GoneIsClosed
  <2>6. PICK g, s : g = f /\ s = t
    OBVIOUS
  <2>7. FundOf(r)' = g /\ req'[r].txn = s
    BY <1>1, <2>1, <2>6, SamePayment
  <2> HIDE DEF f, t
  <2>8. (closed[g] > 0 \/ ReachesTarget(fund[g].amount))' /\ tx'[s] = "SUCCESS"
    BY <1>1, <1>2, <2>5, <2>6
  <2>9. AnswerInv(r)'
    BY <2>1, <2>7, <2>8 DEF AnswerInv, ApplySteps, GrantedSteps, Applies, At
  <2>10. QED
    BY <1>0, <1>1, <2>2, <2>3, <2>9, ReadsOnly
<1>5. QED
    BY <1>3, <1>4 DEF Recheck

\* The order of a contribution to f was made for f.
LEMMA OrderIsOfFund ==
    ASSUME NEW r, Alone(r), NEW t \in Txns, pay[t].fund \in Funds, pay[t].order # NoTxn
    PROVE  pay[pay[t].order].fund = pay[t].fund
    BY AloneType DEF Alone, SerialInv, CodeInv

LEMMA AloneCollect ==
    ASSUME NEW r, Alone(r), CollectOrders(r)
    PROVE  SerialInv(r)'
<1> DEFINE f == FundOf(r)
           t == req[r].txn
           os == IF PaidOrders(f) # {} THEN PaidOrders(f) ELSE {OrderOf(req[r])}
<1>0. /\ r \in Requests /\ TypeOK /\ IInv /\ req[r] \in Request /\ req[r].pc = "collect"
      /\ req[r].pc \in CallbackSteps \cap DonationSteps
    BY AloneType DEF CollectOrders, At, CallbackSteps, DonationSteps, Alone
<1>1. UNCHANGED <<fund, tx, pay, late, order, roles, plans, closed>>
    BY DEF CollectOrders, db
<1>2. /\ t \in Txns /\ f \in Funds /\ tx[t] = "SUCCESS" /\ Donating(req[r])
      /\ closed[f] > 0 \/ ReachesTarget(fund[f].amount)
    BY <1>0, ApplyFacts DEF Alone, SerialInv, AnswerInv
<1>3. \A o \in os : pay[o].fund = f
  <2>1. ASSUME NEW o \in PaidOrders(f) PROVE pay[o].fund = f
    BY <1>2, OrderIsOfFund DEF PaidOrders, Donated, RowsOf
  <2>2. pay[OrderOf(req[r])].fund = f
    <3>1. OrderOf(req[r]) = pay[t].order /\ OrderOf(req[r]) \in Txns
      BY <1>0, <1>2, CallbackFacts DEF OrderOf, Donating
    <3>2. QED
      BY <1>2, <3>1, OrderIsOfFund, TxnsAssumption DEF FundOf
  <2>3. QED
    BY <2>1, <2>2
<1>4. req'[r] = [req[r] EXCEPT !.pc = "markPaid", !.orders = os]
    BY <1>0, BecomeIs DEF CollectOrders
<1> HIDE DEF os
<1>5. req'[r].pc = "markPaid" /\ req'[r].orders = os /\ req'[r].txn = t /\ req'[r].row = req[r].row
    BY <1>0, <1>4 DEF Request
<1>6. \A g : Unadded(r, g)' = 0 /\ Unrecorded(r, g)' = 0
    BY <1>5 DEF Unadded, Unrecorded, At, Applies
<1>7. GiftInv(r)'
    BY <1>5 DEF GiftInv, Gives
<1>8. PICK g, s : g = f /\ s = t
    OBVIOUS
<1>9. FundOf(r)' = g /\ req'[r].txn = s
    BY <1>1, <1>5, <1>8, SamePayment
<1> HIDE DEF f, t
<1>10. (closed[g] > 0 \/ ReachesTarget(fund[g].amount))' /\ tx'[s] = "SUCCESS"
    BY <1>1, <1>2, <1>8
<1>11. \A o \in os : pay'[o].fund = g
    BY <1>1, <1>3, <1>8
<1>12. AnswerInv(r)'
    BY <1>5, <1>9, <1>10, <1>11 DEF AnswerInv, ApplySteps, GrantedSteps, Applies, At
<1>13. QED
    BY <1>0, <1>1, <1>6, <1>7, <1>12, ReadsOnly

\* A statement that changes orders only.
LEMMA SameButOrders ==
    ASSUME NEW r, Alone(r), UNCHANGED <<fund, tx, pay, late, roles, plans, closed>>,
           req[r].pc \notin {"giftAdd", "closeFund", "dropPaid", "record"},
           \A f \in Funds : Unadded(r, f)' = 0 /\ Unrecorded(r, f)' = 0,
           \A f \in Funds : \A o \in OrdersOf(f) :
                order'[o] = "PAID" => order[o] = "PAID" \/ closed[f] > 0 \/ ReachesTarget(fund[f].amount),
           GiftInv(r)', AnswerInv(r)'
    PROVE  SerialInv(r)'
<1>1. ~Applies(r) /\ \A f : Unadded(r, f) = 0 /\ Unrecorded(r, f) = 0
    BY OwesNothing
<1>2. ASSUME NEW f \in Funds PROVE FundInv(r, f)'
  <2>1. FundInv(r, f) /\ RowsOf(f)' = RowsOf(f) /\ OrdersOf(f)' = OrdersOf(f)
    BY SameRowsOf DEF Alone, SerialInv
  <2>2. \A o \in OrdersOf(f) : order'[o] = "PAID" => closed[f] > 0 \/ ReachesTarget(fund[f].amount)
    BY <2>1 DEF FundInv
  <2>3. QED
    BY <2>1, <2>2 DEF FundInv, At
<1>3. \A f \in Funds : LedgerInv(r, f)'
    BY <1>1, SameRowsOf DEF Alone, SerialInv, LedgerInv
<1>4. \A t \in Txns : CodeInv(r, t)'
    BY <1>1, SameCode DEF Alone, SerialInv
<1>5. QED
    BY <1>2, <1>3, <1>4 DEF SerialInv

LEMMA AloneNewOrder ==
    ASSUME NEW r, Alone(r), DepositNewOrder(r)
    PROVE  SerialInv(r)'
<1> DEFINE f == req[r].bill.fund
           t == req[r].txn
<1>0. /\ r \in Requests /\ TypeOK /\ req[r] \in Request /\ req[r].pc = "newOrder" /\ GiftInv(r)
      /\ t \in Txns
    BY AloneType DEF DepositNewOrder, At, Alone, SerialInv, ReqInv, DepositSteps
<1>1. /\ UNCHANGED <<fund, tx, pay, late, roles, plans, closed>>
      /\ order' = [order EXCEPT ![t] = "PENDING"]
      /\ req'[r] = [req[r] EXCEPT !.pc = "insertTx", !.bill.order = t]
    BY <1>0, BecomeIs DEF DepositNewOrder
<1>2. /\ req'[r].pc = "insertTx" /\ req'[r].bill.fund = f /\ req'[r].bill.order = t /\ req'[r].txn = t
    BY <1>0, <1>1 DEF Request, Bill
<1>3. order'[t] = "PENDING" /\ \A o : o # t => order'[o] = order[o]
    BY <1>0, <1>1 DEF TypeOK
<1>4. \A g : Unadded(r, g)' = 0 /\ Unrecorded(r, g)' = 0
    BY <1>2 DEF Unadded, Unrecorded, At, Applies
<1>5. f # NoFund => fund[f].state = "open" /\ OrdersOf(f) = {}
    BY <1>0 DEF GiftInv, Gives
<1>6. PICK g, s : g = f /\ s = t
    OBVIOUS
<1>7. OrdersOf(g)' = OrdersOf(g)
    BY <1>1, SameRowsOf
<1>8. GiftInv(r)'
    BY <1>1, <1>2, <1>3, <1>5, <1>6, <1>7 DEF GiftInv, Gives
<1>9. AnswerInv(r)'
    BY <1>2 DEF AnswerInv, ApplySteps, GrantedSteps, Applies, At
<1>10. QED
    BY <1>0, <1>1, <1>3, <1>4, <1>8, <1>9, SameButOrders

\* The order of a contribution belongs to its fund only.
LEMMA OrderFund ==
    ASSUME NEW r, Alone(r), NEW f \in Funds, NEW o \in OrdersOf(f)
    PROVE  pay[o].fund = f
    BY OrderIsOfFund DEF OrdersOf, RowsOf

LEMMA AloneSetOrder ==
    ASSUME NEW r, Alone(r), SetOrder(r)
    PROVE  SerialInv(r)'
<1> DEFINE t == req[r].txn
<1>0. /\ r \in Requests /\ TypeOK /\ req[r].pc = "setOrder" /\ pay[t].fund = NoFund /\ OrderOf(req[r]) = t
    BY AloneType DEF SetOrder, At, ReqInv
<1>1. /\ UNCHANGED <<fund, tx, pay, late, roles, plans, closed>> /\ Finish(r)
      /\ order' = [order EXCEPT ![t] = IF req[r].ok THEN "PAID" ELSE "FAILED"]
    BY <1>0 DEF SetOrder
<1>2. \A o : o # t => order'[o] = order[o]
    BY <1>0, <1>1 DEF TypeOK
<1>3. \A f \in Funds : t \notin OrdersOf(f)
    BY <1>0, OrderFund, AloneType
<1>4. QED
    BY <1>0, <1>1, <1>2, <1>3, FinishOwes, SameButOrders

LEMMA AloneMarkPaid ==
    ASSUME NEW r, Alone(r), MarkPaid(r)
    PROVE  SerialInv(r)'
<1> DEFINE f == FundOf(r)
<1>0. /\ r \in Requests /\ TypeOK /\ req[r].pc = "markPaid" /\ AnswerInv(r)
    BY AloneType DEF MarkPaid, At, Alone, SerialInv
<1>1. (closed[f] > 0 \/ ReachesTarget(fund[f].amount)) /\ \A o \in req[r].orders : pay[o].fund = f
    BY <1>0 DEF AnswerInv
<1>2. /\ UNCHANGED <<fund, tx, pay, late, roles, plans, closed>> /\ Finish(r)
      /\ order' = [o \in Txns |-> IF o \in req[r].orders THEN "PAID" ELSE order[o]]
    BY DEF MarkPaid
<1>3. ASSUME NEW g \in Funds, NEW o \in OrdersOf(g), order'[o] = "PAID"
      PROVE  order[o] = "PAID" \/ closed[g] > 0 \/ ReachesTarget(fund[g].amount)
  <2>1. o \in Txns
    BY AloneType DEF OrdersOf, RowsOf, Bill
  <2>2. CASE o \in req[r].orders
    BY <1>1, <2>2, OrderFund
  <2>3. CASE o \notin req[r].orders
    BY <1>2, <1>3, <2>1, <2>3
  <2>4. QED
    BY <2>2, <2>3
<1>4. QED
    BY <1>0, <1>2, <1>3, FinishOwes, SameButOrders

-----------------------------------------------------------------------------
(* The steps that write transaction rows *)

\* A code that no row has is not known to any other.
LEMMA UnusedCode ==
    ASSUME NEW r, Alone(r), NEW t \in Txns, tx[t] = "unused"
    PROVE  /\ pay[t].fund = NoFund /\ late[t] = "absent" /\ ~AlreadyProcessed(t) /\ ~Exists(t)
           /\ \A s \in Txns : pay[s].fund # NoFund => pay[s].order # t
<1>1. RowInv(t) /\ TypeOK
    BY AloneType
<1>2. pay[t].fund = NoFund /\ outcome[t] = "unsent" /\ late[t] = "absent"
    BY <1>1 DEF RowInv, NoBill, TypeOK
<1>3. ~AlreadyProcessed(t) /\ ~Exists(t)
    BY <1>2 DEF AlreadyProcessed, RowFound, Exists, RowStatus
<1>4. ASSUME NEW s \in Txns, pay[s].fund # NoFund PROVE pay[s].order # t
  <2>1. pay[s].order = t => pay[t].fund = pay[s].fund
    BY <1>4, TxnsAssumption DEF Alone, SerialInv, CodeInv
  <2>2. QED
    BY <1>2, <1>4, <2>1
<1>5. QED
    BY <1>2, <1>3, <1>4

Inserts(t, status, b) == tx' = [tx EXCEPT ![t] = status] /\ pay' = [pay EXCEPT ![t] = b]

\* A row is inserted: what becomes of the sets of rows and of the other codes.
LEMMA RowInserted ==
    ASSUME NEW r, Alone(r), NEW t \in Txns, tx[t] = "unused", NEW status \in {"PENDING", "SUCCESS"}, NEW b,
           Inserts(t, status, b)
    PROVE  /\ tx'[t] = status /\ pay'[t] = b
           /\ \A s \in Txns \ {t} : tx'[s] = tx[s] /\ pay'[s] = pay[s]
           /\ \A f \in Funds :
                /\ t \notin RowsOf(f)
                /\ RowsOf(f)' = IF b.fund = f THEN RowsOf(f) \cup {t} ELSE RowsOf(f)
                /\ Donated(f)' = IF b.fund = f /\ status = "SUCCESS" THEN Donated(f) \cup {t} ELSE Donated(f)
                /\ OrdersOf(f)' = IF b.fund = f THEN OrdersOf(f) \cup ({b.order} \ {NoTxn}) ELSE OrdersOf(f)
<1>1. tx \in [Txns -> {"unused", "deleted"} \cup RowStatus] /\ pay \in [Txns -> Bill]
    BY AloneType DEF TypeOK
<1>2. tx'[t] = status /\ pay'[t] = b /\ \A s \in Txns \ {t} : tx'[s] = tx[s] /\ pay'[s] = pay[s]
    BY <1>1 DEF Inserts
<1>3. ASSUME NEW f \in Funds
      PROVE  /\ t \notin RowsOf(f)
             /\ RowsOf(f)' = IF b.fund = f THEN RowsOf(f) \cup {t} ELSE RowsOf(f)
    BY <1>2 DEF RowsOf, Exists, RowStatus
<1>4. ASSUME NEW f \in Funds
      PROVE  Donated(f)' = IF b.fund = f /\ status = "SUCCESS" THEN Donated(f) \cup {t} ELSE Donated(f)
  <2>1. \A s \in RowsOf(f) : s \in Txns \ {t}
    BY <1>3 DEF RowsOf
  <2>2. Donated(f)' = {s \in RowsOf(f)' : tx'[s] = "SUCCESS"} /\ Donated(f) = {s \in RowsOf(f) : tx[s] = "SUCCESS"}
    BY DEF Donated
  <2>3. QED
    BY <1>2, <1>3, <2>1, <2>2
<1>5. ASSUME NEW f \in Funds
      PROVE  OrdersOf(f)' = IF b.fund = f THEN OrdersOf(f) \cup ({b.order} \ {NoTxn}) ELSE OrdersOf(f)
  <2>1. \A s \in RowsOf(f) : s \in Txns \ {t} /\ pay'[s] = pay[s]
    BY <1>2, <1>3 DEF RowsOf
  <2>2. OrdersOf(f)' = {pay'[s].order : s \in RowsOf(f)'} \ {NoTxn} /\ OrdersOf(f) = {pay[s].order : s \in RowsOf(f)} \ {NoTxn}
    BY DEF OrdersOf
  <2>3. QED
    BY <1>2, <1>3, <2>1, <2>2
<1>6. QED
    BY <1>2, <1>3, <1>4, <1>5

\* The other codes, and the one inserted, with an order made for its fund.
LEMMA CodesInserted ==
    ASSUME NEW r, Alone(r), NEW t \in Txns, tx[t] = "unused", NEW status \in {"PENDING", "SUCCESS"}, NEW b,
           Inserts(t, status, b),
           UNCHANGED <<late, roles, plans>>, ~Applies(r),
           b.method = "VNPAY" => status = "PENDING",
           b.fund # NoFund /\ b.order # NoTxn =>
                b.order = t \/ (b.order \in Txns /\ b.order # t /\ pay[b.order].fund = b.fund)
    PROVE  \A s \in Txns : CodeInv(r, s)'
<1>1. /\ tx'[t] = status /\ pay'[t] = b
      /\ \A s \in Txns \ {t} : tx'[s] = tx[s] /\ pay'[s] = pay[s]
    BY RowInserted
<1>2. \A s \in Txns : CodeInv(r, s) /\ plans[s] \in Nat /\ (plans[s] = 1 => AlreadyProcessed(s))
    BY AloneType DEF Alone, SerialInv, CodeInv
<1>3. ASSUME NEW s \in Txns, s # t PROVE CodeInv(r, s)'
  <2>1. AlreadyProcessed(s)' = AlreadyProcessed(s)
    BY <1>1, <1>3 DEF AlreadyProcessed, RowFound, Exists
  <2>2. pay'[s].fund # NoFund /\ pay'[s].order # NoTxn => pay'[pay'[s].order].fund = pay'[s].fund
    <3>1. pay'[s] = pay[s]
      BY <1>1, <1>3
    <3>2. pay[s].fund # NoFund => pay[s].order # t
      BY UnusedCode
    <3>3. pay[s].order \in Txns \cup {NoTxn}
      BY AloneType DEF Bill
    <3>4. QED
      BY <1>1, <1>2, <3>1, <3>2, <3>3 DEF CodeInv
  <2>3. QED
    BY <1>1, <1>2, <1>3, <2>1, <2>2 DEF CodeInv
<1>4. CodeInv(r, t)'
  <2>1. plans'[t] = 0
    BY <1>2, UnusedCode DEF CodeInv
  <2>2. b.fund # NoFund /\ b.order # NoTxn => pay'[b.order].fund = b.fund
    BY <1>1
  <2>3. QED
    BY <1>1, <2>1, <2>2 DEF CodeInv
<1>5. QED
    BY <1>3, <1>4

LEMMA AloneInsert ==
    ASSUME NEW r, Alone(r), DepositInsert(r)
    PROVE  SerialInv(r)'
<1> DEFINE t == req[r].txn
           b == req[r].bill
           f == b.fund
<1>0. /\ r \in Requests /\ TypeOK /\ req[r] \in Request /\ req[r].pc = "insertTx" /\ GiftInv(r)
      /\ t \in Txns /\ tx[t] = "unused" /\ b.method = "VNPAY" /\ b \in Bill
      /\ b.order # NoTxn
    BY AloneType DEF DepositInsert, At, Alone, SerialInv, ReqInv, DepositSteps, Request
<1>1. /\ tx' = [tx EXCEPT ![t] = "PENDING"] /\ pay' = [pay EXCEPT ![t] = b] /\ Finish(r)
      /\ UNCHANGED <<fund, late, order, roles, plans, closed>>
    BY DEF DepositInsert
<1>2. /\ GiftInv(r)' /\ AnswerInv(r)' /\ ~Applies(r) /\ ~At(r, "dropPaid") /\ ~At(r, "dropPaid")'
      /\ \A g : Unadded(r, g)' = 0 /\ Unrecorded(r, g)' = 0 /\ Unadded(r, g) = 0 /\ Unrecorded(r, g) = 0
    BY <1>0, <1>1, FinishOwes, OwesNothing DEF At
<1>3. /\ tx'[t] = "PENDING" /\ pay'[t] = b
      /\ \A s \in Txns \ {t} : tx'[s] = tx[s] /\ pay'[s] = pay[s]
      /\ \A g \in Funds :
            /\ t \notin RowsOf(g)
            /\ RowsOf(g)' = IF f = g THEN RowsOf(g) \cup {t} ELSE RowsOf(g)
            /\ Donated(g)' = Donated(g)
            /\ OrdersOf(g)' = IF f = g THEN OrdersOf(g) \cup ({b.order} \ {NoTxn}) ELSE OrdersOf(g)
  <2> HIDE DEF t, b
  <2>1. tx[t] = "unused" /\ t \in Txns /\ tx' = [tx EXCEPT ![t] = "PENDING"] /\ pay' = [pay EXCEPT ![t] = b]
    BY <1>0, <1>1
  <2>2. PICK u, c, status : u = t /\ c = b /\ status = "PENDING"
    OBVIOUS
  <2>3. tx[u] = "unused" /\ u \in Txns /\ status \in {"PENDING", "SUCCESS"} /\ Inserts(u, status, c)
    BY <2>1, <2>2 DEF Inserts
  <2>4. /\ tx'[u] = status /\ pay'[u] = c
        /\ \A s \in Txns \ {u} : tx'[s] = tx[s] /\ pay'[s] = pay[s]
        /\ \A g \in Funds :
             /\ u \notin RowsOf(g)
             /\ RowsOf(g)' = IF c.fund = g THEN RowsOf(g) \cup {u} ELSE RowsOf(g)
             /\ Donated(g)' = IF c.fund = g /\ status = "SUCCESS" THEN Donated(g) \cup {u} ELSE Donated(g)
             /\ OrdersOf(g)' = IF c.fund = g THEN OrdersOf(g) \cup ({c.order} \ {NoTxn}) ELSE OrdersOf(g)
    BY <2>3, RowInserted
  <2>5. QED
    BY <1>0, <2>2, <2>4
<1>4. f # NoFund => /\ fund[f].state = "open"
                    /\ \/ b.order = t /\ order[t] = "PENDING" /\ OrdersOf(f) = {}
                       \/ b.order \in OrdersOf(f)
    BY <1>0 DEF GiftInv, Gives
<1>5. f # NoFund => b.order = t \/ (b.order \in Txns /\ b.order # t /\ pay[b.order].fund = f)
    BY <1>0, <1>4, OrderFund DEF Bill
<1> HIDE DEF t, b, f
<1>6. ASSUME NEW g \in Funds PROVE FundInv(r, g)'
  <2>1. FundInv(r, g) /\ g # NoFund
    BY AloneType DEF Alone, SerialInv
  <2>2. CASE f # g
    BY <1>1, <1>2, <1>3, <2>1, <2>2, SameFund
  <2>3. CASE f = g
    <3>1. fund[g].state = "open" /\ OrdersOf(g)' = OrdersOf(g) \cup {b.order}
      BY <1>0, <1>3, <1>4, <2>1, <2>3
    <3>2. \A o, p \in OrdersOf(g)' : o = p
      BY <1>4, <2>1, <2>3, <3>1 DEF FundInv
    <3>3. \A o \in OrdersOf(g)' : order[o] = "PAID" => closed[g] > 0 \/ ReachesTarget(fund[g].amount)
      BY <1>4, <2>1, <2>3, <3>1 DEF FundInv
    <3>4. QED
      BY <1>1, <1>2, <2>1, <3>1, <3>2, <3>3 DEF FundInv
  <2>4. QED
    BY <2>2, <2>3
<1>7. ASSUME NEW g \in Funds PROVE LedgerInv(r, g)'
  <2>1. LedgerInv(r, g) /\ Donated(g)' = Donated(g) /\ IsFiniteSet(Donated(g))
    BY <1>3 DEF Alone, SerialInv, LedgerInv
  <2>2. \A s \in Donated(g) : pay[s].amount = pay'[s].amount
    BY <1>3 DEF Donated, RowsOf
  <2>3. Total(pay, Donated(g)) = Total(pay', Donated(g))
    BY <2>1, <2>2, TotalSame
  <2>4. QED
    BY <1>1, <1>2, <2>1, <2>3 DEF LedgerInv
<1>8. \A s \in Txns : CodeInv(r, s)'
    BY <1>0, <1>1, <1>2, <1>5, CodesInserted DEF f, Inserts
<1>9. QED
    BY <1>2, <1>6, <1>7, <1>8 DEF SerialInv

LEMMA AloneGiftInsert ==
    ASSUME NEW r, Alone(r), DonateInsert(r)
    PROVE  SerialInv(r)'
<1> DEFINE t == req[r].txn
           b == req[r].bill
           f == b.fund
<1>0. /\ r \in Requests /\ TypeOK /\ req[r] \in Request /\ req[r].pc = "giftInsert" /\ GiftInv(r)
      /\ t \in Txns /\ tx[t] = "unused" /\ b.method = "SHARE_FUND" /\ b \in Bill
      /\ b.order = NoTxn /\ f # NoFund
    BY AloneType DEF DonateInsert, At, Alone, SerialInv, ReqInv, DepositSteps, Request
<1>1. /\ tx' = [tx EXCEPT ![t] = "SUCCESS"] /\ pay' = [pay EXCEPT ![t] = b] /\ Goto(r, "giftAdd")
      /\ UNCHANGED <<fund, late, order, roles, plans, closed>>
    BY DEF DonateInsert
<1>2. /\ tx'[t] = "SUCCESS" /\ pay'[t] = b
      /\ \A s \in Txns \ {t} : tx'[s] = tx[s] /\ pay'[s] = pay[s]
      /\ \A g \in Funds :
            /\ t \notin RowsOf(g)
            /\ RowsOf(g)' = IF f = g THEN RowsOf(g) \cup {t} ELSE RowsOf(g)
            /\ Donated(g)' = IF f = g THEN Donated(g) \cup {t} ELSE Donated(g)
            /\ OrdersOf(g)' = OrdersOf(g)
  <2> HIDE DEF t, b
  <2>1. tx[t] = "unused" /\ t \in Txns /\ tx' = [tx EXCEPT ![t] = "SUCCESS"] /\ pay' = [pay EXCEPT ![t] = b]
    BY <1>0, <1>1
  <2>2. PICK u, c, status : u = t /\ c = b /\ status = "SUCCESS"
    OBVIOUS
  <2>3. tx[u] = "unused" /\ u \in Txns /\ status \in {"PENDING", "SUCCESS"} /\ Inserts(u, status, c)
    BY <2>1, <2>2 DEF Inserts
  <2>4. /\ tx'[u] = status /\ pay'[u] = c
        /\ \A s \in Txns \ {u} : tx'[s] = tx[s] /\ pay'[s] = pay[s]
        /\ \A g \in Funds :
             /\ u \notin RowsOf(g)
             /\ RowsOf(g)' = IF c.fund = g THEN RowsOf(g) \cup {u} ELSE RowsOf(g)
             /\ Donated(g)' = IF c.fund = g /\ status = "SUCCESS" THEN Donated(g) \cup {u} ELSE Donated(g)
             /\ OrdersOf(g)' = IF c.fund = g THEN OrdersOf(g) \cup ({c.order} \ {NoTxn}) ELSE OrdersOf(g)
    BY <2>3, RowInserted
  <2>5. QED
    BY <1>0, <2>2, <2>4
<1>3. fund[f].state = "open" /\ req[r].next = fund[f].amount + b.amount /\ f \in Funds /\ b.amount \in Nat
    BY <1>0 DEF GiftInv, Gives, Bill
<1>4. req'[r].pc = "giftAdd" /\ req'[r].txn = t /\ req'[r].bill = b /\ req'[r].next = req[r].next
    BY <1>0, <1>1, GotoFields
<1>5. ~Applies(r) /\ ~At(r, "dropPaid") /\ ~At(r, "dropPaid")' /\ \A g : Unadded(r, g) = 0 /\ Unrecorded(r, g) = 0
    BY <1>0, <1>4, OwesNothing DEF At
<1> HIDE DEF t, b, f
<1>6. \A g : Unrecorded(r, g)' = 0 /\ Unadded(r, g)' = IF b.fund = g THEN b.amount ELSE 0
    BY <1>4 DEF Unadded, Unrecorded, At, Applies
<1>7. GiftInv(r)'
    BY <1>0, <1>1, <1>2, <1>3, <1>4 DEF GiftInv, Gives, f
<1>8. AnswerInv(r)'
    BY <1>4 DEF AnswerInv, ApplySteps, GrantedSteps, Applies, At
<1>9. ASSUME NEW g \in Funds PROVE FundInv(r, g)'
  <2>1. FundInv(r, g)
    BY DEF Alone, SerialInv
  <2>2. CASE f # g
    BY <1>1, <1>2, <1>5, <2>1, <2>2, SameFund
  <2>3. CASE f = g
    BY <1>1, <1>2, <1>3, <1>5, <2>1, <2>3 DEF FundInv
  <2>4. QED
    BY <2>2, <2>3
<1>10. ASSUME NEW g \in Funds PROVE LedgerInv(r, g)'
  <2>1. LedgerInv(r, g) /\ IsFiniteSet(Donated(g)) /\ t \notin Donated(g)
    BY <1>2 DEF Alone, SerialInv, LedgerInv, Donated
  <2>2. /\ \A s \in Donated(g) : s \in Txns \ {t} /\ pay[s].amount = pay'[s].amount /\ pay[s].amount \in Nat
    BY <1>2, AloneType DEF Donated, RowsOf, Bill
  <2>3. Total(pay, Donated(g)) = Total(pay', Donated(g))
    BY <2>1, <2>2, TotalSame
  <2>4. CASE f # g
    BY <1>1, <1>2, <1>5, <1>6, <2>1, <2>3, <2>4 DEF LedgerInv, f
  <2>5. CASE f = g
    <3> DEFINE all == Donated(g) \cup {t}
    <3>1. IsFiniteSet(all) /\ all \ {t} = Donated(g) /\ t \in all
      BY <2>1, FS_AddElement
    <3>2. \A s \in all : pay'[s].amount \in Nat
      BY <1>2, <1>3, <2>2
    <3> HIDE DEF all
    <3>3. Total(pay', all) = pay'[t].amount + Total(pay', all \ {t})
      BY <3>1, <3>2, TotalTake
    <3>4. Total(pay', all) = b.amount + Total(pay, Donated(g)) /\ Donated(g)' = all
      BY <1>2, <2>3, <2>5, <3>1, <3>3 DEF all
    <3>5. Total(pay, Donated(g)) \in Nat
      BY <2>1, <2>2, TotalNat
    <3>6. fund[g].amount \in Nat /\ fund[g].amount = Total(pay, Donated(g))
      BY <1>3, <1>5, <2>1, <2>5, <3>5, AloneType DEF LedgerInv, FundRow
    <3>7. Unadded(r, g)' = b.amount
      BY <1>6, <2>5 DEF f
    <3>8. QED
      BY <1>1, <1>3, <1>6, <3>1, <3>4, <3>5, <3>6, <3>7 DEF LedgerInv
  <2>6. QED
    BY <2>4, <2>5
<1>11. \A s \in Txns : CodeInv(r, s)'
    BY <1>0, <1>1, <1>5, CodesInserted DEF f, Inserts
<1>12. QED
    BY <1>7, <1>8, <1>9, <1>10, <1>11 DEF SerialInv

-----------------------------------------------------------------------------
(* The steps that write funds *)

LEMMA AmountWritten ==
    ASSUME TypeOK, NEW f \in Funds, NEW n \in Nat, fund[f].state = "open", WriteAmount(f, n)
    PROVE  /\ fund'[f].state = "open" /\ fund'[f].amount = n
           /\ \A g \in Funds : g # f => fund'[g] = fund[g]
    BY DEF WriteAmount, TypeOK, FundRow

LEMMA FundDropped ==
    ASSUME TypeOK, NEW f \in Funds, DropFund(f)
    PROVE  fund'[f].state = "gone" /\ \A g \in Funds : g # f => fund'[g] = fund[g]
    BY DEF DropFund, TypeOK

\* The ledger of a fund that nothing was added to and nothing is owed to.
LEMMA SameLedger ==
    ASSUME NEW r, NEW f, LedgerInv(r, f), UNCHANGED pay, Donated(f)' = Donated(f), fund'[f] = fund[f],
           Unadded(r, f)' = Unadded(r, f), Unrecorded(r, f)' = Unrecorded(r, f)
    PROVE  LedgerInv(r, f)'
    BY DEF LedgerInv

\* What is known of the funds and codes before a step.
LEMMA AloneParts ==
    ASSUME NEW r, Alone(r)
    PROVE  /\ \A f \in Funds : FundInv(r, f) /\ LedgerInv(r, f)
           /\ \A t \in Txns : CodeInv(r, t)
           /\ GiftInv(r) /\ AnswerInv(r)
    BY DEF Alone, SerialInv

LEMMA TotalOfDonated ==
    ASSUME NEW r, Alone(r), NEW f \in Funds
    PROVE  Total(pay, Donated(f)) \in Nat /\ (Donated(f) = {} => Total(pay, Donated(f)) = 0)
<1>1. IsFiniteSet(Donated(f))
    BY AloneParts DEF LedgerInv
<1>2. \A t \in Donated(f) : pay[t].amount \in Nat
    BY AloneType DEF Donated, RowsOf, Bill
<1>3. QED
    BY <1>1, <1>2, TotalNat, TotalNone

LEMMA AloneGiftAdd ==
    ASSUME NEW r, Alone(r), DonateAdd(r)
    PROVE  SerialInv(r)'
<1> DEFINE f == req[r].bill.fund
           n == req[r].next
<1>0. /\ r \in Requests /\ TypeOK /\ req[r].pc = "giftAdd" /\ f \in Funds
      /\ n \in Nat /\ req[r].bill.amount \in Nat
    BY AloneType DEF DonateAdd, At, ReqInv, Request, Bill
<1>1. fund[f].state = "open" /\ n = fund[f].amount + req[r].bill.amount
    BY <1>0, AloneParts, FundsAssumption DEF GiftInv, Gives
<1>2. UNCHANGED <<tx, pay, late, order, roles, plans, closed>> /\ Finish(r) /\ WriteAmount(f, n)
    BY DEF DonateAdd
<1>3. /\ fund'[f].state = "open" /\ fund'[f].amount = n
      /\ \A g \in Funds : g # f => fund'[g] = fund[g]
    BY <1>0, <1>1, <1>2, AmountWritten
<1>4. /\ req'[r].pc = "idle" /\ ~Applies(r)' /\ GiftInv(r)' /\ AnswerInv(r)'
      /\ \A g : Unadded(r, g)' = 0 /\ Unrecorded(r, g)' = 0
    BY <1>0, <1>2, FinishOwes
<1>5. /\ ~Applies(r) /\ ~At(r, "dropPaid")
      /\ \A g : Unrecorded(r, g) = 0 /\ Unadded(r, g) = IF f = g THEN req[r].bill.amount ELSE 0
    BY <1>0 DEF Applies, At, Unadded, Unrecorded
<1> HIDE DEF f, n
<1>6. ASSUME NEW g \in Funds PROVE FundInv(r, g)' /\ LedgerInv(r, g)'
  <2>1. /\ FundInv(r, g) /\ LedgerInv(r, g) /\ fund[g].amount \in Nat
        /\ RowsOf(g)' = RowsOf(g) /\ OrdersOf(g)' = OrdersOf(g) /\ Donated(g)' = Donated(g)
    BY <1>2, SameRowsOf, AloneParts, AloneType DEF FundRow
  <2>2. CASE g # f
    BY <1>2, <1>3, <1>4, <1>5, <2>1, <2>2, SameFund, SameLedger
  <2>3. CASE g = f
    <3>1. ReachesTarget(fund[g].amount) => ReachesTarget(fund'[g].amount)
      BY <1>0, <1>1, <1>3, <2>1, <2>3, TargetAssumption DEF ReachesTarget
    <3>2. FundInv(r, g)'
      BY <1>1, <1>2, <1>3, <1>5, <2>1, <2>3, <3>1 DEF FundInv
    <3>3. LedgerInv(r, g)'
      BY <1>0, <1>1, <1>2, <1>3, <1>4, <1>5, <2>1, <2>3, TotalOfDonated DEF LedgerInv
    <3>4. QED
      BY <3>2, <3>3
  <2>4. QED
    BY <2>2, <2>3
<1>7. \A t \in Txns : CodeInv(r, t)'
    BY <1>2, <1>5, AloneParts, SameCode
<1>8. QED
    BY <1>4, <1>6, <1>7 DEF SerialInv

LEMMA AlonePurge ==
    ASSUME NEW r, Alone(r), DeleteFundPurge(r)
    PROVE  SerialInv(r)'
<1> DEFINE f == req[r].bill.fund
<1>0. /\ r \in Requests /\ TypeOK /\ req[r].pc = "purge" /\ f \in Funds
    BY AloneType DEF DeleteFundPurge, At, ReqInv, Request, Bill
<1>1. fund[f].state = "open" /\ \A t \in RowsOf(f) : tx[t] = "PENDING"
    BY <1>0, AloneParts DEF GiftInv
<1>2. /\ UNCHANGED <<fund, pay, late, order, roles, plans, closed>> /\ Goto(r, "dropFund")
      /\ tx' = [t \in Txns |-> IF Purgeable(t, f) THEN "deleted" ELSE tx[t]]
    BY DEF DeleteFundPurge
<1>3. req'[r].pc = "dropFund" /\ req'[r].bill = req[r].bill
    BY <1>0, <1>2, GotoFields
<1>4. /\ ~Applies(r) /\ ~At(r, "dropPaid")
      /\ \A g : Unrecorded(r, g) = 0 /\ Unadded(r, g) = 0 /\ Unadded(r, g)' = 0 /\ Unrecorded(r, g)' = 0
    BY <1>0, <1>3 DEF Applies, At, Unadded, Unrecorded
<1>5. PICK p : p = f
    OBVIOUS
<1>6. \A t \in Txns : tx'[t] = IF t \in RowsOf(p) THEN "deleted" ELSE tx[t]
    BY <1>1, <1>2, <1>5 DEF Purgeable
<1>7. RowsOf(p)' = {} /\ \A g \in Funds : g # p => RowsOf(g)' = RowsOf(g)
    BY <1>2, <1>6 DEF RowsOf, Exists, RowStatus
<1>8. \A g \in Funds : Donated(g)' = Donated(g)
  <2>1. Donated(p)' = {} /\ Donated(p) = {}
    BY <1>1, <1>5, <1>7 DEF Donated
  <2>2. ASSUME NEW g \in Funds, g # p PROVE Donated(g)' = Donated(g)
    <3>1. \A t \in RowsOf(g) : t \in Txns /\ t \notin RowsOf(p)
      BY <2>2 DEF RowsOf
    <3>2. QED
      BY <1>6, <1>7, <2>2, <3>1 DEF Donated
  <2>3. QED
    BY <2>1, <2>2
<1>9. GiftInv(r)'
  <2>1. req'[r].bill.fund = p /\ fund'[p].state = "open"
    BY <1>1, <1>2, <1>3, <1>5
  <2>2. QED
    BY <1>3, <1>7, <2>1 DEF GiftInv, Gives
<1>10. AnswerInv(r)'
    BY <1>3 DEF AnswerInv, ApplySteps, GrantedSteps, Applies, At
<1> HIDE DEF f
<1>11. ASSUME NEW g \in Funds PROVE FundInv(r, g)' /\ LedgerInv(r, g)'
  <2>1. FundInv(r, g) /\ LedgerInv(r, g)
    BY AloneParts
  <2>2. LedgerInv(r, g)'
    BY <1>2, <1>4, <1>8, <2>1, SameLedger
  <2>3. CASE g # p
    <3>1. RowsOf(g)' = RowsOf(g) /\ OrdersOf(g)' = OrdersOf(g)
      BY <1>2, <1>7, <2>3 DEF OrdersOf
    <3>2. QED
      BY <1>2, <1>4, <2>1, <2>2, <3>1, SameFund
  <2>4. CASE g = p
    <3>1. RowsOf(g)' = {} /\ OrdersOf(g)' = {}
      BY <1>7, <2>4 DEF OrdersOf
    <3>2. FundInv(r, g)'
      BY <1>1, <1>2, <1>4, <1>5, <2>1, <2>4, <3>1 DEF FundInv
    <3>3. QED
      BY <2>2, <3>2
  <2>5. QED
    BY <2>3, <2>4
<1>12. ASSUME NEW t \in Txns PROVE CodeInv(r, t)'
  <2>1. CodeInv(r, t) /\ tx'[t] = IF t \in RowsOf(p) THEN "deleted" ELSE tx[t]
    BY <1>6, AloneParts
  <2>2. tx'[t] = "SUCCESS" => tx[t] = "SUCCESS"
    BY <2>1
  <2>3. AlreadyProcessed(t) => AlreadyProcessed(t)'
    <3>1. CASE t \in RowsOf(p)
      <4>1. tx[t] = "PENDING"
        BY <1>1, <1>5, <3>1
      <4>2. QED
        BY <4>1 DEF AlreadyProcessed, RowFound, Exists, RowStatus
    <3>2. CASE t \notin RowsOf(p)
      BY <1>2, <2>1, <3>2 DEF AlreadyProcessed, RowFound, Exists
    <3>3. QED
      BY <3>1, <3>2
  <2>4. QED
    BY <1>2, <1>4, <2>1, <2>2, <2>3 DEF CodeInv
<1>13. QED
    BY <1>9, <1>10, <1>11, <1>12 DEF SerialInv

LEMMA AloneDropFund ==
    ASSUME NEW r, Alone(r), DeleteFundDrop(r)
    PROVE  SerialInv(r)'
<1> DEFINE f == req[r].bill.fund
<1>0. /\ r \in Requests /\ TypeOK /\ req[r].pc = "dropFund" /\ f \in Funds
    BY AloneType DEF DeleteFundDrop, At, ReqInv, Request, Bill
<1>1. RowsOf(f) = {} /\ fund[f].state = "open"
    BY <1>0, AloneParts DEF GiftInv
<1>2. UNCHANGED <<tx, pay, late, order, roles, plans, closed>> /\ Finish(r) /\ DropFund(f)
    BY DEF DeleteFundDrop
<1>3. fund'[f].state = "gone" /\ \A g \in Funds : g # f => fund'[g] = fund[g]
    BY <1>0, <1>2, FundDropped
<1>4. /\ req'[r].pc = "idle" /\ GiftInv(r)' /\ AnswerInv(r)'
      /\ \A g : Unadded(r, g)' = 0 /\ Unrecorded(r, g)' = 0
    BY <1>0, <1>2, FinishOwes
<1>5. ~Applies(r) /\ ~At(r, "dropPaid") /\ \A g : Unrecorded(r, g) = 0 /\ Unadded(r, g) = 0
    BY <1>0 DEF Applies, At, Unadded, Unrecorded
<1> HIDE DEF f
<1>6. ASSUME NEW g \in Funds PROVE FundInv(r, g)' /\ LedgerInv(r, g)'
  <2>1. /\ FundInv(r, g) /\ LedgerInv(r, g)
        /\ RowsOf(g)' = RowsOf(g) /\ OrdersOf(g)' = OrdersOf(g) /\ Donated(g)' = Donated(g)
    BY <1>2, SameRowsOf, AloneParts
  <2>2. CASE g # f
    BY <1>2, <1>3, <1>4, <1>5, <2>1, <2>2, SameFund, SameLedger
  <2>3. CASE g = f
    <3>1. OrdersOf(g) = {}
      BY <1>1, <2>3 DEF OrdersOf
    <3>2. FundInv(r, g)'
      BY <1>1, <1>2, <1>3, <2>1, <2>3, <3>1 DEF FundInv
    <3>3. LedgerInv(r, g)'
      BY <1>3, <2>1, <2>3 DEF LedgerInv
    <3>4. QED
      BY <3>2, <3>3
  <2>4. QED
    BY <2>2, <2>3
<1>7. \A t \in Txns : CodeInv(r, t)'
    BY <1>2, <1>5, AloneParts, SameCode
<1>8. QED
    BY <1>4, <1>6, <1>7 DEF SerialInv

LEMMA AloneOpenFund ==
    ASSUME NEW r, Alone(r), CreateFundInsert(r)
    PROVE  SerialInv(r)'
<1>0. r \in Requests /\ TypeOK /\ req[r].pc = "openFund"
    BY AloneType DEF CreateFundInsert, At
<1>1. PICK f \in Funds : fund[f].state = "none" /\ fund' = [fund EXCEPT ![f].state = "open"]
    BY DEF CreateFundInsert
<1>2. UNCHANGED <<tx, pay, late, order, roles, plans, closed>> /\ Finish(r)
    BY DEF CreateFundInsert
<1>3. /\ fund'[f].state = "open" /\ fund'[f].amount = fund[f].amount
      /\ \A g \in Funds : g # f => fund'[g] = fund[g]
    BY <1>0, <1>1 DEF TypeOK, FundRow
<1>4. /\ req'[r].pc = "idle" /\ GiftInv(r)' /\ AnswerInv(r)'
      /\ \A g : Unadded(r, g)' = 0 /\ Unrecorded(r, g)' = 0
    BY <1>0, <1>2, FinishOwes
<1>5. ~Applies(r) /\ ~At(r, "dropPaid") /\ \A g : Unrecorded(r, g) = 0 /\ Unadded(r, g) = 0
    BY <1>0 DEF Applies, At, Unadded, Unrecorded
<1>6. ASSUME NEW g \in Funds PROVE FundInv(r, g)' /\ LedgerInv(r, g)'
  <2>1. /\ FundInv(r, g) /\ LedgerInv(r, g)
        /\ RowsOf(g)' = RowsOf(g) /\ OrdersOf(g)' = OrdersOf(g) /\ Donated(g)' = Donated(g)
    BY <1>2, SameRowsOf, AloneParts
  <2>2. CASE g # f
    BY <1>2, <1>3, <1>4, <1>5, <2>1, <2>2, SameFund, SameLedger
  <2>3. CASE g = f
    <3>1. fund[g].amount = 0 /\ closed[g] = 0 /\ RowsOf(g) = {}
      BY <1>1, <2>1, <2>3 DEF FundInv
    <3>2. OrdersOf(g) = {} /\ Donated(g) = {}
      BY <3>1 DEF OrdersOf, Donated
    <3>3. FundInv(r, g)'
      BY <1>2, <1>3, <2>1, <2>3, <3>1, <3>2 DEF FundInv
    <3>4. LedgerInv(r, g)'
      BY <1>2, <1>3, <1>4, <2>1, <2>3, <3>1, <3>2, TotalOfDonated DEF LedgerInv
    <3>5. QED
      BY <3>3, <3>4
  <2>4. QED
    BY <2>2, <2>3
<1>7. \A t \in Txns : CodeInv(r, t)'
    BY <1>2, <1>5, AloneParts, SameCode
<1>8. QED
    BY <1>4, <1>6, <1>7 DEF SerialInv
-----------------------------------------------------------------------------
(* The steps that apply a payment *)

LEMMA AloneAddAmount ==
    ASSUME NEW r, Alone(r), AddAmount(r)
    PROVE  SerialInv(r)'
<1> DEFINE f == FundOf(r)
           t == req[r].txn
           n == req[r].next
           step == IF ReachesTarget(n) THEN "closeFund" ELSE "record"
<1>0. /\ r \in Requests /\ TypeOK /\ req[r].pc = "addAmount" /\ n \in Nat
      /\ req[r].pc \in CallbackSteps \cap ApplySteps \cap DonationSteps \cap GrantedSteps
    BY AloneType DEF AddAmount, At, CallbackSteps, ApplySteps, DonationSteps, GrantedSteps, Request
<1>1. /\ f \in Funds /\ t \in Txns /\ pay[t].amount \in Nat /\ Donating(req[r]) /\ req[r].ok
      /\ req[r].row = RowFound(t) /\ ~AlreadyProcessed(t) /\ ~req[r].reached
      /\ Granted(req[r]) \in roles[Payer(r)]
    BY <1>0, ApplyFacts, AloneParts DEF AnswerInv
<1>2. fund[f].state = "open" /\ n = fund[f].amount + pay[t].amount
    BY <1>0, AloneParts DEF AnswerInv
<1>3. UNCHANGED <<tx, pay, late, order, roles, plans, closed>> /\ WriteAmount(f, n) /\ Goto(r, step)
    BY DEF AddAmount
<1>4. /\ fund'[f].state = "open" /\ fund'[f].amount = n
      /\ \A g \in Funds : g # f => fund'[g] = fund[g]
    BY <1>0, <1>1, <1>2, <1>3, AmountWritten
<1>5. /\ req'[r].pc = step /\ req'[r].txn = t /\ req'[r].row = req[r].row /\ req'[r].ok = req[r].ok
      /\ req'[r].reached = req[r].reached
    BY <1>0, <1>3, GotoFields
<1>6. /\ ~Applies(r) /\ ~At(r, "dropPaid")
      /\ \A g : Unrecorded(r, g) = 0 /\ Unadded(r, g) = 0
    BY <1>0 DEF Applies, At, Unadded, Unrecorded
<1>7. PICK h, s, m : h = f /\ s = t /\ m = n
    OBVIOUS
<1>8. /\ FundOf(r)' = h /\ Payer(r)' = Payer(r) /\ Donating(req[r])' /\ Granted(req[r])' = Granted(req[r])
      /\ req'[r].txn = s /\ RowFound(s)' = RowFound(s) /\ AlreadyProcessed(s)' = AlreadyProcessed(s)
    BY <1>1, <1>3, <1>5, <1>7, SamePayment, SameAnswers
<1> HIDE DEF f, t, n
<1>9. req'[r].pc \in {"closeFund", "record"} /\ (req'[r].pc = "record" => Applies(r)')
    BY <1>1, <1>5, <1>7, <1>8 DEF Applies, At
<1>10. \A g : Unadded(r, g)' = 0 /\ Unrecorded(r, g)' = IF h = g THEN pay[s].amount ELSE 0
    BY <1>3, <1>8, <1>9 DEF Unadded, Unrecorded, At
<1>11. GiftInv(r)'
    BY <1>9 DEF GiftInv, Gives
<1>12. AnswerInv(r)'
    BY <1>1, <1>3, <1>4, <1>5, <1>7, <1>8, <1>9 DEF AnswerInv, ApplySteps, GrantedSteps
<1>13. ASSUME NEW g \in Funds PROVE FundInv(r, g)' /\ LedgerInv(r, g)'
  <2>1. /\ FundInv(r, g) /\ LedgerInv(r, g) /\ fund[g].amount \in Nat
        /\ RowsOf(g)' = RowsOf(g) /\ OrdersOf(g)' = OrdersOf(g) /\ Donated(g)' = Donated(g)
    BY <1>3, SameRowsOf, AloneParts, AloneType DEF FundRow
  <2>2. CASE g # h
    BY <1>3, <1>4, <1>6, <1>7, <1>10, <2>1, <2>2, SameFund, SameLedger
  <2>3. CASE g = h
    <3>1. ReachesTarget(fund[g].amount) => ReachesTarget(fund'[g].amount)
      BY <1>0, <1>1, <1>2, <1>4, <1>7, <2>1, <2>3, TargetAssumption DEF ReachesTarget
    <3>2. FundInv(r, g)'
      BY <1>2, <1>3, <1>4, <1>6, <1>7, <2>1, <2>3, <3>1 DEF FundInv
    <3>3. LedgerInv(r, g)'
      BY <1>1, <1>2, <1>3, <1>4, <1>6, <1>7, <1>10, <2>1, <2>3, TotalOfDonated DEF LedgerInv
    <3>4. QED
      BY <3>2, <3>3
  <2>4. QED
    BY <2>2, <2>3
<1>14. \A p \in Txns : CodeInv(r, p)'
    BY <1>3, <1>6, AloneParts, SameCode
<1>15. QED
    BY <1>11, <1>12, <1>13, <1>14 DEF SerialInv

LEMMA AloneCloseFund ==
    ASSUME NEW r, Alone(r), CloseFund(r)
    PROVE  SerialInv(r)'
<1> DEFINE f == FundOf(r)
           t == req[r].txn
<1>0. /\ r \in Requests /\ TypeOK /\ req[r].pc = "closeFund"
      /\ req[r].pc \in CallbackSteps \cap ApplySteps \cap DonationSteps \cap GrantedSteps
    BY AloneType DEF CloseFund, At, CallbackSteps, ApplySteps, DonationSteps, GrantedSteps
<1>1. /\ f \in Funds /\ t \in Txns /\ req[r].row = RowFound(t) /\ ~AlreadyProcessed(t) /\ ~req[r].reached
      /\ Granted(req[r]) \in roles[Payer(r)] /\ fund[f].state = "open"
    BY <1>0, ApplyFacts, AloneParts DEF AnswerInv
<1>2. /\ UNCHANGED <<fund, tx, pay, late, order, roles, plans>> /\ Goto(r, "dropPaid")
      /\ closed' = [closed EXCEPT ![f] = @ + 1]
    BY DEF CloseFund
<1>3. closed[f] = 0
    BY <1>0, <1>1, AloneParts, AloneType DEF FundInv, At
<1>4. closed'[f] = 1 /\ \A g \in Funds : g # f => closed'[g] = closed[g]
    BY <1>0, <1>1, <1>2, <1>3 DEF TypeOK
<1>5. /\ req'[r].pc = "dropPaid" /\ req'[r].txn = t /\ req'[r].row = req[r].row
      /\ req'[r].reached = req[r].reached
    BY <1>0, <1>2, GotoFields
<1>6. /\ ~Applies(r) /\ ~At(r, "dropPaid") /\ At(r, "dropPaid")'
      /\ \A g : Unadded(r, g) = 0 /\ Unrecorded(r, g) = IF f = g THEN pay[t].amount ELSE 0
    BY <1>0, <1>5 DEF Applies, At, Unadded, Unrecorded
<1>7. PICK h, s : h = f /\ s = t
    OBVIOUS
<1>8. /\ FundOf(r)' = h /\ Payer(r)' = Payer(r) /\ Granted(req[r])' = Granted(req[r])
      /\ req'[r].txn = s /\ RowFound(s)' = RowFound(s) /\ AlreadyProcessed(s)' = AlreadyProcessed(s)
    BY <1>2, <1>5, <1>7, SamePayment, SameAnswers
<1> HIDE DEF f, t
<1>9. \A g : Unadded(r, g)' = 0 /\ Unrecorded(r, g)' = IF h = g THEN pay[s].amount ELSE 0
    BY <1>2, <1>5, <1>8 DEF Unadded, Unrecorded, At
<1>10. GiftInv(r)'
    BY <1>5 DEF GiftInv, Gives
<1>11. AnswerInv(r)'
    BY <1>1, <1>2, <1>4, <1>5, <1>7, <1>8 DEF AnswerInv, ApplySteps, GrantedSteps, Applies, At
<1>12. ASSUME NEW g \in Funds PROVE FundInv(r, g)' /\ LedgerInv(r, g)'
  <2>1. /\ FundInv(r, g) /\ LedgerInv(r, g)
        /\ RowsOf(g)' = RowsOf(g) /\ OrdersOf(g)' = OrdersOf(g) /\ Donated(g)' = Donated(g)
    BY <1>2, SameRowsOf, AloneParts
  <2>2. LedgerInv(r, g)'
    BY <1>2, <1>6, <1>7, <1>9, <2>1, SameLedger
  <2>3. FundInv(r, g)'
    BY <1>1, <1>2, <1>3, <1>4, <1>6, <1>7, <1>8, <2>1 DEF FundInv
  <2>4. QED
    BY <2>2, <2>3
<1>13. \A p \in Txns : CodeInv(r, p)'
    BY <1>2, <1>6, AloneParts, SameCode
<1>14. QED
    BY <1>10, <1>11, <1>12, <1>13 DEF SerialInv

LEMMA AloneDropPaid ==
    ASSUME NEW r, Alone(r), DropPaidFund(r)
    PROVE  SerialInv(r)'
<1> DEFINE f == FundOf(r)
           t == req[r].txn
<1>0. /\ r \in Requests /\ TypeOK /\ req[r] \in Request /\ req[r].pc = "dropPaid"
      /\ req[r].pc \in CallbackSteps \cap ApplySteps \cap DonationSteps \cap GrantedSteps
    BY AloneType DEF DropPaidFund, At, CallbackSteps, ApplySteps, DonationSteps, GrantedSteps
<1>1. /\ f \in Funds /\ t \in Txns /\ req[r].row = RowFound(t) /\ closed[f] = 1
      /\ Granted(req[r]) \in roles[Payer(r)]
    BY <1>0, ApplyFacts, AloneParts DEF AnswerInv
<1>2. UNCHANGED <<tx, pay, late, order, roles, plans, closed>> /\ DropFund(f)
    BY DEF DropPaidFund
<1>3. fund'[f].state = "gone" /\ \A g \in Funds : g # f => fund'[g] = fund[g]
    BY <1>0, <1>1, <1>2, FundDropped
<1>4. req'[r] = [req[r] EXCEPT !.pc = "record", !.reached = TRUE]
    BY <1>0, BecomeIs DEF DropPaidFund
<1>5. req'[r].pc = "record" /\ req'[r].txn = t /\ req'[r].row = req[r].row
    BY <1>0, <1>4 DEF Request
<1>6. ~Applies(r) /\ \A g : Unadded(r, g) = 0 /\ (f # g => Unrecorded(r, g) = 0)
    BY <1>0 DEF Applies, At, Unadded, Unrecorded
<1>7. PICK h, s : h = f /\ s = t
    OBVIOUS
<1>8. /\ FundOf(r)' = h /\ Payer(r)' = Payer(r) /\ Granted(req[r])' = Granted(req[r])
      /\ req'[r].txn = s /\ RowFound(s)' = RowFound(s)
    BY <1>2, <1>5, <1>7, SamePayment, SameAnswers
<1> HIDE DEF f, t
<1>9. \A g : Unadded(r, g)' = 0 /\ (h # g => Unrecorded(r, g)' = 0)
    BY <1>5, <1>8 DEF Unadded, Unrecorded, At
<1>10. GiftInv(r)'
    BY <1>5 DEF GiftInv, Gives
<1>11. AnswerInv(r)'
    BY <1>1, <1>2, <1>5, <1>7, <1>8 DEF AnswerInv, ApplySteps, GrantedSteps
<1>12. ASSUME NEW g \in Funds PROVE FundInv(r, g)' /\ LedgerInv(r, g)'
  <2>1. /\ FundInv(r, g) /\ LedgerInv(r, g)
        /\ RowsOf(g)' = RowsOf(g) /\ OrdersOf(g)' = OrdersOf(g) /\ Donated(g)' = Donated(g)
    BY <1>2, SameRowsOf, AloneParts
  <2>2. CASE g # h
    <3>1. LedgerInv(r, g)'
      BY <1>2, <1>3, <1>6, <1>7, <1>9, <2>1, <2>2, SameLedger
    <3>2. closed[g] = 1 => fund[g].state = "gone"
      BY <1>7, <2>1, <2>2 DEF FundInv, f
    <3>3. FundInv(r, g)'
      BY <1>2, <1>3, <1>7, <2>1, <2>2, <3>2 DEF FundInv
    <3>4. QED
      BY <3>1, <3>3
  <2>3. CASE g = h
    BY <1>1, <1>2, <1>3, <1>7, <2>1, <2>3 DEF FundInv, LedgerInv
  <2>4. QED
    BY <2>2, <2>3
<1>13. \A p \in Txns : CodeInv(r, p)'
    BY <1>2, <1>6, AloneParts, SameCode
<1>14. QED
    BY <1>10, <1>11, <1>12, <1>13 DEF SerialInv

LEMMA AloneWriteRole ==
    ASSUME NEW r, Alone(r), WriteRole(r)
    PROVE  SerialInv(r)'
<1> DEFINE u == Payer(r)
           t == req[r].txn
           new == req[r].had \cup {Granted(req[r])}
<1>0. /\ r \in Requests /\ TypeOK /\ req[r] \in Request /\ req[r].pc = "writeRole"
      /\ req[r].pc \in CallbackSteps \cap ApplySteps
    BY AloneType DEF WriteRole, At, CallbackSteps, ApplySteps
<1>1. /\ u \in Users /\ t \in Txns /\ req[r].row = RowFound(t) /\ ~AlreadyProcessed(t) /\ ~req[r].reached
      /\ req[r].had = roles[u]
    BY <1>0, ApplyFacts, AloneParts DEF AnswerInv
<1>2. /\ UNCHANGED <<fund, tx, pay, late, order, plans, closed>>
      /\ roles' = [roles EXCEPT ![u] = new]
    BY DEF WriteRole, RolesWritten
<1>3. Granted(req[r]) \in roles'[u] /\ \A v \in Users : roles[v] \subseteq roles'[v]
    BY <1>0, <1>1, <1>2 DEF TypeOK
<1>4. req'[r] = [req[r] EXCEPT !.pc = Apply(req[r]), !.had = {}]
    BY <1>0, BecomeIs DEF WriteRole
<1>5. /\ req'[r].pc \in {"readFund", "subscribe"} /\ req'[r].txn = t /\ req'[r].row = req[r].row
      /\ req'[r].reached = req[r].reached
    BY <1>0, <1>4 DEF Request, Apply
<1>6. /\ ~Applies(r) /\ ~At(r, "dropPaid")
      /\ \A g : Unadded(r, g) = 0 /\ Unrecorded(r, g) = 0 /\ Unadded(r, g)' = 0 /\ Unrecorded(r, g)' = 0
    BY <1>0, <1>5 DEF Applies, At, Unadded, Unrecorded
<1>7. PICK s, v : s = t /\ v = u
    OBVIOUS
<1>8. /\ Payer(r)' = v /\ Granted(req[r])' = Granted(req[r])
      /\ req'[r].txn = s /\ RowFound(s)' = RowFound(s) /\ AlreadyProcessed(s)' = AlreadyProcessed(s)
    BY <1>2, <1>5, <1>7, SamePayment, SameAnswers
<1> HIDE DEF u, t
<1>9. GiftInv(r)'
    BY <1>5 DEF GiftInv, Gives
<1>10. AnswerInv(r)'
    BY <1>1, <1>3, <1>5, <1>7, <1>8 DEF AnswerInv, ApplySteps, GrantedSteps, Applies, At
<1>11. ASSUME NEW g \in Funds PROVE FundInv(r, g)' /\ LedgerInv(r, g)'
  <2>1. /\ FundInv(r, g) /\ LedgerInv(r, g)
        /\ RowsOf(g)' = RowsOf(g) /\ OrdersOf(g)' = OrdersOf(g) /\ Donated(g)' = Donated(g)
    BY <1>2, SameRowsOf, AloneParts
  <2>2. QED
    BY <1>2, <1>6, <2>1, SameFund, SameLedger
<1>12. ASSUME NEW p \in Txns PROVE CodeInv(r, p)'
  <2>1. CodeInv(r, p) /\ pay[p].user \in Users /\ AlreadyProcessed(p)' = AlreadyProcessed(p)
    BY <1>2, SameAnswers, AloneParts, AloneType DEF Bill
  <2>2. roles[pay[p].user] \subseteq roles'[pay[p].user]
    BY <1>3, <2>1
  <2>3. QED
    BY <1>2, <1>6, <2>1, <2>2 DEF CodeInv
<1>13. QED
    BY <1>9, <1>10, <1>11, <1>12 DEF SerialInv

LEMMA AloneSubscribe ==
    ASSUME NEW r, Alone(r), Subscribe(r)
    PROVE  SerialInv(r)'
<1> DEFINE t == req[r].txn
<1>0. /\ r \in Requests /\ TypeOK /\ req[r].pc = "subscribe" /\ ~Donating(req[r])
      /\ req[r].pc \in CallbackSteps \cap ApplySteps \cap GrantedSteps
    BY AloneType DEF Subscribe, At, CallbackSteps, ApplySteps, GrantedSteps, ReqInv
<1>1. /\ t \in Txns /\ req[r].row = RowFound(t) /\ ~AlreadyProcessed(t) /\ req[r].ok
      /\ Granted(req[r]) \in roles[Payer(r)]
    BY <1>0, ApplyFacts, AloneParts DEF AnswerInv
<1>2. /\ UNCHANGED <<fund, tx, pay, late, order, roles, closed>> /\ Goto(r, "record")
      /\ plans' = [plans EXCEPT ![t] = @ + 1]
    BY DEF Subscribe
<1>3. /\ req'[r].pc = "record" /\ req'[r].txn = t /\ req'[r].row = req[r].row /\ req'[r].ok = req[r].ok
    BY <1>0, <1>2, GotoFields
<1>4. /\ ~Applies(r) /\ ~At(r, "dropPaid")
      /\ \A g : Unadded(r, g) = 0 /\ Unrecorded(r, g) = 0
    BY <1>0 DEF Applies, At, Unadded, Unrecorded
<1>5. plans[t] = 0
    BY <1>1, <1>4, AloneParts, AloneType DEF CodeInv
<1>6. plans'[t] = 1 /\ \A p \in Txns : p # t => plans'[p] = plans[p]
    BY <1>0, <1>1, <1>2, <1>5 DEF TypeOK
<1>7. PICK s : s = t
    OBVIOUS
<1>8. /\ Payer(r)' = Payer(r) /\ Granted(req[r])' = Granted(req[r]) /\ ~Donating(req[r])'
      /\ req'[r].txn = s /\ RowFound(s)' = RowFound(s) /\ AlreadyProcessed(s)' = AlreadyProcessed(s)
    BY <1>0, <1>2, <1>3, <1>7, SamePayment, SameAnswers
<1> HIDE DEF t
<1>9. Applies(r)' /\ \A g : Unadded(r, g)' = 0 /\ Unrecorded(r, g)' = 0
    BY <1>1, <1>3, <1>7, <1>8 DEF Applies, At, Unadded, Unrecorded
<1>10. GiftInv(r)'
    BY <1>3 DEF GiftInv, Gives
<1>11. AnswerInv(r)'
    BY <1>1, <1>2, <1>3, <1>7, <1>8 DEF AnswerInv, ApplySteps, GrantedSteps
<1>12. ASSUME NEW g \in Funds PROVE FundInv(r, g)' /\ LedgerInv(r, g)'
  <2>1. /\ FundInv(r, g) /\ LedgerInv(r, g)
        /\ RowsOf(g)' = RowsOf(g) /\ OrdersOf(g)' = OrdersOf(g) /\ Donated(g)' = Donated(g)
    BY <1>2, SameRowsOf, AloneParts
  <2>2. QED
    BY <1>2, <1>4, <1>9, <2>1, SameFund, SameLedger
<1>13. ASSUME NEW p \in Txns PROVE CodeInv(r, p)'
  <2>1. CodeInv(r, p) /\ AlreadyProcessed(p)' = AlreadyProcessed(p)
    BY <1>2, SameAnswers, AloneParts
  <2>2. QED
    BY <1>2, <1>4, <1>6, <1>7, <1>8, <1>9, <2>1 DEF CodeInv
<1>14. QED
    BY <1>10, <1>11, <1>12, <1>13 DEF SerialInv

\* What a callback records, and of which payment.
LEMMA RecordFacts ==
    ASSUME NEW r, Alone(r), Record(r), NEW t, t = req[r].txn
    PROVE  /\ t \in Txns /\ req[r].row = RowFound(t) /\ pay[t].amount \in Nat /\ pay[t].user \in Users
           /\ tx[t] = "SUCCESS" \/ late[t] = "SUCCESS" => req[r].ok
           /\ \A s \in Txns : s # t => tx'[s] = tx[s] /\ late'[s] = late[s]
           /\ Exists(t) =>
                /\ req[r].row = "deposit" /\ late'[t] = late[t]
                /\ tx'[t] = StatusOf(req[r].ok) /\ Exists(t)'
           /\ ~Exists(t) =>
                /\ req[r].row # "deposit" /\ tx'[t] = tx[t] /\ ~Exists(t)' /\ pay[t].fund # NoFund
                /\ late'[t] = StatusOf(req[r].ok)
           /\ UNCHANGED <<fund, pay, order, roles, plans, closed>>
<1>0. /\ r \in Requests /\ TypeOK /\ req[r].pc = "record" /\ ReqInv(r)
      /\ req[r].pc \in CallbackSteps
    BY AloneType DEF Record, At, CallbackSteps
<1>1. /\ t \in Txns /\ req[r].row = RowFound(t) /\ pay[t].amount \in Nat /\ pay[t].method = "VNPAY"
      /\ RowInv(t) /\ pay[t].user \in Users
    BY <1>0, ApplyFacts, AloneParts, AloneType DEF AnswerInv, Payer
<1>2. tx[t] = "SUCCESS" \/ late[t] = "SUCCESS" => req[r].ok
    BY <1>0, <1>1 DEF ReqInv, RowInv
<1>3. /\ tx' = IF req[r].row = "deposit" /\ Exists(t)
               THEN [tx EXCEPT ![t] = StatusOf(req[r].ok)] ELSE tx
      /\ late' = IF req[r].row # "deposit"
                 THEN [late EXCEPT ![t] = StatusOf(req[r].ok)] ELSE late
      /\ UNCHANGED <<fund, pay, order, roles, plans, closed>>
    BY DEF Record
<1>4. req[r].row = "deposit" <=> Exists(t)
    BY <1>1 DEF RowFound
<1>5. tx \in [Txns -> {"unused", "deleted"} \cup RowStatus] /\ late \in [Txns -> {"absent", "SUCCESS", "FAILED"}]
    BY <1>0 DEF TypeOK
<1>6. \A s \in Txns : s # t => tx'[s] = tx[s] /\ late'[s] = late[s]
    BY <1>1, <1>3, <1>5
<1>7. ASSUME Exists(t)
      PROVE  late'[t] = late[t] /\ tx'[t] = StatusOf(req[r].ok) /\ Exists(t)'
    BY <1>1, <1>3, <1>4, <1>5, <1>7 DEF Exists, StatusOf, RowStatus
<1>8. ASSUME ~Exists(t)
      PROVE  tx'[t] = tx[t] /\ ~Exists(t)' /\ late'[t] = StatusOf(req[r].ok) /\ pay[t].fund # NoFund
    BY <1>0, <1>1, <1>3, <1>4, <1>5, <1>8 DEF Exists, ReqInv
<1>9. QED
    BY <1>1, <1>2, <1>3, <1>4, <1>6, <1>7, <1>8

\* What is left to do after it.
LEMMA RecordNext ==
    ASSUME NEW r, Alone(r), Record(r)
    PROVE  /\ GiftInv(r)' /\ AnswerInv(r)' /\ ~At(r, "dropPaid") /\ ~At(r, "dropPaid")' /\ ~Applies(r)'
           /\ \A g : Unadded(r, g) = 0 /\ Unadded(r, g)' = 0 /\ Unrecorded(r, g)' = 0
<1> DEFINE t == req[r].txn
           f == FundOf(r)
           step == AfterRecord(req[r])
<1>0. r \in Requests /\ TypeOK /\ req[r].pc = "record"
    BY AloneType DEF Record, At
<1>1. \A g : Unadded(r, g) = 0
    BY <1>0 DEF Unadded, At
<1>2. CASE step = "idle"
  <2>1. Finish(r)
    BY <1>2 DEF Record
  <2>2. QED
    BY <1>0, <1>1, <2>1, FinishOwes DEF At
<1>3. CASE step # "idle"
  <2>1. Goto(r, step)
    BY <1>3 DEF Record
  <2>2. req'[r].pc = step /\ req'[r].txn = t
    BY <1>0, <2>1, GotoFields
  <2>3. /\ step \in {"setOrder", "recheck", "collect"}
        /\ step # "setOrder" => Donating(req[r]) /\ req[r].ok
        /\ step = "collect" => req[r].reached
    BY <1>3 DEF AfterRecord
  <2>4. t \in Txns /\ pay' = pay /\ closed' = closed
    BY RecordFacts
  <2>5. step # "setOrder" => tx'[t] = "SUCCESS" 
    <3>1. Donating(req[r]) => Exists(t)
      BY RecordFacts DEF Donating
    <3>2. Exists(t) => tx'[t] = StatusOf(req[r].ok)
      BY RecordFacts
    <3>3. QED
      BY <2>3, <3>1, <3>2 DEF StatusOf
  <2>6. step = "collect" => closed[f] > 0
    BY <1>0, <2>3, AloneParts DEF AnswerInv
  <2>7. PICK h, s, c : h = f /\ s = t /\ c = step
    OBVIOUS
  <2>8. FundOf(r)' = h
    BY <2>2, <2>4, <2>7 DEF FundOf
  <2>9. req'[r].txn = s /\ req'[r].pc = c /\ c \in {"setOrder", "recheck", "collect"} /\ (c # "setOrder" => tx'[s] = "SUCCESS")
        /\ (c = "collect" => closed'[h] > 0)
    BY <2>2, <2>3, <2>4, <2>5, <2>6, <2>7
  <2>10. AnswerInv(r)'
    BY <2>8, <2>9 DEF AnswerInv, ApplySteps, GrantedSteps, Applies, At
  <2>11. GiftInv(r)'
    BY <2>9 DEF GiftInv, Gives
  <2>12. QED
    BY <1>0, <1>1, <2>9, <2>10, <2>11 DEF Unadded, Unrecorded, Applies, At
<1>4. QED
    BY <1>2, <1>3

\* A donation enters the ledger when the callback has added it to its fund.
LEMMA RecordedLedger ==
    ASSUME NEW r, Alone(r), Record(r), NEW f \in Funds
    PROVE  /\ RowsOf(f)' = RowsOf(f) /\ OrdersOf(f)' = OrdersOf(f) /\ LedgerInv(r, f)'
<1>1. PICK t : t = req[r].txn
    OBVIOUS
<1>2. /\ t \in Txns /\ pay[t].amount \in Nat
      /\ tx[t] = "SUCCESS" => req[r].ok
      /\ \A s \in Txns : s # t => tx'[s] = tx[s]
      /\ Exists(t) => req[r].row = "deposit" /\ tx'[t] = StatusOf(req[r].ok) /\ Exists(t)'
      /\ ~Exists(t) => req[r].row # "deposit" /\ tx'[t] = tx[t] /\ ~Exists(t)'
      /\ UNCHANGED <<fund, pay, order, roles, plans, closed>>
    BY <1>1, RecordFacts
<1>3. RowsOf(f)' = RowsOf(f)
  <2>1. \A s \in Txns : Exists(s)' <=> Exists(s)
    BY <1>2 DEF Exists
  <2>2. QED
    BY <1>2, <2>1 DEF RowsOf
<1>4. OrdersOf(f)' = OrdersOf(f)
    BY <1>2, <1>3 DEF OrdersOf
<1>5. At(r, "record") /\ f # NoFund
    BY AloneType DEF Record
<1>6. \A g : Unadded(r, g) = 0 /\ Unadded(r, g)' = 0 /\ Unrecorded(r, g)' = 0
    BY RecordNext
<1>7. LedgerInv(r, f)
    BY AloneParts
<1>8. CASE Applies(r) /\ Donating(req[r]) /\ pay[t].fund = f
  <2>1. Unrecorded(r, f) = pay[t].amount
    BY <1>1, <1>8 DEF Unrecorded, FundOf
  <2>2. t \notin Donated(f) /\ t \in RowsOf(f) /\ tx'[t] = "SUCCESS"
    BY <1>1, <1>2, <1>8 DEF Donated, RowsOf, Donating, Applies, AlreadyProcessed, RowFound, StatusOf
  <2> DEFINE all == Donated(f) \cup {t}
  <2>3. Donated(f)' = all
    <3>1. \A s \in RowsOf(f) : s \in Txns
      BY DEF RowsOf
    <3>2. QED
      BY <1>2, <1>3, <2>2, <3>1 DEF Donated
  <2>4. IsFiniteSet(all) /\ t \in all /\ all \ {t} = Donated(f)
    BY <1>7, <2>2, FS_AddElement DEF LedgerInv
  <2>5. \A s \in all : pay[s].amount \in Nat
    BY <1>2, AloneType DEF Donated, RowsOf, Bill
  <2> HIDE DEF all
  <2>6. Total(pay, all) = pay[t].amount + Total(pay, Donated(f))
    BY <2>4, <2>5, TotalTake
  <2>7. Total(pay, Donated(f)) \in Nat /\ fund[f].amount \in Nat
    BY TotalOfDonated, AloneType DEF FundRow
  <2>8. QED
    BY <1>2, <1>3, <1>4, <1>6, <1>7, <2>1, <2>3, <2>4, <2>6, <2>7 DEF LedgerInv
<1>9. CASE ~(Applies(r) /\ Donating(req[r]) /\ pay[t].fund = f)
  <2>1. Unrecorded(r, f) = 0
    BY <1>1, <1>5, <1>9 DEF Unrecorded, FundOf, At
  <2>2. t \in RowsOf(f) => (tx'[t] = "SUCCESS" <=> tx[t] = "SUCCESS")
    BY <1>1, <1>2, <1>5, <1>9 DEF RowsOf, Applies, Donating, AlreadyProcessed, RowFound, StatusOf
  <2>3. Donated(f)' = Donated(f)
    <3>1. \A s \in RowsOf(f) : s \in Txns
      BY DEF RowsOf
    <3>2. QED
      BY <1>2, <1>3, <2>2, <3>1 DEF Donated
  <2>4. QED
    BY <1>2, <1>3, <1>4, <1>6, <1>7, <2>1, <2>3, SameLedger
<1>10. QED
    BY <1>3, <1>4, <1>8, <1>9

\* A plan granted, and a role earned, belong to a payment that is now recorded.
LEMMA RecordedCode ==
    ASSUME NEW r, Alone(r), Record(r), NEW s \in Txns
    PROVE  CodeInv(r, s)'
<1>1. PICK t : t = req[r].txn
    OBVIOUS
<1>2. /\ t \in Txns /\ req[r].row = RowFound(t)
      /\ tx[t] = "SUCCESS" \/ late[t] = "SUCCESS" => req[r].ok
      /\ \A p \in Txns : p # t => tx'[p] = tx[p] /\ late'[p] = late[p]
      /\ Exists(t) => req[r].row = "deposit" /\ late'[t] = late[t] /\ tx'[t] = StatusOf(req[r].ok) /\ Exists(t)'
      /\ ~Exists(t) => /\ req[r].row # "deposit" /\ tx'[t] = tx[t] /\ ~Exists(t)'
                       /\ late'[t] = StatusOf(req[r].ok)
      /\ UNCHANGED <<fund, pay, order, roles, plans, closed>>
    BY <1>1, RecordFacts
<1>3. CodeInv(r, s) /\ AnswerInv(r) /\ At(r, "record") /\ ~Applies(r)'
    BY AloneParts, RecordNext DEF Record
<1>4. CASE s # t
  <2>1. AlreadyProcessed(s)' = AlreadyProcessed(s)
    BY <1>2, <1>4 DEF AlreadyProcessed, RowFound, Exists
  <2>2. QED
    BY <1>1, <1>2, <1>3, <1>4, <2>1 DEF CodeInv
<1>5. CASE s = t
  <2>1. AlreadyProcessed(t) => req[r].ok
    BY <1>2 DEF AlreadyProcessed
  <2>2. req[r].ok => AlreadyProcessed(t)'
    BY <1>2 DEF AlreadyProcessed, RowFound, StatusOf
  <2>3. plans[t] = 1 => req[r].ok
    BY <1>1, <1>3, <1>5, <2>1 DEF CodeInv, Applies
  <2>4. ASSUME tx'[t] = "SUCCESS", pay[t].method = "VNPAY"
        PROVE  (IF pay[t].fund = NoFund THEN "SPONSOR" ELSE "CONTRIBUTION") \in roles[pay[t].user]
    <3>1. CASE tx[t] = "SUCCESS"
      BY <1>3, <1>5, <2>4, <3>1 DEF CodeInv
    <3>2. CASE tx[t] # "SUCCESS"
      <4>1. Exists(t) /\ req[r].row = "deposit" /\ req[r].ok
        BY <1>2, <2>4, <3>2 DEF StatusOf
      <4>2. Applies(r)
        BY <1>1, <1>3, <3>2, <4>1 DEF Applies, AlreadyProcessed, RowFound
      <4>3. Granted(req[r]) \in roles[pay[t].user]
        BY <1>1, <1>3, <4>2 DEF AnswerInv, Payer
      <4>4. QED
        BY <1>1, <4>1, <4>3 DEF Granted, Donating
    <3>3. QED
      BY <3>1, <3>2
  <2>5. QED
    BY <1>2, <1>3, <1>5, <2>2, <2>3, <2>4 DEF CodeInv
<1>6. QED
    BY <1>4, <1>5

LEMMA AloneRecord ==
    ASSUME NEW r, Alone(r), Record(r)
    PROVE  SerialInv(r)'
<1>1. ASSUME NEW f \in Funds PROVE FundInv(r, f)' /\ LedgerInv(r, f)'
  <2>1. RowsOf(f)' = RowsOf(f) /\ OrdersOf(f)' = OrdersOf(f) /\ LedgerInv(r, f)'
    BY RecordedLedger
  <2>2. FundInv(r, f) /\ ~At(r, "dropPaid") /\ UNCHANGED <<fund, order, closed>>
    BY AloneParts, RecordNext DEF Record
  <2>3. QED
    BY <2>1, <2>2, SameFund
<1>2. QED
    BY <1>1, RecordedCode, RecordNext DEF SerialInv

LEMMA AloneContinues ==
    ASSUME NEW r, Alone(r), Continue(r)
    PROVE  SerialInv(r)'
<1>1. CASE DepositFindOrder(r) \/ DepositNewOrder(r) \/ DepositInsert(r)
    BY <1>1, AloneFindOrder, AloneNewOrder, AloneInsert
<1>2. CASE CreateFundInsert(r) \/ DonateInsert(r) \/ DonateAdd(r) \/ DeleteFundPurge(r) \/ DeleteFundDrop(r)
    BY <1>2, AloneOpenFund, AloneGiftInsert, AloneGiftAdd, AlonePurge, AloneDropFund
<1>3. CASE LookUp(r) \/ CheckMember(r) \/ ReadRole(r) \/ WriteRole(r)
    BY <1>3, AloneLookUp, AloneCheckMember, AloneReadRole, AloneWriteRole
<1>4. CASE ReadFund(r) \/ AddAmount(r) \/ CloseFund(r) \/ DropPaidFund(r) \/ Subscribe(r)
    BY <1>4, AloneReadFund, AloneAddAmount, AloneCloseFund, AloneDropPaid, AloneSubscribe
<1>5. CASE Record(r) \/ SetOrder(r) \/ Recheck(r) \/ CollectOrders(r) \/ MarkPaid(r)
    BY <1>5, AloneRecord, AloneSetOrder, AloneRecheck, AloneCollect, AloneMarkPaid
<1>6. QED
    BY <1>1, <1>2, <1>3, <1>4, <1>5 DEF Continue

\* Nothing the invariant is about changes.
LEMMA AloneUnchanged ==
    ASSUME NEW r, SerialInv(r), UNCHANGED <<fund, tx, pay, late, order, roles, plans, closed, req>>
    PROVE  SerialInv(r)'
<1>1. \A f : RowsOf(f)' = RowsOf(f) /\ Donated(f)' = Donated(f) /\ OrdersOf(f)' = OrdersOf(f)
    BY SameRowsOf
<1>2. \A t : RowFound(t)' = RowFound(t) /\ AlreadyProcessed(t)' = AlreadyProcessed(t)
    BY SameAnswers
<1>3. PICK t, g : t = req[r].txn /\ g = req[r].bill.fund
    OBVIOUS
<1>4. req'[r] = req[r] /\ req'[r].txn = t /\ req'[r].bill.fund = g
    BY <1>3
<1>5. /\ FundOf(r)' = FundOf(r) /\ Payer(r)' = Payer(r)
      /\ Donating(req[r])' = Donating(req[r]) /\ Granted(req[r])' = Granted(req[r])
    BY SamePayment
<1>6. Applies(r)' = Applies(r)
    BY <1>2, <1>3, <1>4 DEF Applies, At
<1>7. \A f : Unadded(r, f)' = Unadded(r, f) /\ Unrecorded(r, f)' = Unrecorded(r, f)
    BY <1>4, <1>5, <1>6 DEF Unadded, Unrecorded, At
<1>8. \A f \in Funds : FundInv(r, f)'
    BY <1>1, <1>4, <1>5 DEF SerialInv, FundInv, At
<1>9. \A f \in Funds : LedgerInv(r, f)'
    BY <1>1, <1>7, SameLedger DEF SerialInv
<1>10. \A s \in Txns : CodeInv(r, s)'
    BY <1>2, <1>4, <1>5, <1>6 DEF SerialInv, CodeInv
<1>11. GiftInv(r)'
  <2>1. OrdersOf(g)' = OrdersOf(g) /\ RowsOf(g)' = RowsOf(g)
    BY <1>1
  <2>2. QED
    BY <1>3, <1>4, <2>1 DEF SerialInv, GiftInv, Gives
<1>12. AnswerInv(r)'
  <2>1. RowFound(t)' = RowFound(t) /\ AlreadyProcessed(t)' = AlreadyProcessed(t)
    BY <1>2
  <2>2. PICK h, u : h = FundOf(r) /\ u = Payer(r)
    OBVIOUS
  <2>3. FundOf(r)' = h /\ Payer(r)' = u
    BY <1>5, <2>2
  <2>4. QED
    BY <1>3, <1>4, <1>5, <1>6, <2>1, <2>2, <2>3 DEF SerialInv, AnswerInv, ApplySteps, GrantedSteps
<1>13. QED
    BY <1>8, <1>9, <1>10, <1>11, <1>12 DEF SerialInv

LEMMA AloneNext ==
    ASSUME NEW CONSTANT r, Requests = {r}, ~Failures, IInv, SerialInv(r), [Next]_vars
    PROVE  SerialInv(r)'
<1>1. Alone(r)
    BY DEF Alone
<1>2. CASE Arrive(r) \/ Continue(r)
    BY <1>1, <1>2, AloneStarts, AloneContinues
<1>3. CASE \E t \in Txns : Decide(t)
    BY <1>3, AloneUnchanged DEF Decide, db
<1>4. CASE \E u \in Users : ChangeMembership(u)
    BY <1>4, AloneUnchanged DEF ChangeMembership
<1>5. CASE UNCHANGED vars
    BY <1>5, AloneUnchanged DEF vars
<1>6. QED
    BY <1>2, <1>3, <1>4, <1>5 DEF Next, Fail

LEMMA AloneInit ==
    ASSUME NEW CONSTANT r, Requests = {r}, Init
    PROVE  SerialInv(r)
<1>1. /\ \A f \in Funds : fund[f].state = "none" /\ fund[f].amount = 0 /\ closed[f] = 0
      /\ \A t \in Txns : tx[t] = "unused" /\ plans[t] = 0 /\ pay[t] = NoBill
      /\ req[r] = IdleReq
    BY DEF Init
<1>2. \A f : RowsOf(f) = {} /\ Donated(f) = {} /\ OrdersOf(f) = {}
    BY <1>1 DEF RowsOf, Exists, RowStatus, Donated, OrdersOf
<1>3. req[r].pc = "idle"
    BY <1>1 DEF IdleReq
<1>4. \A f \in Funds : FundInv(r, f) /\ LedgerInv(r, f)
    BY <1>1, <1>2, FS_EmptySet DEF FundInv, LedgerInv
<1>5. \A t \in Txns : CodeInv(r, t)
    BY <1>1 DEF CodeInv, NoBill
<1>6. GiftInv(r) /\ AnswerInv(r)
    BY <1>3 DEF GiftInv, Gives, AnswerInv, ApplySteps, GrantedSteps, Applies, At
<1>7. QED
    BY <1>4, <1>5, <1>6 DEF SerialInv

-----------------------------------------------------------------------------
(* What a server that serves one request at a time keeps *)

\* One request at a time, none of which dies: what a request has written, and
\* what it still owes, is as the statements of handleCallback, donate and
\* deleteOneInGroup before it left it.
THEOREM SerialInductive ==
    ASSUME NEW CONSTANT r, Requests = {r}, ~Failures
    PROVE  Spec => [](IInv /\ SerialInv(r))
<1>1. Init => SerialInv(r)
    BY AloneInit
<1>2. IInv /\ SerialInv(r) /\ [Next]_vars => SerialInv(r)'
    BY AloneNext
<1>3. QED
    BY <1>1, <1>2, Inductive, PTL DEF Spec

\* Between requests the amount of an open fund is the sum of its successful
\* contributions: donate() writes the row before the amount and handleCallback
\* the amount before the row, and neither is interrupted.
THEOREM LedgerAddsUp ==
    ASSUME NEW CONSTANT r, Requests = {r}, ~Failures
    PROVE  Spec => []FundMatchesLedger
<1>1. IInv /\ SerialInv(r) => FundMatchesLedger
  <2>1. SUFFICES ASSUME IInv, SerialInv(r), Quiet, NEW f \in Funds, fund[f].state = "open"
                 PROVE  fund[f].amount = Total(pay, Donated(f))
    BY DEF FundMatchesLedger, Total
  <2>2. Alone(r) /\ req[r].pc = "idle"
    BY <2>1 DEF Alone, Quiet, At
  <2>3. Unadded(r, f) = 0 /\ Unrecorded(r, f) = 0
    BY <2>2, OwesNothing
  <2>4. fund[f].amount \in Nat /\ Total(pay, Donated(f)) \in Nat
    BY <2>2, AloneType, TotalOfDonated DEF FundRow
  <2>5. QED
    BY <2>1, <2>3, <2>4 DEF SerialInv, LedgerInv
<1>2. QED
    BY <1>1, SerialInductive, PTL

\* A fund with a successful contribution disappears only by being completed:
\* deleteOneInGroup never removes one.
THEOREM FundIsServed ==
    ASSUME NEW CONSTANT r, Requests = {r}, ~Failures
    PROVE  Spec => []ContributorsServed
<1>1. IInv /\ SerialInv(r) => ContributorsServed
  <2>1. SUFFICES ASSUME IInv, SerialInv(r), NEW f \in Funds, fund[f].state = "gone", Donated(f) # {}
                 PROVE  closed[f] > 0
    BY DEF ContributorsServed
  <2>2. RowsOf(f) # {}
    BY <2>1 DEF Donated
  <2>3. closed[f] # 0 /\ closed[f] \in Nat
    BY <2>1, <2>2 DEF SerialInv, FundInv, IInv, TypeOK
  <2>4. QED
    BY <2>3
<1>2. QED
    BY <1>1, SerialInductive, PTL

\* The deposits of a fund share one order, PAID only when the fund is completed
\* or has reached its target.
THEOREM OrderIsShared ==
    ASSUME NEW CONSTANT r, Requests = {r}, ~Failures
    PROVE  Spec => []SharedOrder
<1>1. IInv /\ SerialInv(r) => SharedOrder
  <2>1. SUFFICES ASSUME SerialInv(r), NEW f \in Funds
                 PROVE  /\ Cardinality(OrdersOf(f)) <= 1
                        /\ \A o \in OrdersOf(f) :
                             order[o] = "PAID" => closed[f] > 0 \/ ReachesTarget(fund[f].amount)
    BY DEF SharedOrder
  <2>2. FundInv(r, f)
    BY <2>1 DEF SerialInv
  <2>3. Cardinality(OrdersOf(f)) <= 1
    <3>1. CASE OrdersOf(f) = {}
      BY <3>1, FS_EmptySet
    <3>2. CASE OrdersOf(f) # {}
      <4>1. PICK o : OrdersOf(f) = {o}
        BY <2>2, <3>2 DEF FundInv
      <4>2. Cardinality({o}) = 1
        BY FS_Singleton
      <4>3. QED
        BY <4>1, <4>2
    <3>3. QED
      BY <3>1, <3>2
  <2>4. QED
    BY <2>2, <2>3 DEF FundInv
<1>2. QED
    BY <1>1, SerialInductive, PTL

\* A payer whose payment handleCallback recorded as SUCCESS holds the role it
\* earns: the role is written before the row, and no later callback drops it.
THEOREM RoleIsHeld ==
    ASSUME NEW CONSTANT r, Requests = {r}, ~Failures
    PROVE  Spec => []PayerHasRole
<1>1. IInv /\ SerialInv(r) => PayerHasRole
    BY DEF SerialInv, CodeInv, PayerHasRole
<1>2. QED
    BY <1>1, SerialInductive, PTL

-----------------------------------------------------------------------------
(* A charged payment only moves on, towards its record *)

\* The statements from the role of a charged payer to the update of the row,
\* by the number that is left before it.
Left == [readRole |-> 6, writeRole |-> 5, readFund |-> 4, addAmount |-> 3, closeFund |-> 2,
         dropPaid |-> 1, subscribe |-> 1, record |-> 0]

Owed(q) == q.pc \in DOMAIN Left /\ q.ok

\* The step leaves the row found, or the row inserted when none was, as SUCCESS.
RecordsIt(t) == tx'[t] = "SUCCESS" \/ late'[t] = "SUCCESS"

Nearer(r) == Owed(req'[r]) /\ req'[r].txn = req[r].txn /\ Left[req'[r].pc] < Left[req[r].pc]

\* Only a row that the deletion of its fund took away keeps a callback from it.
MovesOn(r) ==
    LET t == req[r].txn IN
    Owed(req[r]) =>
        \/ req'[r] = req[r]
        \/ Nearer(r)
        \/ RecordsIt(t)
        \/ req[r].row = "deposit" /\ tx[t] = "deleted"
        \/ Failures /\ req'[r] = IdleReq

LEMMA LeftIs ==
    /\ DOMAIN Left = {"readRole", "writeRole", "readFund", "addAmount", "closeFund", "dropPaid",
                      "subscribe", "record"}
    /\ Left["readRole"] = 6 /\ Left["writeRole"] = 5 /\ Left["readFund"] = 4
    /\ Left["addAmount"] = 3 /\ Left["closeFund"] = 2 /\ Left["dropPaid"] = 1
    /\ Left["subscribe"] = 1 /\ Left["record"] = 0
BY DEF Left

\* One request takes each step, and the others are where they were.
LEMMA OneMoves ==
    ASSUME TypeOK, NEW s \in Requests, Arrive(s) \/ Continue(s) \/ Fail(s),
           NEW r \in Requests, r # s
    PROVE  req'[r] = req[r]
<1> USE DEF TypeOK, Start, Become, Goto, Finish
<1>1. CASE Arrive(s)
    BY <1>1 DEF Arrive, DepositStart, DonateStart, CreateFundStart, DeleteFundStart, Callback
<1>2. CASE Continue(s)
    BY <1>2 DEF Continue, DepositFindOrder, DepositNewOrder, DepositInsert, CreateFundInsert,
       DonateInsert, DonateAdd, DeleteFundPurge, DeleteFundDrop, LookUp, CheckMember, ReadRole,
       WriteRole, ReadFund, AddAmount, CloseFund, DropPaidFund, Subscribe, Record, SetOrder,
       Recheck, CollectOrders, MarkPaid
<1>3. CASE Fail(s)
    BY <1>3 DEF Fail
<1>4. QED
    BY SMTT(30), <1>1, <1>2, <1>3

\* The statements that also note what they read keep the callback's answer.
LEMMA NotedFields ==
    ASSUME NEW r \in Requests, TypeOK, NEW step, NEW x,
           \/ Become(r, [req[r] EXCEPT !.pc = step, !.had = x])
           \/ Become(r, [req[r] EXCEPT !.pc = step, !.next = x])
           \/ Become(r, [req[r] EXCEPT !.pc = step, !.reached = x])
    PROVE  /\ req'[r].pc = step /\ req'[r].txn = req[r].txn /\ req'[r].ok = req[r].ok
           /\ req'[r].row = req[r].row
<1>1. CASE Become(r, [req[r] EXCEPT !.pc = step, !.had = x])
    BY <1>1 DEF Become, TypeOK, Request
<1>2. CASE Become(r, [req[r] EXCEPT !.pc = step, !.next = x])
    BY <1>2 DEF Become, TypeOK, Request
<1>3. CASE Become(r, [req[r] EXCEPT !.pc = step, !.reached = x])
    BY <1>3 DEF Become, TypeOK, Request
<1>4. QED
    BY <1>1, <1>2, <1>3

LEMMA ContinueMovesOn ==
    ASSUME IInv, NEW r \in Requests, Continue(r), Owed(req[r])
    PROVE  \/ Nearer(r)
           \/ /\ RecordsIt(req[r].txn) \/ (req[r].row = "deposit" /\ tx[req[r].txn] = "deleted")
              /\ At(r, "record")
<1> DEFINE q == req[r]
           t == q.txn
<1>0. StatusOf(q.ok) = "SUCCESS"
    BY DEF Owed, StatusOf
<1>1. /\ TypeOK /\ q \in Request /\ q.pc \in CallbackSteps /\ t \in Txns
      /\ outcome[t] # "unsent"
  <2>1. q.pc \in CallbackSteps
    BY LeftIs DEF Owed, CallbackSteps
  <2>2. QED
    BY <2>1 DEF IInv, TypeOK, ReqInv
<1>2. ASSUME NEW step, Goto(r, step), step \in DOMAIN Left, Left[step] < Left[q.pc]
      PROVE  Nearer(r)
    BY <1>1, <1>2, GotoFields DEF Nearer, Owed
<1>3. ASSUME NEW step, step \in DOMAIN Left, Left[step] < Left[q.pc],
             req'[r].pc = step /\ req'[r].txn = t /\ req'[r].ok = q.ok
      PROVE  Nearer(r)
    BY <1>3 DEF Nearer, Owed
<1>4. Apply(q) \in {"readFund", "subscribe"}
    BY DEF Apply
<1>5. CASE ReadRole(r)
  <2>1. q.pc = "readRole"
    BY <1>5 DEF ReadRole, At
  <2>2. CASE Goto(r, Apply(q))
    BY <1>2, <1>4, <2>1, <2>2, LeftIs
  <2>3. CASE Become(r, [q EXCEPT !.pc = "writeRole", !.had = roles[Payer(r)]])
    <3>1. req'[r].pc = "writeRole" /\ req'[r].txn = t /\ req'[r].ok = q.ok
      BY <1>1, <2>3, NotedFields
    <3>2. QED
      BY SMTT(30), <1>3, <2>1, <3>1, LeftIs
  <2>4. QED
    BY <1>5, <2>2, <2>3 DEF ReadRole
<1>6. CASE WriteRole(r)
  <2>1. q.pc = "writeRole" /\ Become(r, [q EXCEPT !.pc = Apply(q), !.had = {}])
    BY SMTT(30), <1>6 DEF WriteRole, At
  <2>2. req'[r].pc = Apply(q) /\ req'[r].txn = t /\ req'[r].ok = q.ok
    BY <1>1, <2>1, NotedFields
  <2>3. QED
    BY <1>3, <1>4, <2>1, <2>2, LeftIs
<1>7. CASE ReadFund(r)
  <2>1. q.pc = "readFund"
    BY <1>7 DEF ReadFund, At
  <2>2. CASE Become(r, [q EXCEPT !.pc = "addAmount",
                                 !.next = fund[FundOf(r)].amount + pay[t].amount])
    <3>1. req'[r].pc = "addAmount" /\ req'[r].txn = t /\ req'[r].ok = q.ok
      BY <1>1, <2>2, NotedFields
    <3>2. QED
      BY SMTT(30), <1>3, <2>1, <3>1, LeftIs
  <2>3. CASE Become(r, [q EXCEPT !.pc = "record", !.reached = TRUE])
    <3>1. req'[r].pc = "record" /\ req'[r].txn = t /\ req'[r].ok = q.ok
      BY <1>1, <2>3, NotedFields
    <3>2. QED
      BY SMTT(30), <1>3, <2>1, <3>1, LeftIs
  <2>4. QED
    BY <1>7, <2>2, <2>3 DEF ReadFund
<1>8. CASE AddAmount(r)
    BY <1>2, <1>8, LeftIs DEF AddAmount, At
<1>9. CASE CloseFund(r)
    BY <1>2, <1>9, LeftIs DEF CloseFund, At
<1>10. CASE DropPaidFund(r)
  <2>1. q.pc = "dropPaid" /\ Become(r, [q EXCEPT !.pc = "record", !.reached = TRUE])
    BY SMTT(30), <1>10 DEF DropPaidFund, At
  <2>2. req'[r].pc = "record" /\ req'[r].txn = t /\ req'[r].ok = q.ok
    BY <1>1, <2>1, NotedFields
  <2>3. QED
    BY <1>3, <2>1, <2>2, LeftIs
<1>11. CASE Subscribe(r)
    BY <1>2, <1>11, LeftIs DEF Subscribe, At
<1>12. CASE Record(r)
  <2>1. q.pc = "record"
    BY <1>12 DEF Record, At
  <2>2. CASE q.row # "deposit"
    <3>1. late' = [late EXCEPT ![t] = "SUCCESS"]
      BY <1>0, <1>12, <2>2 DEF Record
    <3>2. late'[t] = "SUCCESS"
      BY <1>1, <3>1 DEF TypeOK
    <3>3. QED
      BY <2>1, <3>2 DEF RecordsIt, At
  <2>3. CASE q.row = "deposit" /\ Exists(t)
    <3>1. tx' = [tx EXCEPT ![t] = "SUCCESS"]
      BY <1>0, <1>12, <2>3 DEF Record
    <3>2. tx'[t] = "SUCCESS"
      BY <1>1, <3>1 DEF TypeOK
    <3>3. QED
      BY <2>1, <3>2 DEF RecordsIt, At
  <2>4. CASE ~Exists(t)
    <3>1. tx[t] \in {"unused", "deleted"}
      BY <1>1, <2>4 DEF Exists, TypeOK
    <3>2. tx[t] # "unused"
      BY SMTT(30), <1>1 DEF IInv, RowInv
    <3>3. QED
      BY <2>1, <2>2, <3>1, <3>2 DEF At
  <2>5. QED
    BY <2>1, <2>2, <2>3, <2>4 DEF At
<1>13. \/ ReadRole(r) \/ WriteRole(r) \/ ReadFund(r) \/ AddAmount(r) \/ CloseFund(r)
       \/ DropPaidFund(r) \/ Subscribe(r) \/ Record(r)
    BY LeftIs DEF Owed, Continue, At, DepositFindOrder, DepositNewOrder, DepositInsert,
       CreateFundInsert, DonateInsert, DonateAdd, DeleteFundPurge, DeleteFundDrop, LookUp,
       CheckMember, SetOrder, Recheck, CollectOrders, MarkPaid
<1>14. QED
    BY <1>5, <1>6, <1>7, <1>8, <1>9, <1>10, <1>11, <1>12, <1>13

\* What a step does to a callback that owes the row of a charged payment.
LEMMA OwedMoves ==
    ASSUME IInv, [Next]_vars, NEW r \in Requests, Owed(req[r])
    PROVE  \/ req'[r] = req[r]
           \/ Continue(r)
           \/ Failures /\ req'[r] = IdleReq
<1>1. TypeOK
    BY DEF IInv
<1>2. ~At(r, "idle")
    BY LeftIs DEF Owed, At
<1>3. ~Arrive(r)
    BY <1>2 DEF Arrive, Start, DepositStart, DonateStart, CreateFundStart, DeleteFundStart, Callback
<1>4. Fail(r) => Failures /\ req'[r] = IdleReq
    BY <1>1, BecomeIs DEF Fail, Finish
<1>5. (\E t \in Txns : Decide(t)) \/ (\E u \in Users : ChangeMembership(u)) \/ UNCHANGED vars
      => req' = req
    BY DEF Decide, ChangeMembership, vars
<1>6. QED
    BY <1>1, <1>3, <1>4, <1>5, OneMoves DEF Next

(***************************************************************************)
(* However requests interleave and die, a callback that has found the      *)
(* payer of a charged payment moves on only towards its record, and ends   *)
(* only by recording it as SUCCESS, unless it dies or the deletion of the  *)
(* fund has removed the row (handleCallback has no return in between).     *)
(* This is what ChargedIsSettled needs beside the fairness of statements.  *)
(***************************************************************************)
THEOREM ChargedMovesOn == Spec => [][\A r \in Requests : MovesOn(r)]_vars
<1>1. ASSUME IInv, [Next]_vars, NEW r \in Requests PROVE MovesOn(r)
    BY <1>1, OwedMoves, ContinueMovesOn DEF MovesOn
<1>2. IInv /\ [Next]_vars => [\A r \in Requests : MovesOn(r)]_vars
    BY <1>1
<1>3. QED
    BY <1>2, Inductive, PTL DEF Spec

(***************************************************************************)
(* Served one at a time, and if the process does not die, such a callback  *)
(* has no other way to end: the row it found is still there (handleCallback*)
(* and deleteOneInGroup do not overlap).                                   *)
(***************************************************************************)
THEOREM ChargedIsRecorded ==
    ASSUME NEW CONSTANT r, Requests = {r}, ~Failures
    PROVE  Spec => [][Owed(req[r]) => \/ req'[r] = req[r]
                                     \/ Nearer(r)
                                     \/ RecordsIt(req[r].txn)]_vars
<1>1. ASSUME IInv, SerialInv(r), [Next]_vars, Owed(req[r])
      PROVE  req'[r] = req[r] \/ Nearer(r) \/ RecordsIt(req[r].txn)
  <2>1. At(r, "record") /\ req[r].row = "deposit" => tx[req[r].txn] # "deleted"
    BY <1>1 DEF SerialInv, AnswerInv, At, RowFound, Exists, RowStatus
  <2>2. r \in Requests
    OBVIOUS
  <2>3. QED
    BY <1>1, <2>1, <2>2, OwedMoves, ContinueMovesOn
<1>2. IInv /\ SerialInv(r) /\ [Next]_vars =>
        [Owed(req[r]) => req'[r] = req[r] \/ Nearer(r) \/ RecordsIt(req[r].txn)]_vars
    BY <1>1
<1>3. QED
    BY <1>2, SerialInductive, PTL DEF Spec

-----------------------------------------------------------------------------
(* Callbacks that overlap apply a payment no more often than there are of them *)

\* Counting: n was applied, A are about to apply it (B after a step of r), and H
\* have and are still to close it (K after the step).  Whoever finds it open joins
\* A, applying it moves r from A to K.
LEMMA AppliesOnce ==
    ASSUME IsFiniteSet(Requests), NEW r \in Requests, NEW n \in Nat,
           NEW A \in SUBSET Requests, NEW B \in SUBSET Requests,
           NEW H \in SUBSET Requests, NEW K \in SUBSET Requests,
           n + Cardinality(A) <= Cardinality(Requests), A \cap H = {}
    PROVE  /\ B \subseteq A => n + Cardinality(B) <= Cardinality(Requests)
           /\ B \subseteq A \cup {r} /\ r \notin A \cup H /\ n <= Cardinality(H)
                => n + Cardinality(B) <= Cardinality(Requests)
           /\ r \in A /\ B \subseteq A \ {r} => (n + 1) + Cardinality(B) <= Cardinality(Requests)
           /\ n <= Cardinality(H) /\ H \subseteq K => n <= Cardinality(K)
           /\ n <= Cardinality(H) /\ r \in A /\ H \cup {r} \subseteq K => n + 1 <= Cardinality(K)
<1>1. \A S \in SUBSET Requests : /\ IsFiniteSet(S) /\ Cardinality(S) \in Nat
                                 /\ Cardinality(S) <= Cardinality(Requests)
    BY FS_Subset, FS_CardinalityType
<1>2. \A S, T \in SUBSET Requests : S \subseteq T => Cardinality(S) <= Cardinality(T)
    BY <1>1, FS_Subset
<1>3. \A S \in SUBSET Requests :
        r \notin S => S \cup {r} \in SUBSET Requests /\ Cardinality(S \cup {r}) = Cardinality(S) + 1
    BY <1>1, FS_AddElement
<1>4. \A S \in SUBSET Requests :
        r \in S => S \ {r} \in SUBSET Requests /\ Cardinality(S \ {r}) = Cardinality(S) - 1
    BY <1>1, FS_RemoveElement
<1>5. Cardinality(Requests) \in Nat
    BY FS_CardinalityType
<1>6. ASSUME B \subseteq A PROVE n + Cardinality(B) <= Cardinality(Requests)
  <2>1. Cardinality(B) <= Cardinality(A) /\ Cardinality(A) \in Nat /\ Cardinality(B) \in Nat
    BY <1>1, <1>2, <1>6
  <2>2. QED
    BY <1>5, <2>1
<1>7. ASSUME B \subseteq A \cup {r}, r \notin A \cup H, n <= Cardinality(H)
      PROVE  n + Cardinality(B) <= Cardinality(Requests)
  <2>1. Cardinality(B) <= Cardinality(A) + 1
    <3>1. r \notin A
      BY <1>7
    <3>2. A \cup {r} \in SUBSET Requests /\ Cardinality(A \cup {r}) = Cardinality(A) + 1
      BY <1>3, <3>1
    <3>3. Cardinality(B) <= Cardinality(A \cup {r})
      BY <1>2, <1>7, <3>2
    <3>4. QED
      BY <3>2, <3>3
  <2>2. Cardinality(A \cup H) = Cardinality(A) + Cardinality(H)
    <3>1. IsFiniteSet(A) /\ IsFiniteSet(H) /\ Cardinality(A) \in Nat /\ Cardinality(H) \in Nat
      BY <1>1
    <3>2. Cardinality(A \cup H) = Cardinality(A) + Cardinality(H) - Cardinality(A \cap H)
      BY <3>1, FS_Union
    <3>3. Cardinality(A \cap H) = 0
      BY FS_EmptySet
    <3>4. QED
      BY <3>1, <3>2, <3>3
  <2>3. Cardinality(A \cup H) + 1 <= Cardinality(Requests)
    <3>1. A \cup H \in SUBSET Requests /\ r \notin A \cup H
      BY <1>7
    <3>2. Cardinality((A \cup H) \cup {r}) = Cardinality(A \cup H) + 1
      BY <1>3, <3>1
    <3>3. Cardinality((A \cup H) \cup {r}) <= Cardinality(Requests)
      BY <1>1, <1>3, <3>1
    <3>4. QED
      BY <3>2, <3>3
  <2>4. Cardinality(A) \in Nat /\ Cardinality(H) \in Nat /\ Cardinality(B) \in Nat
    BY <1>1
  <2>5. QED
    BY <1>5, <1>7, <2>1, <2>2, <2>3, <2>4
<1>8. ASSUME r \in A, B \subseteq A \ {r} PROVE (n + 1) + Cardinality(B) <= Cardinality(Requests)
  <2>1. Cardinality(B) <= Cardinality(A) - 1
    <3>1. A \ {r} \in SUBSET Requests /\ Cardinality(A \ {r}) = Cardinality(A) - 1
      BY <1>4, <1>8
    <3>2. Cardinality(B) <= Cardinality(A \ {r})
      BY <1>2, <1>8, <3>1
    <3>3. QED
      BY <3>1, <3>2
  <2>2. Cardinality(A) \in Nat /\ Cardinality(B) \in Nat
    BY <1>1
  <2>3. QED
    BY <1>5, <2>1, <2>2
<1>9. ASSUME n <= Cardinality(H), H \subseteq K PROVE n <= Cardinality(K)
  <2>1. Cardinality(H) <= Cardinality(K) /\ Cardinality(H) \in Nat /\ Cardinality(K) \in Nat
    BY <1>1, <1>2, <1>9
  <2>2. QED
    BY <1>9, <2>1
<1>10. ASSUME n <= Cardinality(H), r \in A, H \cup {r} \subseteq K PROVE n + 1 <= Cardinality(K)
  <2>1. r \notin H
    BY <1>10
  <2>2. Cardinality(H) + 1 <= Cardinality(K)
    <3>1. H \cup {r} \in SUBSET Requests /\ Cardinality(H \cup {r}) = Cardinality(H) + 1
      BY <1>3, <2>1
    <3>2. Cardinality(H \cup {r}) <= Cardinality(K)
      BY <1>2, <1>10, <3>1
    <3>3. QED
      BY <3>1, <3>2
  <2>3. Cardinality(H) \in Nat /\ Cardinality(K) \in Nat
    BY <1>1
  <2>4. QED
    BY <1>10, <2>2, <2>3
<1>11. QED
    BY <1>6, <1>7, <1>8, <1>9, <1>10

\* The callbacks that are about to grant the plan of a payment, those that have
\* and are to record it, and whether its row says so.
Buying(t) == {r \in Requests : /\ req[r].pc \in {"member", "readRole", "writeRole", "subscribe"}
                               /\ req[r].txn = t /\ ~Donating(req[r])}

Bought(t) == {r \in Requests : At(r, "record") /\ req[r].ok /\ req[r].txn = t /\ ~Donating(req[r])}

Settled(t) == IF pay[t].fund = NoFund THEN tx[t] = "SUCCESS" ELSE late[t] = "SUCCESS"

\* The callbacks that are about to complete a fund, and those that have and are
\* to delete it.
Completing(f) == {r \in Requests : req[r].pc \in {"addAmount", "closeFund"} /\ FundOf(r) = f}

Completed(f) == {r \in Requests : At(r, "dropPaid") /\ FundOf(r) = f}

Gone(f) == fund[f].state = "gone"

OnceInv ==
    /\ \A t \in Txns : /\ outcome[t] = "unsent" => plans[t] = 0
                       /\ plans[t] + Cardinality(Buying(t)) <= Cardinality(Requests)
                       /\ ~Settled(t) => plans[t] <= Cardinality(Bought(t))
    /\ \A f \in Funds : /\ closed[f] + Cardinality(Completing(f)) <= Cardinality(Requests)
                        /\ ~Gone(f) => closed[f] <= Cardinality(Completed(f))

\* The columns of a row stay once its payment is at the gateway.
LEMMA BillStays ==
    ASSUME IInv, [Next]_vars, NEW t \in Txns, outcome[t] # "unsent"
    PROVE  pay'[t] = pay[t] /\ tx[t] # "unused"
<1>1. tx[t] # "unused"
    BY DEF IInv, RowInv
<1>2. ASSUME NEW r \in Requests, DepositInsert(r) \/ DonateInsert(r) PROVE pay'[t] = pay[t]
  <2>1. req[r].pc \in DepositSteps /\ pay' = [pay EXCEPT ![req[r].txn] = req[r].bill]
    BY <1>2 DEF DepositInsert, DonateInsert, At, DepositSteps
  <2>2. tx[req[r].txn] = "unused"
    BY <2>1, DepositFacts
  <2>3. QED
    BY <1>1, <2>1, <2>2 DEF IInv, TypeOK
<1>3. ASSUME NEW r \in Requests, Arrive(r) \/ Fail(r) PROVE pay' = pay
    BY <1>3 DEF Arrive, Fail, DepositStart, DonateStart, CreateFundStart, DeleteFundStart, Callback, db
<1>4. ASSUME NEW r \in Requests, Continue(r), ~DepositInsert(r), ~DonateInsert(r) PROVE pay' = pay
    BY <1>4 DEF Continue, DepositFindOrder, DepositNewOrder, CreateFundInsert, DonateAdd,
       DeleteFundPurge, DeleteFundDrop, LookUp, CheckMember, ReadRole, WriteRole, ReadFund,
       AddAmount, CloseFund, DropPaidFund, Subscribe, Record, SetOrder, Recheck, CollectOrders,
       MarkPaid, db
<1>5. ASSUME (\E x \in Txns : Decide(x)) \/ (\E u \in Users : ChangeMembership(u)) \/ UNCHANGED vars
      PROVE  pay' = pay
    BY <1>5 DEF Decide, ChangeMembership, vars, db
<1>6. QED
    BY <1>1, <1>2, <1>3, <1>4, <1>5 DEF Next

\* A payment that is settled stays so: only a decided callback writes its rows.
LEMMA SettledStays ==
    ASSUME IInv, [Next]_vars, NEW t \in Txns, Settled(t), outcome[t] # "unsent"
    PROVE  Settled(t)'
<1>1. outcome[t] = "success" /\ pay'[t] = pay[t]
    BY BillStays DEF IInv, RowInv, Settled
<1>2. ASSUME NEW r \in Requests, Record(r) PROVE Settled(t)'
  <2>1. req[r].txn = t => req[r].ok
    BY <1>1, <1>2 DEF Record, At, IInv, ReqInv, CallbackSteps
  <2>2. req[r].txn \in Txns
    BY <1>2, CallbackFacts DEF Record, At, CallbackSteps
  <2>3. /\ tx[t] = "SUCCESS" => tx'[t] = "SUCCESS"
        /\ late[t] = "SUCCESS" => late'[t] = "SUCCESS"
    BY <1>2, <2>1, <2>2 DEF Record, StatusOf, IInv, TypeOK
  <2>4. QED
    BY <1>1, <2>3 DEF Settled
<1>3. ASSUME NEW r \in Requests, DepositInsert(r) \/ DonateInsert(r) PROVE Settled(t)'
  <2>1. req[r].pc \in DepositSteps /\ (UNCHANGED late)
        /\ \E x : tx' = [tx EXCEPT ![req[r].txn] = x]
    BY <1>3 DEF DepositInsert, DonateInsert, At, DepositSteps
  <2>2. tx[req[r].txn] = "unused" /\ tx[t] # "unused"
    BY <2>1, DepositFacts, BillStays
  <2>3. QED
    BY <1>1, <2>1, <2>2 DEF Settled, IInv, TypeOK
<1>4. ASSUME NEW r \in Requests, DeleteFundPurge(r) PROVE Settled(t)'
  <2>1. UNCHANGED late /\ (tx[t] = "SUCCESS" => tx'[t] = "SUCCESS")
    BY <1>4 DEF DeleteFundPurge, Purgeable
  <2>2. QED
    BY <1>1, <2>1 DEF Settled
<1>5. ASSUME UNCHANGED <<tx, late>> PROVE Settled(t)'
    BY <1>1, <1>5 DEF Settled
<1>6. ASSUME NEW r \in Requests, Arrive(r) \/ Fail(r) PROVE UNCHANGED <<tx, late>>
    BY <1>6 DEF Arrive, Fail, DepositStart, DonateStart, CreateFundStart, DeleteFundStart, Callback, db
<1>7. ASSUME NEW r \in Requests, Continue(r), ~DepositInsert(r), ~DonateInsert(r),
             ~DeleteFundPurge(r), ~Record(r)
      PROVE  UNCHANGED <<tx, late>>
    BY <1>7 DEF Continue, DepositFindOrder, DepositNewOrder, CreateFundInsert, DonateAdd,
       DeleteFundDrop, LookUp, CheckMember, ReadRole, WriteRole, ReadFund, AddAmount, CloseFund,
       DropPaidFund, Subscribe, SetOrder, Recheck, CollectOrders, MarkPaid, db
<1>8. ASSUME (\E x \in Txns : Decide(x)) \/ (\E u \in Users : ChangeMembership(u)) \/ UNCHANGED vars
      PROVE  UNCHANGED <<tx, late>>
    BY <1>8 DEF Decide, ChangeMembership, vars, db
<1>9. QED
    BY <1>2, <1>3, <1>4, <1>5, <1>6, <1>7, <1>8 DEF Next

\* A payment that was sent to the gateway stays there.
LEMMA SentStays ==
    ASSUME IInv, [Next]_vars, NEW t \in Txns, outcome[t] # "unsent"
    PROVE  outcome'[t] # "unsent"
<1>1. ASSUME NEW r \in Requests, DepositInsert(r) PROVE outcome'[t] # "unsent"
    BY <1>1 DEF DepositInsert, IInv, TypeOK
<1>2. ASSUME NEW x \in Txns, Decide(x) PROVE outcome'[t] # "unsent"
    BY <1>2 DEF Decide, IInv, TypeOK
<1>3. ASSUME NEW r \in Requests, Arrive(r) \/ Fail(r) PROVE UNCHANGED outcome
    BY <1>3 DEF Arrive, Fail, DepositStart, DonateStart, CreateFundStart, DeleteFundStart, Callback
<1>4. ASSUME NEW r \in Requests, Continue(r), ~DepositInsert(r) PROVE UNCHANGED outcome
    BY <1>4 DEF Continue, DepositFindOrder, DepositNewOrder, CreateFundInsert, DonateInsert,
       DonateAdd, DeleteFundPurge, DeleteFundDrop, LookUp, CheckMember, ReadRole, WriteRole,
       ReadFund, AddAmount, CloseFund, DropPaidFund, Subscribe, Record, SetOrder, Recheck,
       CollectOrders, MarkPaid
<1>5. ASSUME (\E u \in Users : ChangeMembership(u)) \/ UNCHANGED vars PROVE UNCHANGED outcome
    BY <1>5 DEF ChangeMembership, vars
<1>6. QED
    BY <1>1, <1>2, <1>3, <1>4, <1>5 DEF Next

\* A fund that is gone stays gone: its id is not taken again.
LEMMA GoneStays ==
    ASSUME IInv, [Next]_vars, NEW f \in Funds, Gone(f)
    PROVE  Gone(f)'
<1>1. fund \in [Funds -> FundRow]
    BY SMTT(30) DEF IInv, TypeOK
<1>2. ASSUME NEW r \in Requests, Continue(r) PROVE Gone(f)'
  <2>1. ASSUME CreateFundInsert(r) PROVE Gone(f)'
    BY <1>1, <2>1 DEF CreateFundInsert, Gone
  <2>2. ASSUME NEW g, NEW a, WriteAmount(g, a) PROVE Gone(f)'
    BY <1>1, <2>2 DEF WriteAmount, Gone
  <2>3. ASSUME NEW g, DropFund(g) PROVE Gone(f)'
    BY <1>1, <2>3 DEF DropFund, Gone
  <2>4. ASSUME UNCHANGED fund PROVE Gone(f)'
    BY <2>4 DEF Gone
  <2>5. QED
    BY <1>2, <2>1, <2>2, <2>3, <2>4 DEF Continue, DepositFindOrder, DepositNewOrder,
       DepositInsert, DonateInsert, DonateAdd, DeleteFundPurge, DeleteFundDrop, LookUp,
       CheckMember, ReadRole, WriteRole, ReadFund, AddAmount, CloseFund, DropPaidFund, Subscribe,
       Record, SetOrder, Recheck, CollectOrders, MarkPaid, db
<1>3. ASSUME NEW r \in Requests, Arrive(r) \/ Fail(r) PROVE UNCHANGED fund
    BY <1>3 DEF Arrive, Fail, DepositStart, DonateStart, CreateFundStart, DeleteFundStart, Callback, db
<1>4. ASSUME (\E x \in Txns : Decide(x)) \/ (\E u \in Users : ChangeMembership(u)) \/ UNCHANGED vars
      PROVE  UNCHANGED fund
    BY <1>4 DEF Decide, ChangeMembership, vars, db
<1>5. QED
    BY <1>2, <1>3, <1>4 DEF Next, Gone

\* What a callback that was found says of itself, for as long as it runs.
LEMMA SameCallback ==
    ASSUME IInv, [Next]_vars, NEW r \in Requests, req'[r] = req[r]
    PROVE  /\ \A t \in Txns : /\ r \in Buying(t)' <=> r \in Buying(t)
                              /\ r \in Bought(t)' <=> r \in Bought(t)
           /\ \A f \in Funds : /\ r \in Completing(f)' <=> r \in Completing(f)
                               /\ r \in Completed(f)' <=> r \in Completed(f)
<1>1. CASE req[r].pc \notin CallbackSteps
    BY <1>1 DEF Buying, Bought, Completing, Completed, At, CallbackSteps
<1>2. CASE req[r].pc \in CallbackSteps
  <2>1. pay'[req[r].txn] = pay[req[r].txn]
    BY <1>2, BillStays DEF IInv, ReqInv
  <2>2. Donating(req[r])' <=> Donating(req[r])
    BY <2>1 DEF Donating
  <2>3. FundOf(r)' = FundOf(r)
    BY <2>1 DEF FundOf
  <2>4. QED
    BY <2>2, <2>3 DEF Buying, Bought, Completing, Completed, At
<1>3. QED
    BY <1>1, <1>2

\* A request outside the statements that count is in none of the sets.
LEMMA NotCounted ==
    ASSUME NEW r \in Requests,
           req[r].pc \notin {"member", "readRole", "writeRole", "subscribe", "record", "addAmount",
                             "closeFund", "dropPaid"}
    PROVE  /\ \A t \in Txns : r \notin Buying(t) /\ r \notin Bought(t)
           /\ \A f \in Funds : r \notin Completing(f) /\ r \notin Completed(f)
    BY DEF Buying, Bought, Completing, Completed, At

\* The statements that apply nothing: a callback stays among those it is of, and
\* leaves the ones that have applied the payment only by recording it.
Idles(r) ==
    /\ UNCHANGED <<plans, closed>>
    /\ \A t \in Txns : /\ r \in Buying(t)' => r \in Buying(t)
                       /\ r \in Bought(t) => r \in Bought(t)' \/ Settled(t)'
    /\ \A f \in Funds : /\ r \in Completing(f)' => r \in Completing(f)
                        /\ r \in Completed(f) => r \in Completed(f)' \/ Gone(f)'

\* A callback finds a payment that is not settled, or a fund that is there.
Joins(r) ==
    /\ UNCHANGED <<plans, closed>>
    /\ \A t \in Txns : r \in Buying(t)' => ~Settled(t)
    /\ \A f \in Funds : r \in Completing(f)' => ~Gone(f)
    /\ \A t \in Txns : r \notin Buying(t) /\ r \notin Bought(t)
    /\ \A f \in Funds : r \notin Completing(f) /\ r \notin Completed(f)

\* It grants the plan, or completes the fund.
Grants(r, t) ==
    /\ plans' = [plans EXCEPT ![t] = @ + 1] /\ UNCHANGED closed
    /\ r \in Buying(t) /\ r \in Bought(t)'
    /\ \A x \in Txns : /\ r \notin Buying(x)'
                       /\ r \notin Bought(x)
    /\ \A f \in Funds : /\ r \notin Completing(f)' /\ r \notin Completed(f)

Completes(r, f) ==
    /\ closed' = [closed EXCEPT ![f] = @ + 1] /\ UNCHANGED plans
    /\ r \in Completing(f) /\ r \in Completed(f)'
    /\ \A g \in Funds : /\ r \notin Completing(g)'
                        /\ r \notin Completed(g)
    /\ \A t \in Txns : /\ r \notin Buying(t)' /\ r \notin Bought(t)

LEMMA OnceKept ==
    ASSUME IsFiniteSet(Requests), IInv, IInv', [Next]_vars, OnceInv, NEW r \in Requests,
           \A s \in Requests \ {r} : req'[s] = req[s],
           \/ Idles(r)
           \/ Joins(r)
           \/ \E t \in Txns : outcome[t] # "unsent" /\ Grants(r, t)
           \/ \E f \in Funds : Completes(r, f)
    PROVE  OnceInv'
<1> DEFINE N == Cardinality(Requests)
<1>1. ASSUME NEW t \in Txns
      PROVE  /\ plans[t] \in Nat /\ plans'[t] \in Nat
             /\ Buying(t) \in SUBSET Requests /\ Buying(t)' \in SUBSET Requests
             /\ Bought(t) \in SUBSET Requests /\ Bought(t)' \in SUBSET Requests
             /\ Buying(t) \cap Bought(t) = {}
             /\ r \notin Buying(t)' => Buying(t)' \subseteq Buying(t) \ {r}
             /\ Buying(t)' \subseteq Buying(t) \cup {r}
             /\ Bought(t) \ {r} \subseteq Bought(t)'
  <2>1. plans[t] \in Nat /\ plans'[t] \in Nat
    BY DEF IInv, TypeOK
  <2>2. /\ Buying(t) \in SUBSET Requests /\ Buying(t)' \in SUBSET Requests
        /\ Bought(t) \in SUBSET Requests /\ Bought(t)' \in SUBSET Requests
        /\ Buying(t) \cap Bought(t) = {}
    BY DEF Buying, Bought, At
  <2>3. ASSUME NEW s \in Requests \ {r}
        PROVE  /\ s \in Buying(t)' <=> s \in Buying(t)
               /\ s \in Bought(t)' <=> s \in Bought(t)
    BY <2>3, SameCallback
  <2>4. QED
    BY <2>1, <2>2, <2>3
<1>2. ASSUME NEW f \in Funds
      PROVE  /\ closed[f] \in Nat /\ closed'[f] \in Nat
             /\ Completing(f) \in SUBSET Requests /\ Completing(f)' \in SUBSET Requests
             /\ Completed(f) \in SUBSET Requests /\ Completed(f)' \in SUBSET Requests
             /\ Completing(f) \cap Completed(f) = {}
             /\ r \notin Completing(f)' => Completing(f)' \subseteq Completing(f) \ {r}
             /\ Completing(f)' \subseteq Completing(f) \cup {r}
             /\ Completed(f) \ {r} \subseteq Completed(f)'
  <2>1. closed[f] \in Nat /\ closed'[f] \in Nat
    BY DEF IInv, TypeOK
  <2>2. /\ Completing(f) \in SUBSET Requests /\ Completing(f)' \in SUBSET Requests
        /\ Completed(f) \in SUBSET Requests /\ Completed(f)' \in SUBSET Requests
        /\ Completing(f) \cap Completed(f) = {}
    BY DEF Completing, Completed, At
  <2>3. ASSUME NEW s \in Requests \ {r}
        PROVE  /\ s \in Completing(f)' <=> s \in Completing(f)
               /\ s \in Completed(f)' <=> s \in Completed(f)
    BY <2>3, SameCallback
  <2>4. QED
    BY <2>1, <2>2, <2>3
<1>3. ASSUME NEW t \in Txns
      PROVE  /\ outcome'[t] = "unsent" => outcome[t] = "unsent"
             /\ outcome[t] # "unsent" => (~Settled(t)' => ~Settled(t))
  <2>1. outcome'[t] = "unsent" => outcome[t] = "unsent"
    BY SentStays
  <2>2. QED
    BY <2>1, SettledStays
<1>4. ASSUME NEW f \in Funds PROVE ~Gone(f)' => ~Gone(f)
    BY GoneStays
<1>5. ASSUME NEW t \in Txns
      PROVE  /\ outcome'[t] = "unsent" => plans'[t] = 0
             /\ plans'[t] + Cardinality(Buying(t)') <= N
             /\ ~Settled(t)' => plans'[t] <= Cardinality(Bought(t)')
  <2>1. /\ outcome[t] = "unsent" => plans[t] = 0
        /\ plans[t] + Cardinality(Buying(t)) <= N
        /\ ~Settled(t) => plans[t] <= Cardinality(Bought(t))
    BY DEF OnceInv
  <2> DEFINE A == Buying(t)
             B == Buying(t)'
             H == Bought(t)
             K == Bought(t)'
             n == plans[t]
             m == plans'[t]
  <2>2. /\ B \subseteq A => n + Cardinality(B) <= N
        /\ B \subseteq A \cup {r} /\ r \notin A \cup H /\ n <= Cardinality(H)
             => n + Cardinality(B) <= N
        /\ r \in A /\ B \subseteq A \ {r} => (n + 1) + Cardinality(B) <= N
        /\ n <= Cardinality(H) /\ H \subseteq K => n <= Cardinality(K)
        /\ n <= Cardinality(H) /\ r \in A /\ H \cup {r} \subseteq K => n + 1 <= Cardinality(K)
    BY <1>1, <2>1, AppliesOnce
  <2>3. K \in SUBSET Requests /\ Cardinality(K) \in Nat
    BY <1>1, FS_Subset, FS_CardinalityType
  <2> HIDE DEF N
  <2>4. CASE Idles(r)
    <3>1. m = n /\ B \subseteq A /\ (~Settled(t)' => H \subseteq K)
      BY <1>1, <2>4 DEF Idles
    <3>2. QED
      BY <1>1, <1>3, <2>1, <2>2, <2>3, <3>1
  <2>5. CASE Joins(r)
    <3>1. m = n /\ H \subseteq K /\ r \notin A \cup H /\ (B \subseteq A \/ ~Settled(t)) /\ B \subseteq A \cup {r}
      BY <1>1, <2>5 DEF Joins
    <3>2. QED
      BY <1>1, <1>3, <2>1, <2>2, <2>3, <3>1
  <2>6. ASSUME NEW x \in Txns, outcome[x] # "unsent", Grants(r, x) PROVE <1>5!2
    <3>1. CASE x = t
      <4>1. m = n + 1 /\ r \in A /\ B \subseteq A \ {r} /\ H \cup {r} \subseteq K
        BY <1>1, <2>6, <3>1 DEF Grants, IInv, TypeOK
      <4>2. QED
        BY <1>1, <1>3, <2>1, <2>2, <2>6, <3>1, <4>1
    <3>2. CASE x # t
      <4>1. m = n /\ B \subseteq A /\ H \subseteq K
        BY <1>1, <2>6, <3>2 DEF Grants, IInv, TypeOK
      <4>2. QED
        BY <1>1, <1>3, <2>1, <2>2, <2>3, <4>1
    <3>3. QED
      BY <3>1, <3>2
  <2>7. ASSUME NEW f \in Funds, Completes(r, f) PROVE <1>5!2
    <3>1. m = n /\ B \subseteq A /\ H \subseteq K
      BY <1>1, <2>7 DEF Completes
    <3>2. QED
      BY <1>1, <1>3, <2>1, <2>2, <2>3, <3>1
  <2>8. QED
    BY <2>4, <2>5, <2>6, <2>7
<1>6. ASSUME NEW f \in Funds
      PROVE  /\ closed'[f] + Cardinality(Completing(f)') <= N
             /\ ~Gone(f)' => closed'[f] <= Cardinality(Completed(f)')
  <2>1. /\ closed[f] + Cardinality(Completing(f)) <= N
        /\ ~Gone(f) => closed[f] <= Cardinality(Completed(f))
    BY DEF OnceInv
  <2> DEFINE A == Completing(f)
             B == Completing(f)'
             H == Completed(f)
             K == Completed(f)'
             n == closed[f]
             m == closed'[f]
  <2>2. /\ B \subseteq A => n + Cardinality(B) <= N
        /\ B \subseteq A \cup {r} /\ r \notin A \cup H /\ n <= Cardinality(H)
             => n + Cardinality(B) <= N
        /\ r \in A /\ B \subseteq A \ {r} => (n + 1) + Cardinality(B) <= N
        /\ n <= Cardinality(H) /\ H \subseteq K => n <= Cardinality(K)
        /\ n <= Cardinality(H) /\ r \in A /\ H \cup {r} \subseteq K => n + 1 <= Cardinality(K)
    BY <1>2, <2>1, AppliesOnce
  <2> HIDE DEF N
  <2>4. CASE Idles(r)
    <3>1. m = n /\ B \subseteq A /\ (~Gone(f)' => H \subseteq K)
      BY <1>2, <2>4 DEF Idles
    <3>2. QED
      BY <1>4, <2>1, <2>2, <3>1
  <2>5. CASE Joins(r)
    <3>1. m = n /\ H \subseteq K /\ r \notin A \cup H /\ (B \subseteq A \/ ~Gone(f)) /\ B \subseteq A \cup {r}
      BY <1>2, <2>5 DEF Joins
    <3>2. QED
      BY <1>4, <2>1, <2>2, <3>1
  <2>6. ASSUME NEW x \in Txns, Grants(r, x) PROVE <1>6!2
    <3>1. m = n /\ B \subseteq A /\ H \subseteq K
      BY <1>2, <2>6 DEF Grants
    <3>2. QED
      BY <1>4, <2>1, <2>2, <3>1
  <2>7. ASSUME NEW g \in Funds, Completes(r, g) PROVE <1>6!2
    <3>1. CASE g = f
      <4>1. m = n + 1 /\ r \in A /\ B \subseteq A \ {r} /\ H \cup {r} \subseteq K
        BY <1>2, <2>7, <3>1 DEF Completes, IInv, TypeOK
      <4>2. QED
        BY <1>4, <2>1, <2>2, <4>1
    <3>2. CASE g # f
      <4>1. m = n /\ B \subseteq A /\ H \subseteq K
        BY <1>2, <2>7, <3>2 DEF Completes, IInv, TypeOK
      <4>2. QED
        BY <1>4, <2>1, <2>2, <4>1
    <3>3. QED
      BY <3>1, <3>2
  <2>8. QED
    BY <2>4, <2>5, <2>6, <2>7
<1>7. QED
    BY <1>5, <1>6 DEF OnceInv

CountedSteps == {"member", "readRole", "writeRole", "subscribe", "record", "addAmount",
                 "closeFund", "dropPaid"}

LEMMA Uncounted ==
    ASSUME NEW r \in Requests
    PROVE  /\ req[r].pc \notin CountedSteps =>
                /\ \A t \in Txns : r \notin Buying(t) /\ r \notin Bought(t)
                /\ \A f \in Funds : r \notin Completing(f) /\ r \notin Completed(f)
           /\ req'[r].pc \notin CountedSteps =>
                /\ \A t \in Txns : r \notin Buying(t)' /\ r \notin Bought(t)'
                /\ \A f \in Funds : r \notin Completing(f)' /\ r \notin Completed(f)'
    BY DEF Buying, Bought, Completing, Completed, At, CountedSteps

\* A step between statements that count nothing.
LEMMA UncountedIdles ==
    ASSUME NEW r \in Requests, req[r].pc \notin CountedSteps, req'[r].pc \notin CountedSteps,
           UNCHANGED <<plans, closed>>
    PROVE  Idles(r)
    BY Uncounted DEF Idles

LEMMA FinishCounts ==
    ASSUME TypeOK, NEW r \in Requests, Finish(r)
    PROVE  req'[r].pc \notin CountedSteps
    BY BecomeIs DEF Finish, IdleReq, CountedSteps

LEMMA ArriveIdles ==
    ASSUME IInv, NEW r \in Requests, Arrive(r)
    PROVE  Idles(r)
<1>1. req \in [Requests -> Request]
    BY DEF IInv, TypeOK
<1>2. ASSUME NEW step, step \notin CountedSteps, UNCHANGED <<plans, closed>>,
             req[r].pc = "idle", req'[r].pc = step
      PROVE  Idles(r)
    BY <1>2, UncountedIdles DEF CountedSteps
<1>3. ASSUME NEW u \in Users, NEW f \in Funds \cup {NoFund}, NEW a \in Amounts, DepositStart(r, u, f, a)
      PROVE  Idles(r)
  <2>1. /\ req[r].pc = "idle" /\ UNCHANGED <<plans, closed>>
        /\ req'[r].pc = IF f = NoFund THEN "newOrder" ELSE "findOrder"
    BY <1>1, <1>3 DEF DepositStart, Start, Become, At, db, IdleReq
  <2>2. (IF f = NoFund THEN "newOrder" ELSE "findOrder") \notin CountedSteps
    BY DEF CountedSteps
  <2>3. QED
    BY <1>2, <2>1, <2>2
<1>4. ASSUME NEW u \in Users, NEW f \in Funds, NEW a \in Amounts, DonateStart(r, u, f, a)
      PROVE  Idles(r)
  <2>1. req[r].pc = "idle" /\ UNCHANGED <<plans, closed>> /\ req'[r].pc = "giftInsert"
    BY <1>1, <1>4 DEF DonateStart, Start, Become, At, db, IdleReq
  <2>2. QED
    BY <1>2, <2>1 DEF CountedSteps
<1>5. ASSUME CreateFundStart(r) PROVE Idles(r)
  <2>1. req[r].pc = "idle" /\ UNCHANGED <<plans, closed>> /\ req'[r].pc = "openFund"
    BY <1>1, <1>5 DEF CreateFundStart, Start, Become, At, db, IdleReq
  <2>2. QED
    BY <1>2, <2>1 DEF CountedSteps
<1>6. ASSUME NEW f \in Funds, DeleteFundStart(r, f) PROVE Idles(r)
  <2>1. req[r].pc = "idle" /\ UNCHANGED <<plans, closed>> /\ req'[r].pc = "purge"
    BY <1>1, <1>6 DEF DeleteFundStart, Start, Become, At, db, IdleReq
  <2>2. QED
    BY <1>2, <2>1 DEF CountedSteps
<1>7. ASSUME NEW t \in Txns, NEW v \in BOOLEAN, NEW k \in BOOLEAN, Callback(r, t, v, k)
      PROVE  Idles(r)
  <2>1. req[r].pc = "idle" /\ UNCHANGED <<plans, closed>> /\ req'[r].pc = "received"
    BY <1>1, <1>7 DEF Callback, Start, Become, At, db, IdleReq
  <2>2. QED
    BY <1>2, <2>1 DEF CountedSteps
<1>8. QED
    BY <1>3, <1>4, <1>5, <1>6, <1>7 DEF Arrive

\* The statements that work for no callback, or come after its record.
LEMMA OtherIdles ==
    ASSUME IInv, NEW r \in Requests,
           \/ DepositFindOrder(r) \/ DepositNewOrder(r) \/ DepositInsert(r)
           \/ CreateFundInsert(r) \/ DonateInsert(r) \/ DonateAdd(r)
           \/ DeleteFundPurge(r) \/ DeleteFundDrop(r)
           \/ SetOrder(r) \/ Recheck(r) \/ CollectOrders(r) \/ MarkPaid(r)
    PROVE  Idles(r)
<1>0. TypeOK /\ req \in [Requests -> Request]
    BY DEF IInv, TypeOK
<1>1. req[r].pc \notin CountedSteps /\ UNCHANGED <<plans, closed>>
    BY DEF DepositFindOrder, DepositNewOrder, DepositInsert, CreateFundInsert, DonateInsert,
       DonateAdd, DeleteFundPurge, DeleteFundDrop, SetOrder, Recheck, CollectOrders, MarkPaid,
       At, CountedSteps, db
<1>2. ASSUME Finish(r) PROVE Idles(r)
    BY <1>0, <1>1, <1>2, FinishCounts, UncountedIdles
<1>3. ASSUME NEW step \in {"newOrder", "giftAdd", "dropFund", "collect"}, Goto(r, step) PROVE Idles(r)
    BY <1>0, <1>1, <1>3, GotoFields, UncountedIdles DEF CountedSteps
<1>4. ASSUME NEW o, Become(r, [req[r] EXCEPT !.pc = "insertTx", !.bill.order = o]) PROVE Idles(r)
  <2>1. req'[r].pc = "insertTx"
    BY <1>0, <1>4 DEF Become, Request
  <2>2. QED
    BY <1>1, <2>1, UncountedIdles DEF CountedSteps
<1>5. ASSUME NEW os, Become(r, [req[r] EXCEPT !.pc = "markPaid", !.orders = os]) PROVE Idles(r)
  <2>1. req'[r].pc = "markPaid"
    BY <1>0, <1>5 DEF Become, Request
  <2>2. QED
    BY <1>1, <2>1, UncountedIdles DEF CountedSteps
<1>6. CASE DepositFindOrder(r)
    BY <1>3, <1>4, <1>6 DEF DepositFindOrder
<1>7. CASE DepositNewOrder(r)
    BY <1>4, <1>7 DEF DepositNewOrder
<1>8. CASE CollectOrders(r)
    BY <1>5, <1>8 DEF CollectOrders
<1>9. CASE DonateInsert(r) \/ DeleteFundPurge(r)
    BY <1>3, <1>9 DEF DonateInsert, DeleteFundPurge
<1>10. CASE Recheck(r)
    BY <1>2, <1>3, <1>10 DEF Recheck
<1>11. CASE DepositInsert(r) \/ CreateFundInsert(r) \/ DonateAdd(r) \/ DeleteFundDrop(r)
            \/ SetOrder(r) \/ MarkPaid(r)
    BY <1>2, <1>11 DEF DepositInsert, CreateFundInsert, DonateAdd, DeleteFundDrop, SetOrder, MarkPaid
<1>12. QED
    BY <1>6, <1>7, <1>8, <1>9, <1>10, <1>11

\* A callback joins those that grant a plan only if it found it not yet processed.
LEMMA LookUpJoins ==
    ASSUME IInv, NEW r \in Requests, LookUp(r)
    PROVE  Idles(r) \/ Joins(r)
<1> DEFINE q == req[r]
           t == q.txn
<1>0. /\ TypeOK /\ q \in Request /\ q.pc = "received" /\ q.pc \notin CountedSteps
      /\ UNCHANGED <<plans, closed, pay, tx, late>> /\ t \in Txns /\ outcome[t] # "unsent"
    BY DEF LookUp, At, IInv, TypeOK, ReqInv, db, CountedSteps
<1>1. CASE Finish(r)
    BY <1>0, <1>1, FinishCounts, UncountedIdles
<1>2. CASE Become(r, [q EXCEPT !.row = RowFound(t),
                               !.pc = IF q.ok /\ ~AlreadyProcessed(t) THEN "member" ELSE "record"])
  <2>1. /\ req'[r].pc = IF q.ok /\ ~AlreadyProcessed(t) THEN "member" ELSE "record"
        /\ req'[r].row = RowFound(t) /\ req'[r].txn = t
    <3>1. ASSUME NEW row, NEW step, Become(r, [q EXCEPT !.row = row, !.pc = step])
          PROVE  req'[r].pc = step /\ req'[r].row = row /\ req'[r].txn = t
      BY <1>0, <3>1 DEF Become, TypeOK, Request
    <3>2. QED
      BY <1>2, <3>1
  <2>2. ASSUME NEW x \in Txns, r \in Buying(x)' PROVE ~Settled(x)
    <3>1. x = t /\ ~Donating(req[r])' /\ ~AlreadyProcessed(t)
      BY <2>1, <2>2 DEF Buying
    <3>2. RowFound(t) = "deposit" => pay[t].fund = NoFund
      BY <1>0, <2>1, <3>1 DEF Donating
    <3>3. CASE pay[t].fund = NoFund
      <4>1. RowFound(t) = "deposit"
        BY <1>0, <3>3 DEF IInv, RowInv, TypeOK, RowFound, Exists
      <4>2. QED
        BY <3>1, <3>3, <4>1 DEF AlreadyProcessed, Settled
    <3>4. CASE pay[t].fund # NoFund
      <4>1. ~Exists(t)
        BY <3>2, <3>4 DEF RowFound
      <4>2. QED
        BY <3>1, <3>4, <4>1 DEF AlreadyProcessed, RowFound, Settled
    <3>5. QED
      BY <3>3, <3>4
  <2>3. \A f \in Funds : r \notin Completing(f)'
    BY <2>1 DEF Completing
  <2>4. QED
    BY <1>0, <2>2, <2>3, Uncounted DEF Joins
<1>3. QED
    BY <1>1, <1>2 DEF LookUp

\* The statements from the look-up to the record.
LEMMA ApplyCounts ==
    ASSUME IInv, NEW r \in Requests,
           \/ CheckMember(r) \/ ReadRole(r) \/ WriteRole(r) \/ ReadFund(r)
           \/ AddAmount(r) \/ CloseFund(r) \/ DropPaidFund(r) \/ Subscribe(r) \/ Record(r)
    PROVE  \/ Idles(r)
           \/ Joins(r)
           \/ \E t \in Txns : outcome[t] # "unsent" /\ Grants(r, t)
           \/ \E f \in Funds : Completes(r, f)
<1> DEFINE q == req[r]
           t == q.txn
           d == Donating(q)
<1>0. /\ TypeOK /\ req \in [Requests -> Request] /\ q \in Request /\ UNCHANGED pay
      /\ q.pc \in {"member", "readRole", "writeRole", "readFund", "addAmount", "closeFund",
                   "dropPaid", "subscribe", "record"}
    BY DEF CheckMember, ReadRole, WriteRole, ReadFund, AddAmount, CloseFund, DropPaidFund,
       Subscribe, Record, At, IInv, TypeOK, db
<1>1. /\ q.pc \in CallbackSteps /\ t \in Txns /\ outcome[t] # "unsent" /\ ReqInv(r) /\ RowInv(t)
      /\ q.pc \in DonationSteps => d
      /\ q.pc = "subscribe" => ~d
    BY <1>0 DEF CallbackSteps, IInv, ReqInv
<1>2. q.pc \in DonationSteps => FundOf(r) \in Funds
    BY <1>1, CallbackFacts
<1>3. ASSUME req'[r].txn = t, req'[r].row = q.row
      PROVE  (Donating(req[r])' <=> d) /\ FundOf(r)' = FundOf(r)
    BY <1>0, <1>3 DEF Donating, FundOf
<1>4. ASSUME Finish(r), UNCHANGED <<plans, closed>>, q.pc # "record", q.pc # "dropPaid" PROVE Idles(r)
  <2>1. req'[r].pc \notin CountedSteps
    BY <1>0, <1>4, FinishCounts
  <2>2. \A x \in Txns : r \notin Bought(x)
    BY <1>4 DEF Bought, At
  <2>3. \A f \in Funds : r \notin Completed(f)
    BY <1>4 DEF Completed, At
  <2>4. QED
    BY <1>4, <2>1, <2>2, <2>3, Uncounted DEF Idles
<1>5. ASSUME NEW step, req'[r].pc = step, req'[r].txn = t, req'[r].row = q.row,
             UNCHANGED <<plans, closed>>,
             q.pc \in {"member", "readRole", "writeRole"},
             step \in {"readRole", "writeRole", "readFund", "subscribe"}
      PROVE  Idles(r)
  <2>1. \A x \in Txns : r \notin Bought(x) /\ (r \in Buying(x)' => r \in Buying(x))
    BY <1>3, <1>5 DEF Bought, Buying, At
  <2>2. \A f \in Funds : r \notin Completed(f) /\ r \notin Completing(f)'
    BY <1>5 DEF Completed, Completing, At
  <2>3. QED
    BY <1>5, <2>1, <2>2 DEF Idles
<1>6. Apply(q) \in {"readFund", "subscribe"}
    BY DEF Apply
<1>7. CASE CheckMember(r)
  <2>1. q.pc = "member" /\ UNCHANGED <<plans, closed>>
    BY <1>7 DEF CheckMember, At, db
  <2>2. CASE Goto(r, "readRole")
    BY <1>0, <1>5, <2>1, <2>2, GotoFields
  <2>3. CASE Finish(r)
    BY <1>4, <2>1, <2>3
  <2>4. QED
    BY <1>7, <2>2, <2>3 DEF CheckMember
<1>8. CASE ReadRole(r)
  <2>1. q.pc = "readRole" /\ UNCHANGED <<plans, closed>>
    BY <1>8 DEF ReadRole, At, db
  <2>2. CASE Goto(r, Apply(q))
    BY <1>0, <1>5, <1>6, <2>1, <2>2, GotoFields
  <2>3. CASE Become(r, [q EXCEPT !.pc = "writeRole", !.had = roles[Payer(r)]])
    <3>1. req'[r].pc = "writeRole" /\ req'[r].txn = t /\ req'[r].row = q.row
      BY <1>0, <2>3, NotedFields
    <3>2. QED
      BY SMTT(30), <1>5, <2>1, <3>1
  <2>4. QED
    BY <1>8, <2>2, <2>3 DEF ReadRole
<1>9. CASE WriteRole(r)
  <2>1. /\ q.pc = "writeRole" /\ UNCHANGED <<plans, closed>>
        /\ Become(r, [q EXCEPT !.pc = Apply(q), !.had = {}])
    BY SMTT(30), <1>9 DEF WriteRole, At
  <2>2. req'[r].pc = Apply(q) /\ req'[r].txn = t /\ req'[r].row = q.row
    BY <1>0, <2>1, NotedFields
  <2>3. QED
    BY <1>5, <1>6, <2>1, <2>2
<1>10. CASE ReadFund(r)
  <2>1. q.pc = "readFund" /\ q.pc \notin CountedSteps /\ UNCHANGED <<plans, closed>>
    BY <1>10 DEF ReadFund, At, db, CountedSteps
  <2>2. CASE fund[FundOf(r)].state = "open"
    <3>1. req'[r].pc = "addAmount" /\ req'[r].txn = t /\ req'[r].row = q.row
      BY <1>0, <1>10, <2>2, NotedFields DEF ReadFund
    <3>2. \A x \in Txns : r \notin Buying(x)'
      BY <3>1 DEF Buying
    <3>3. \A f \in Funds : r \in Completing(f)' => ~Gone(f)
      BY <1>3, <2>2, <3>1 DEF Completing, Gone
    <3>4. QED
      BY SMTT(30), <2>1, <3>2, <3>3, Uncounted DEF Joins
  <2>3. CASE fund[FundOf(r)].state # "open"
    <3>1. req'[r].pc = "record" /\ req'[r].txn = t /\ req'[r].row = q.row
      BY <1>0, <1>10, <2>3, NotedFields DEF ReadFund
    <3>2. (\A x \in Txns : r \notin Buying(x)') /\ (\A f \in Funds : r \notin Completing(f)')
      BY <3>1 DEF Buying, Completing
    <3>3. QED
      BY SMTT(30), <2>1, <3>2, Uncounted DEF Joins
  <2>4. QED
    BY <2>2, <2>3
<1>11. CASE AddAmount(r)
  <2>1. q.pc = "addAmount" /\ UNCHANGED <<plans, closed>>
    BY <1>11 DEF AddAmount, At
  <2>2. PICK step \in {"closeFund", "record"} : Goto(r, step)
    BY <1>11 DEF AddAmount
  <2>3. req'[r].pc = step /\ req'[r].txn = t /\ req'[r].row = q.row
    BY <1>0, <2>2, GotoFields
  <2>4. \A x \in Txns : r \notin Bought(x) /\ r \notin Buying(x)'
    BY <2>1, <2>3 DEF Bought, Buying, At
  <2>5. \A f \in Funds : r \notin Completed(f) /\ (r \in Completing(f)' => r \in Completing(f))
    BY <1>3, <2>1, <2>3 DEF Completed, Completing, At
  <2>6. QED
    BY <2>1, <2>4, <2>5 DEF Idles
<1>12. CASE CloseFund(r)
  <2>1. /\ q.pc = "closeFund" /\ UNCHANGED plans
        /\ closed' = [closed EXCEPT ![FundOf(r)] = @ + 1] /\ Goto(r, "dropPaid")
    BY <1>12 DEF CloseFund, At
  <2>2. req'[r].pc = "dropPaid" /\ req'[r].txn = t /\ req'[r].row = q.row
    BY <1>0, <2>1, GotoFields
  <2>3. PICK f \in Funds : f = FundOf(r)
    BY <1>2, <2>1 DEF DonationSteps
  <2>4. r \in Completing(f) /\ r \in Completed(f)'
    BY <1>3, <2>1, <2>2, <2>3 DEF Completing, Completed, At
  <2>5. \A g \in Funds : r \notin Completing(g)' /\ r \notin Completed(g)
    BY <2>1, <2>2 DEF Completing, Completed, At
  <2>6. \A x \in Txns : r \notin Buying(x)' /\ r \notin Bought(x)
    BY <2>1, <2>2 DEF Buying, Bought, At
  <2>7. Completes(r, f)
    BY <2>1, <2>3, <2>4, <2>5, <2>6 DEF Completes
  <2>8. QED
    BY <2>7
<1>13. CASE DropPaidFund(r)
  <2>1. q.pc = "dropPaid" /\ UNCHANGED <<plans, closed>> /\ DropFund(FundOf(r))
        /\ Become(r, [q EXCEPT !.pc = "record", !.reached = TRUE])
    BY SMTT(30), <1>13 DEF DropPaidFund, At
  <2>2. req'[r].pc = "record" /\ req'[r].txn = t /\ req'[r].row = q.row
    BY <1>0, <2>1, NotedFields
  <2>3. \A f \in Funds : r \in Completed(f) => Gone(f)'
    BY <1>0, <2>1 DEF Completed, DropFund, Gone, TypeOK
  <2>4. \A f \in Funds : r \notin Completing(f)'
    BY <2>2 DEF Completing
  <2>5. \A x \in Txns : r \notin Buying(x)' /\ r \notin Bought(x)
    BY <2>1, <2>2 DEF Buying, Bought, At
  <2>6. QED
    BY <2>1, <2>3, <2>4, <2>5 DEF Idles
<1>14. CASE Subscribe(r)
  <2>1. /\ q.pc = "subscribe" /\ UNCHANGED closed
        /\ plans' = [plans EXCEPT ![t] = @ + 1] /\ Goto(r, "record")
    BY <1>14 DEF Subscribe, At
  <2>2. req'[r].pc = "record" /\ req'[r].txn = t /\ req'[r].row = q.row /\ req'[r].ok = q.ok
    BY <1>0, <2>1, GotoFields
  <2>3. ~d /\ q.ok
    BY <1>1, <2>1 DEF ReqInv, CallbackSteps
  <2>4. r \in Buying(t) /\ r \in Bought(t)'
    BY <1>3, <2>1, <2>2, <2>3 DEF Buying, Bought, At
  <2>5. \A x \in Txns : r \notin Buying(x)' /\ r \notin Bought(x)
    BY <2>1, <2>2 DEF Buying, Bought, At
  <2>6. \A f \in Funds : r \notin Completing(f)' /\ r \notin Completed(f)
    BY <2>1, <2>2 DEF Completing, Completed, At
  <2>7. Grants(r, t)
    BY <2>1, <2>4, <2>5, <2>6 DEF Grants
  <2>8. QED
    BY <1>1, <2>7
<1>15. CASE Record(r)
  <2>1. q.pc = "record" /\ UNCHANGED <<plans, closed>>
    BY <1>15 DEF Record, At
  <2>2. req'[r].pc \notin CountedSteps
    <3>1. CASE Finish(r)
      BY <1>0, <3>1, FinishCounts
    <3>2. CASE AfterRecord(q) # "idle" /\ Goto(r, AfterRecord(q))
      <4>1. AfterRecord(q) \in {"setOrder", "collect", "recheck"}
        BY <3>2 DEF AfterRecord
      <4>2. QED
        BY <1>0, <3>2, <4>1, GotoFields DEF CountedSteps
    <3>3. QED
      BY <1>15, <3>1, <3>2 DEF Record
  <2>3. ASSUME NEW x \in Txns, r \in Bought(x) PROVE Settled(x)'
    <3>1. x = t /\ StatusOf(q.ok) = "SUCCESS" /\ ~d
      BY <2>3 DEF Bought, StatusOf
    <3>2. CASE pay[x].fund = NoFund
      <4>1. q.row = "deposit" /\ Exists(x)
        BY <1>0, <1>1, <3>1, <3>2 DEF ReqInv, RowInv, Exists, TypeOK
      <4>2. tx'[x] = "SUCCESS"
        BY <1>0, <1>15, <3>1, <4>1 DEF Record, TypeOK
      <4>3. QED
        BY <1>0, <3>2, <4>2 DEF Settled
    <3>3. CASE pay[x].fund # NoFund
      <4>1. q.row # "deposit"
        BY <3>1, <3>3 DEF Donating
      <4>2. late'[x] = "SUCCESS"
        BY <1>0, <1>15, <3>1, <4>1 DEF Record, TypeOK
      <4>3. QED
        BY <1>0, <3>3, <4>2 DEF Settled
    <3>4. QED
      BY <3>2, <3>3
  <2>5. \A f \in Funds : r \notin Completed(f)
    BY <2>1 DEF Completed, At
  <2>6. QED
    BY <2>1, <2>2, <2>3, <2>5, Uncounted DEF Idles
<1>16. QED
    BY <1>7, <1>8, <1>9, <1>10, <1>11, <1>12, <1>13, <1>14, <1>15

LEMMA OnceNext ==
    ASSUME IsFiniteSet(Requests), ~Failures
    PROVE  IInv /\ IInv' /\ OnceInv /\ [Next]_vars => OnceInv'
<1> SUFFICES ASSUME IInv, IInv', OnceInv, [Next]_vars PROVE OnceInv'
    OBVIOUS
<1>0. TypeOK
    BY DEF IInv
<1>1. ASSUME NEW r \in Requests, Arrive(r) \/ Continue(r) PROVE OnceInv'
  <2>1. \A s \in Requests \ {r} : req'[s] = req[s]
    BY <1>0, <1>1, OneMoves
  <2>2. \/ Idles(r)
        \/ Joins(r)
        \/ \E t \in Txns : outcome[t] # "unsent" /\ Grants(r, t)
        \/ \E f \in Funds : Completes(r, f)
    BY <1>1, ArriveIdles, OtherIdles, LookUpJoins, ApplyCounts DEF Continue
  <2>3. QED
    BY <2>1, <2>2, OnceKept
<1>2. ASSUME NEW r \in Requests, Fail(r) PROVE FALSE
    BY <1>2 DEF Fail
<1>3. ASSUME (\E t \in Txns : Decide(t)) \/ (\E u \in Users : ChangeMembership(u)) \/ UNCHANGED vars
      PROVE  OnceInv'
  <2>1. UNCHANGED <<tx, pay, late, fund, plans, closed, req>>
    BY <1>3 DEF Decide, ChangeMembership, vars, db
  <2>2. \A t \in Txns : outcome'[t] = "unsent" => outcome[t] = "unsent"
    BY SentStays
  <2>3. /\ \A t \in Txns : /\ Buying(t)' = Buying(t) /\ Bought(t)' = Bought(t)
                           /\ Settled(t)' <=> Settled(t)
        /\ \A f \in Funds : /\ Completing(f)' = Completing(f) /\ Completed(f)' = Completed(f)
                            /\ Gone(f)' <=> Gone(f)
    BY <2>1 DEF Buying, Bought, Completing, Completed, Settled, Gone, Donating, FundOf, At
  <2>4. QED
    BY <2>1, <2>2, <2>3 DEF OnceInv
<1>4. QED
    BY <1>1, <1>2, <1>3 DEF Next

LEMMA OnceInit ==
    ASSUME IsFiniteSet(Requests)
    PROVE  Init => OnceInv
<1> SUFFICES ASSUME Init PROVE OnceInv
    OBVIOUS
<1>1. /\ \A t \in Txns : plans[t] = 0 /\ Buying(t) = {} /\ Bought(t) = {}
      /\ \A f \in Funds : closed[f] = 0 /\ Completing(f) = {} /\ Completed(f) = {}
    BY DEF Init, IdleReq, Buying, Bought, Completing, Completed, At
<1>2. Cardinality({}) = 0 /\ Cardinality(Requests) \in Nat
    BY FS_EmptySet, FS_CardinalityType
<1>3. ASSUME NEW t \in Txns
      PROVE  /\ plans[t] = 0 /\ plans[t] + Cardinality(Buying(t)) <= Cardinality(Requests)
             /\ plans[t] <= Cardinality(Bought(t))
  <2>1. plans[t] = 0 /\ Cardinality(Buying(t)) = 0 /\ Cardinality(Bought(t)) = 0
    BY <1>1, <1>2
  <2>2. QED
    BY <1>2, <2>1
<1>4. ASSUME NEW f \in Funds
      PROVE  /\ closed[f] + Cardinality(Completing(f)) <= Cardinality(Requests)
             /\ closed[f] <= Cardinality(Completed(f))
  <2>1. closed[f] = 0 /\ Cardinality(Completing(f)) = 0 /\ Cardinality(Completed(f)) = 0
    BY <1>1, <1>2
  <2>2. QED
    BY <1>2, <2>1
<1>5. QED
    BY <1>3, <1>4 DEF OnceInv

\* However callbacks for a payment repeat and overlap, and whatever overlaps them,
\* handleCallback grants its plan no more often than it runs requests at once, and
\* completes a fund no more often: when it runs one, exactly once.  Only a request
\* that dies between applying a payment and recording it lets it be applied again.
THEOREM PaidOnce ==
    ASSUME IsFiniteSet(Requests), ~Failures
    PROVE  Spec => []AppliedOnce
<1>1. IInv /\ OnceInv => AppliedOnce
  <2> SUFFICES ASSUME IInv, OnceInv PROVE AppliedOnce
    OBVIOUS
  <2>1. \A S \in SUBSET Requests : Cardinality(S) \in Nat
    BY FS_Subset, FS_CardinalityType
  <2>2. Cardinality(Requests) \in Nat
    BY FS_CardinalityType
  <2>3. ASSUME NEW t \in Txns PROVE plans[t] <= Cardinality(Requests)
    <3>1. Buying(t) \in SUBSET Requests
      BY DEF Buying
    <3>2. plans[t] \in Nat /\ plans[t] + Cardinality(Buying(t)) <= Cardinality(Requests)
      BY DEF IInv, TypeOK, OnceInv
    <3>3. QED
      BY <2>1, <2>2, <3>1, <3>2
  <2>4. ASSUME NEW f \in Funds PROVE closed[f] <= Cardinality(Requests)
    <3>1. Completing(f) \in SUBSET Requests
      BY DEF Completing
    <3>2. closed[f] \in Nat /\ closed[f] + Cardinality(Completing(f)) <= Cardinality(Requests)
      BY DEF IInv, TypeOK, OnceInv
    <3>3. QED
      BY <2>1, <2>2, <3>1, <3>2
  <2>5. QED
    BY <2>3, <2>4 DEF AppliedOnce
<1>2. IInv /\ IInv' /\ OnceInv /\ [Next]_vars => OnceInv'
    BY OnceNext
<1>3. Init => OnceInv
    BY OnceInit
<1>4. QED
    BY <1>1, <1>2, <1>3, Inductive, PTL DEF Spec
=============================================================================
