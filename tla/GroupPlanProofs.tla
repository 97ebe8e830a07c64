-------------------------- MODULE GroupPlanProofs --------------------------
(***************************************************************************)
(* Proofs about GroupPlan, for any offer, any number of tasks and any      *)
(* bounds: the rows keep their type, a tier that was paid for lasts the    *)
(* months that were paid however the tasks interleave or fail, and, when   *)
(* none fails, every tier has a snapshot between tasks; no more snapshots  *)
(* are marked than tasks run at once.  Of tasks that run one at a time:    *)
(* the mark is on the upgrade just bought, and buying never lowers what    *)
(* the group may do.  Of SubscriptionRanking: its comparison orders the    *)
(* plans.                                                                  *)
(***************************************************************************)
EXTENDS GroupPlan, FiniteSetTheorems, SequenceTheorems, TLAPS

-----------------------------------------------------------------------------
(* The inductive invariant *)

\* What a task carries: the months of the purchase it is about to save, the
\* tiers it read, and, when it postpones, an upgrade that ends.
TaskInv(k) ==
    /\ task[k] \in Task
    /\ At(k, "save") => task[k].months \in Nat \ {0}
    /\ At(k, "shift") => ~IsFree(task[k].plan)
    /\ task[k].overlap \subseteq DOMAIN tiers

PaidRow(row) ==
    /\ IF IsFree(row.plan) THEN row.end = Never
                           ELSE row.end = AddMonths(row.start, row.months)
    /\ ~IsFree(row.plan) => row.months \in Nat \ {0}

IInv ==
    /\ now \in Nat
    /\ tiers \in Seq(Tier)
    /\ snaps \in Seq(Snap)
    /\ failures \in Nat
    /\ task \in [Tasks -> Task]
    /\ \A k \in Tasks : TaskInv(k)
    /\ \A i \in DOMAIN tiers : PaidRow(tiers[i])

-----------------------------------------------------------------------------
(* Lemmas *)

\* Adding a whole number of months to an instant yields an instant.
LEMMA AddMonthsType ==
    ASSUME NEW t \in Nat, NEW n \in Nat
    PROVE  AddMonths(t, n) \in Nat
<1>1. n * Month \in Nat
    BY MonthAssumption
<1>2. QED
    BY <1>1 DEF AddMonths

\* The end of a purchase is an instant, or null for the free plan.
LEMMA EndType ==
    ASSUME NEW q \in Task
    PROVE  /\ End(q) \in Nat \cup {Never}
           /\ ~IsFree(q.plan) => End(q) = AddMonths(q.start, q.months) /\ End(q) \in Nat
           /\ IsFree(q.plan) => End(q) = Never
<1>1. q.start \in Nat /\ q.months \in Nat
    BY DEF Task
<1>2. AddMonths(q.start, q.months) \in Nat
    BY <1>1, AddMonthsType
<1>3. QED
    BY <1>2 DEF End, EndOf

\* Marking or clearing a snapshot leaves a snapshot.
LEMMA MarkType ==
    ASSUME NEW row \in Snap, NEW mark \in BOOLEAN
    PROVE  [row EXCEPT !.current = mark] \in Snap
    BY DEF Snap

LEMMA IdleType == IdleTask \in Task
    BY FreeAssumption DEF IdleTask, Task, Never

\* Changing one element of a sequence within S leaves a sequence over S.
LEMMA ExceptType ==
    ASSUME NEW S, NEW s \in Seq(S), NEW i, NEW e, i \in DOMAIN s => e \in S
    PROVE  /\ [s EXCEPT ![i] = e] \in Seq(S)
           /\ DOMAIN [s EXCEPT ![i] = e] = DOMAIN s
<1>1. CASE i \in DOMAIN s
    <2>1. i \in 1 .. Len(s)
        BY <1>1
    <2>2. QED
        BY <1>1, <2>1, ExceptSeq
<1>2. CASE i \notin DOMAIN s
    <2>1. s = [j \in 1 .. Len(s) |-> s[j]]
        OBVIOUS
    <2>2. [s EXCEPT ![i] = e] = s
        BY <1>2, <2>1
    <2>3. QED
        BY <2>2
<1>3. QED
    BY <1>1, <1>2

\* A task that moves on to a state of its own leaves the others their invariant,
\* as long as no tier is removed.
LEMMA OthersKept ==
    ASSUME IInv,
           NEW k \in Tasks,
           NEW q \in Task, Become(k, q),
           q.pc = "save" => q.months \in Nat \ {0},
           q.pc = "shift" => ~IsFree(q.plan),
           q.overlap \subseteq DOMAIN tiers,
           DOMAIN tiers \subseteq DOMAIN tiers'
    PROVE  /\ task' \in [Tasks -> Task]
           /\ \A j \in Tasks : TaskInv(j)'
<1>1. task' \in [Tasks -> Task] /\ task'[k] = q
    BY DEF IInv, Become
<1>2. ASSUME NEW j \in Tasks PROVE TaskInv(j)'
    <2>1. CASE j = k
        BY <2>1, <1>1 DEF TaskInv, At, IsFree
    <2>2. CASE j # k
        <3>1. task'[j] = task[j]
            BY <2>2 DEF IInv, Become
        <3>2. QED
            BY <3>1 DEF IInv, TaskInv, At, IsFree
    <2>3. QED
        BY <2>1, <2>2
<1>3. QED
    BY <1>1, <1>2

\* The same for a task that only changes its program counter.
LEMMA GotoKept ==
    ASSUME IInv,
           NEW k \in Tasks, NEW step \in {"lookup", "clear", "mark", "insert", "change"},
           Goto(k, step),
           DOMAIN tiers \subseteq DOMAIN tiers'
    PROVE  /\ task' \in [Tasks -> Task]
           /\ \A j \in Tasks : TaskInv(j)'
<1> DEFINE q == [task[k] EXCEPT !.pc = step]
<1>1. q \in Task
    BY ZenonT(40) DEF IInv, Task
<1>2. Become(k, q)
    BY DEF Goto, Become, IInv
<1>3. q.pc = step /\ q.overlap = task[k].overlap
    BY DEF IInv, Task
<1>4. q.overlap \subseteq DOMAIN tiers
    BY <1>3 DEF IInv, TaskInv
<1> HIDE DEF q
<1>5. QED
    BY <1>1, <1>2, <1>3, <1>4, OthersKept

\* IInv is carried over by a step that touches neither tiers nor clock.
LEMMA RowsKept ==
    ASSUME IInv, UNCHANGED <<now, tiers, failures>>,
           snaps' \in Seq(Snap),
           task' \in [Tasks -> Task], \A j \in Tasks : TaskInv(j)'
    PROVE  IInv'
    BY DEF IInv, PaidRow, IsFree, AddMonths

\* What follows a snapshot: the task postpones what it overlaps, or is done.
LEMMA AfterSnapshotType ==
    ASSUME IInv, NEW k \in Tasks
    PROVE  LET q == AfterSnapshot(task[k]) IN
           /\ q \in Task
           /\ q.pc # "save"
           /\ q.pc = "shift" => ~IsFree(q.plan)
           /\ q.overlap \subseteq DOMAIN tiers
<1>1. task[k] \in Task /\ task[k].overlap \subseteq DOMAIN tiers
    BY DEF IInv, TaskInv
<1>2. CASE AfterSnapshot(task[k]) = IdleTask
    BY <1>2, IdleType DEF IdleTask
<1>3. CASE /\ End(task[k]) # Never
           /\ AfterSnapshot(task[k]) =
                [task[k] EXCEPT !.pc = "shift", !.todo = task[k].overlap]
    <2>1. ~IsFree(task[k].plan)
        BY <1>1, <1>3, EndType
    <2>2. DOMAIN tiers \subseteq Nat
        BY DEF IInv
    <2>3. QED
        BY <1>1, <1>3, <2>1, <2>2 DEF Task
<1>4. QED
    BY <1>2, <1>3 DEF AfterSnapshot

-----------------------------------------------------------------------------
(* Every step keeps the invariant *)

LEMMA InitKept == Init => IInv
<1> SUFFICES ASSUME Init PROVE IInv
    OBVIOUS
<1>1. task \in [Tasks -> Task] /\ now \in Nat /\ failures \in Nat
    BY IdleType DEF Init
<1>2. \A k \in Tasks : TaskInv(k)
    BY IdleType DEF Init, TaskInv, At, IdleTask
<1>3. IsFree(Free)
    BY FreeAssumption DEF IsFree
<1>4. CASE tiers = <<>> /\ snaps = <<>>
    BY <1>1, <1>2, <1>4 DEF IInv
<1>5. CASE /\ tiers = <<[plan |-> Free, start |-> 0, end |-> Never, months |-> -1]>>
           /\ snaps = <<[plan |-> Free, from |-> 0, to |-> Never, current |-> TRUE]>>
    <2>1. tiers \in Seq(Tier) /\ snaps \in Seq(Snap)
        BY <1>5, FreeAssumption DEF Tier, Snap
    <2>2. \A i \in DOMAIN tiers : PaidRow(tiers[i])
        BY <1>3, <1>5 DEF PaidRow
    <2>3. QED
        BY <1>1, <1>2, <2>1, <2>2 DEF IInv
<1>6. QED
    BY <1>4, <1>5 DEF Init

LEMMA PurchaseKept ==
    ASSUME IInv, NEW k \in Tasks, NEW p \in Plans, NEW n \in Quantities, Purchase(k, p, n)
    PROVE  IInv'
<1>1. n \in Nat \ {0}
    BY MonthAssumption
<1>2. \E up \in BOOLEAN, start \in Nat : Buy(k, p, n, up, start)
    <2>1. CASE tiers = <<>> /\ Buy(k, p, n, TRUE, now)
        BY <2>1 DEF IInv
    <2>2. CASE \E i \in Current : Buy(k, p, n, Upgrades(p, tiers[i]),
                                      StartOf(Upgrades(p, tiers[i]), tiers[i]))
        <3>1. PICK i \in Current : Buy(k, p, n, Upgrades(p, tiers[i]),
                                       StartOf(Upgrades(p, tiers[i]), tiers[i]))
            BY <2>2
        <3>2. tiers[i] \in Tier
            BY <3>1 DEF IInv, Current, RunningTiers
        <3>3. StartOf(Upgrades(p, tiers[i]), tiers[i]) \in Nat
            BY <3>2 DEF StartOf, Tier, IInv, Never
        <3>4. Upgrades(p, tiers[i]) \in BOOLEAN
            BY DEF Upgrades
        <3>5. QED
            BY <3>1, <3>3, <3>4
    <2>3. QED
        BY <2>1, <2>2 DEF Purchase
<1>3. PICK up \in BOOLEAN, start \in Nat : Buy(k, p, n, up, start)
    BY <1>2
<1> DEFINE q == [IdleTask EXCEPT !.pc = "save", !.kind = "purchase", !.plan = p,
                   !.months = n, !.at = now, !.up = up, !.start = start,
                   !.overlap = RunningTiers]
<1>4. RunningTiers \subseteq DOMAIN tiers /\ DOMAIN tiers \subseteq Nat
    BY DEF RunningTiers, IInv
<1>5. q \in Task
    BY <1>1, <1>4, IdleType DEF IdleTask, Task, IInv
<1>6. q.pc = "save" /\ q.months = n /\ q.overlap = RunningTiers
    BY DEF IdleTask
<1>7. Become(k, q)
    BY <1>3 DEF Buy
<1>8. UNCHANGED <<now, tiers, snaps, failures>>
    BY DEF Purchase
<1> HIDE DEF q
<1>9. task' \in [Tasks -> Task] /\ \A j \in Tasks : TaskInv(j)'
    BY <1>1, <1>4, <1>5, <1>6, <1>7, <1>8, OthersKept
<1>10. QED
    BY <1>8, <1>9, RowsKept DEF IInv

LEMMA SaveKept ==
    ASSUME IInv, NEW k \in Tasks, Save(k)
    PROVE  IInv'
<1> DEFINE q == task[k]
           row == [plan |-> q.plan, start |-> q.start, end |-> End(q), months |-> q.months]
<1>1. q \in Task /\ q.months \in Nat \ {0}
    BY DEF IInv, TaskInv, Save
<1>2. row \in Tier
    BY <1>1, EndType DEF Tier, Task
<1>3. PaidRow(row)
    BY <1>1, EndType DEF PaidRow
<1>4. tiers' = Append(tiers, row) /\ UNCHANGED <<now, snaps, failures>>
    BY DEF Save
<1> HIDE DEF row
<1>5. tiers' \in Seq(Tier) /\ DOMAIN tiers \subseteq DOMAIN tiers'
    BY <1>2, <1>4 DEF IInv
<1>6. \A i \in DOMAIN tiers' : PaidRow(tiers'[i])
    BY <1>3, <1>4 DEF IInv
<1>7. task' \in [Tasks -> Task] /\ \A j \in Tasks : TaskInv(j)'
    BY <1>5, GotoKept DEF Save
<1>8. QED
    BY <1>4, <1>5, <1>6, <1>7 DEF IInv, PaidRow, IsFree, AddMonths

LEMMA LookupKept ==
    ASSUME IInv, NEW k \in Tasks, Lookup(k)
    PROVE  IInv'
<1>1. UNCHANGED <<now, tiers, snaps, failures>>
    BY DEF Lookup
<1>2. task' \in [Tasks -> Task] /\ \A j \in Tasks : TaskInv(j)'
    <2>1. CASE Goto(k, IF task[k].up THEN "clear" ELSE "insert")
        BY <1>1, <2>1, GotoKept
    <2>2. CASE \E i \in DOMAIN snaps :
                  Become(k, [task[k] EXCEPT !.pc = "clear", !.target = i])
        <3>1. PICK i \in DOMAIN snaps :
                  Become(k, [task[k] EXCEPT !.pc = "clear", !.target = i])
            BY <2>2
        <3> DEFINE q == [task[k] EXCEPT !.pc = "clear", !.target = i]
        <3>2. i \in Nat /\ task[k] \in Task /\ task[k].overlap \subseteq DOMAIN tiers
            BY DEF IInv, TaskInv
        <3>3. q \in Task /\ q.pc = "clear" /\ q.overlap \subseteq DOMAIN tiers
            BY <3>2 DEF Task
        <3> HIDE DEF q
        <3>4. QED
            BY <1>1, <3>1, <3>3, OthersKept DEF q
    <2>3. CASE Become(k, AfterSnapshot(task[k]))
        BY <1>1, <2>3, AfterSnapshotType, OthersKept
    <2>4. QED
        BY <2>1, <2>2, <2>3 DEF Lookup, Existing
<1>3. QED
    BY <1>1, <1>2, RowsKept DEF IInv

LEMMA ClearKept ==
    ASSUME IInv, NEW k \in Tasks, Clear(k)
    PROVE  IInv'
<1> DEFINE cleared(i) == [snaps[i] EXCEPT !.current = FALSE]
<1>1. snaps' \in Seq(Snap)
    <2>1. snaps \in Seq(Snap)
        BY DEF IInv
    <2>2. DOMAIN snaps = 1 .. Len(snaps) /\ Len(snaps) \in Nat
        BY <2>1
    <2>3. ASSUME NEW i \in 1 .. Len(snaps) PROVE cleared(i) \in Snap
        <3>1. snaps[i] \in Snap
            BY <2>1
        <3>2. QED
            BY <3>1, MarkType
    <2>4. snaps' = [i \in 1 .. Len(snaps) |-> cleared(i)]
        BY <2>2 DEF Clear
    <2> HIDE DEF cleared
    <2>5. QED
        BY <2>2, <2>3, <2>4
<1>2. task' \in [Tasks -> Task] /\ \A j \in Tasks : TaskInv(j)'
    BY GotoKept DEF Clear
<1>3. QED
    BY <1>1, <1>2, RowsKept DEF Clear

LEMMA MarkKept ==
    ASSUME IInv, NEW k \in Tasks, Mark(k)
    PROVE  IInv'
<1> DEFINE i == task[k].target
           row == [snaps[i] EXCEPT !.current = TRUE]
<1>1. ASSUME i \in DOMAIN snaps PROVE row \in Snap
    <2>1. snaps[i] \in Snap
        BY <1>1 DEF IInv
    <2>2. QED
        BY <2>1, MarkType
<1>2. snaps' = [snaps EXCEPT ![i] = row]
    <2>1. snaps' = [snaps EXCEPT ![task[k].target].current = TRUE]
        BY DEF Mark
    <2>2. QED
        BY <2>1
<1> HIDE DEF row
<1>3. snaps' \in Seq(Snap)
    BY <1>1, <1>2, ExceptType DEF IInv
<1>4. task' \in [Tasks -> Task] /\ \A j \in Tasks : TaskInv(j)'
    BY AfterSnapshotType, OthersKept DEF Mark
<1>5. QED
    BY <1>3, <1>4, RowsKept DEF Mark

LEMMA InsertKept ==
    ASSUME IInv, NEW k \in Tasks, Insert(k)
    PROVE  IInv'
<1> DEFINE q == task[k]
           row == [plan |-> q.plan, from |-> q.start, to |-> End(q), current |-> q.up]
<1>1. q \in Task
    BY DEF IInv
<1>2. row \in Snap
    BY <1>1, EndType DEF Snap, Task
<1>3. snaps' = Append(snaps, row)
    BY DEF Insert
<1> HIDE DEF row
<1>4. snaps' \in Seq(Snap)
    BY <1>2, <1>3 DEF IInv
<1>5. task' \in [Tasks -> Task] /\ \A j \in Tasks : TaskInv(j)'
    BY AfterSnapshotType, OthersKept DEF Insert
<1>6. QED
    BY <1>4, <1>5, RowsKept DEF Insert

LEMMA ShiftKept ==
    ASSUME IInv, NEW k \in Tasks, Shift(k)
    PROVE  IInv'
<1> DEFINE q == task[k]
           anchor == End(q)
<1>1. PICK i \in q.todo :
        /\ tiers' = [tiers EXCEPT ![i] = Postponed(@, anchor)]
        /\ task' = [task EXCEPT ![k].todo = @ \ {i},
                                ![k].pc = IF task[k].todo = {i} THEN "reload" ELSE @]
    BY DEF Shift
<1>2. q \in Task /\ ~IsFree(q.plan) /\ q.pc = "shift" /\ q.overlap \subseteq DOMAIN tiers
    BY DEF IInv, TaskInv, Shift, At
<1>3. anchor \in Nat
    BY <1>2, EndType
<1> DEFINE row == Postponed(tiers[i], anchor)
<1>4. ASSUME i \in DOMAIN tiers PROVE row \in Tier /\ PaidRow(row)
    <2>1. tiers[i] \in Tier /\ PaidRow(tiers[i])
        BY <1>4 DEF IInv
    <2>2. CASE IsFree(tiers[i].plan)
        <3>1. row = [tiers[i] EXCEPT !.start = anchor, !.end = tiers[i].end]
            BY <2>2 DEF Postponed
        <3>2. QED
            BY <1>3, <2>1, <2>2, <3>1 DEF Tier, PaidRow
    <2>3. CASE ~IsFree(tiers[i].plan)
        <3>1. Length(tiers[i]) = tiers[i].months /\ tiers[i].months \in Nat \ {0}
            BY <2>1, <2>3 DEF PaidRow, Length
        <3>2. AddMonths(anchor, tiers[i].months) \in Nat
            BY <1>3, <3>1, AddMonthsType
        <3>3. row = [tiers[i] EXCEPT !.start = anchor,
                                     !.end = AddMonths(anchor, tiers[i].months)]
            BY <2>3, <3>1 DEF Postponed
        <3>4. QED
            BY <1>3, <2>1, <2>3, <3>1, <3>2, <3>3 DEF Tier, PaidRow
    <2>4. QED
        BY <2>2, <2>3
<1>5. tiers' = [tiers EXCEPT ![i] = row]
    BY <1>1
<1> HIDE DEF row, anchor
<1>6. tiers' \in Seq(Tier) /\ DOMAIN tiers' = DOMAIN tiers
    BY <1>4, <1>5, ExceptType DEF IInv
<1>7. \A j \in DOMAIN tiers' : PaidRow(tiers'[j])
    BY <1>4, <1>5, <1>6 DEF IInv
<1>8. task' \in [Tasks -> Task] /\ \A j \in Tasks : TaskInv(j)'
    <2> DEFINE step == IF q.todo = {i} THEN "reload" ELSE "shift"
               r == [q EXCEPT !.todo = q.todo \ {i}, !.pc = step]
    <2>1. Become(k, r)
        BY <1>1, <1>2 DEF Become, IInv
    <2>2. /\ r \in Task /\ r.pc = step /\ r.plan = q.plan
          /\ r.overlap = q.overlap
        BY <1>2 DEF Task
    <2> HIDE DEF r
    <2>3. QED
        BY <1>2, <1>6, <2>1, <2>2, OthersKept
<1>9. UNCHANGED <<now, snaps, failures>>
    BY DEF Shift
<1>10. QED
    BY <1>6, <1>7, <1>8, <1>9 DEF IInv, PaidRow, IsFree, AddMonths

LEMMA ReloadKept ==
    ASSUME IInv, NEW k \in Tasks, Reload(k)
    PROVE  IInv'
<1> DEFINE q == task[k]
           windows == {[tier |-> i, plan |-> tiers[i].plan, from |-> tiers[i].start,
                        to |-> tiers[i].end] : i \in q.overlap}
           r == [q EXCEPT !.pc = "change", !.due = windows]
<1>1. q \in Task /\ q.overlap \subseteq DOMAIN tiers
    BY DEF IInv, TaskInv
<1>2. windows \subseteq Window
    <2>1. ASSUME NEW i \in q.overlap
          PROVE  [tier |-> i, plan |-> tiers[i].plan, from |-> tiers[i].start,
                  to |-> tiers[i].end] \in Window
        <3>1. i \in Nat /\ tiers[i] \in Tier
            BY <1>1 DEF IInv
        <3>2. QED
            BY <3>1 DEF Tier, Window
    <2>2. QED
        BY <2>1
<1>3. Become(k, r)
    BY DEF Reload, Become, IInv
<1>4. r.pc = "change" /\ r.overlap = q.overlap
    BY <1>1 DEF Task
<1> HIDE DEF windows
<1>5. r \in Task
    BY <1>1, <1>2 DEF Task
<1>6. UNCHANGED <<now, tiers, snaps, failures>>
    BY DEF Reload
<1> HIDE DEF r
<1>7. QED
    BY <1>1, <1>3, <1>4, <1>5, <1>6, OthersKept, RowsKept DEF IInv

\* One of the parallel calls is done: the task goes on, or is done with the last.
LEMMA WindowDone ==
    ASSUME IInv, NEW k \in Tasks, At(k, "change"), DOMAIN tiers' = DOMAIN tiers,
           NEW r \in Task, r.pc = "change", r.overlap = task[k].overlap,
           \/ Become(k, r)
           \/ Become(k, IF r.due = {} /\ r.adding = {} THEN IdleTask ELSE r)
    PROVE  task' \in [Tasks -> Task] /\ \A j \in Tasks : TaskInv(j)'
<1>1. r.overlap \subseteq DOMAIN tiers
    BY DEF IInv, TaskInv
<1>2. CASE Become(k, r)
    BY <1>1, <1>2, OthersKept
<1>3. CASE Become(k, IdleTask)
    <2>1. IdleTask.pc = "idle" /\ IdleTask.overlap = {}
        BY DEF IdleTask
    <2>2. QED
        BY <1>3, <2>1, IdleType, OthersKept
<1>4. QED
    BY <1>2, <1>3

LEMMA ChangeLookupKept ==
    ASSUME IInv, NEW k \in Tasks, ChangeLookup(k)
    PROVE  IInv'
<1>1. UNCHANGED <<now, tiers, snaps, failures>> /\ At(k, "change")
    BY DEF ChangeLookup
<1>2. PICK w \in task[k].due :
        LET rest == [task[k] EXCEPT !.due = @ \ {w}] IN
        \/ Become(k, [rest EXCEPT !.adding = @ \cup {w}])
        \/ Become(k, IF rest.due = {} /\ rest.adding = {} THEN IdleTask ELSE rest)
    BY DEF ChangeLookup
<1> DEFINE q == task[k]
           rest == [q EXCEPT !.due = q.due \ {w}]
           more == [rest EXCEPT !.adding = rest.adding \cup {w}]
<1>3. q \in Task /\ q.pc = "change" /\ w \in Window
    BY <1>1 DEF IInv, At, Task
<1>4. rest \in Task /\ rest.pc = "change" /\ rest.overlap = q.overlap
    BY <1>3 DEF Task
<1>5. more \in Task /\ more.pc = "change" /\ more.overlap = q.overlap
    BY <1>3 DEF Task
<1>6. \/ Become(k, more)
      \/ Become(k, IF rest.due = {} /\ rest.adding = {} THEN IdleTask ELSE rest)
    BY <1>2
<1> HIDE DEF rest, more
<1>7. task' \in [Tasks -> Task] /\ \A j \in Tasks : TaskInv(j)'
    BY <1>1, <1>4, <1>5, <1>6, WindowDone
<1>8. QED
    BY <1>1, <1>7, RowsKept DEF IInv

LEMMA ChangeInsertKept ==
    ASSUME IInv, NEW k \in Tasks, ChangeInsert(k)
    PROVE  IInv'
<1>1. UNCHANGED <<now, tiers, failures>> /\ At(k, "change")
    BY DEF ChangeInsert
<1>2. PICK w \in task[k].adding :
        LET rest == [task[k] EXCEPT !.adding = @ \ {w}] IN
        /\ snaps' = Append(snaps, [plan |-> w.plan, from |-> w.from, to |-> w.to,
                                   current |-> FALSE])
        /\ Become(k, IF rest.due = {} /\ rest.adding = {} THEN IdleTask ELSE rest)
    BY DEF ChangeInsert
<1> DEFINE q == task[k]
           rest == [q EXCEPT !.adding = q.adding \ {w}]
           row == [plan |-> w.plan, from |-> w.from, to |-> w.to, current |-> FALSE]
<1>3. q \in Task /\ q.pc = "change" /\ w \in Window
    BY <1>1 DEF IInv, At, Task
<1>4. rest \in Task /\ rest.pc = "change" /\ rest.overlap = q.overlap
    BY <1>3 DEF Task
<1>5. row \in Snap
    BY <1>3 DEF Window, Snap
<1>6. Become(k, IF rest.due = {} /\ rest.adding = {} THEN IdleTask ELSE rest)
    BY <1>2
<1>7. snaps' = Append(snaps, row)
    BY <1>2
<1> HIDE DEF rest, row
<1>8. snaps' \in Seq(Snap)
    BY <1>5, <1>7 DEF IInv
<1>9. task' \in [Tasks -> Task] /\ \A j \in Tasks : TaskInv(j)'
    BY <1>1, <1>4, <1>6, WindowDone
<1>10. QED
    BY <1>1, <1>8, <1>9, RowsKept

LEMMA SyncKept ==
    ASSUME IInv, NEW k \in Tasks, Sync(k)
    PROVE  IInv'
<1>0. ByTime(now) \subseteq DOMAIN snaps
    BY DEF ByTime, Latest
<1>1. PICK i \in DOMAIN snaps : Retarget(k, i)
    BY <1>0 DEF Sync
<1> DEFINE q == [IdleTask EXCEPT !.pc = "clear", !.at = now, !.target = i]
<1>2. q \in Task /\ q.pc = "clear" /\ q.overlap = {}
    <2>1. i \in Nat /\ now \in Nat
        BY DEF IInv
    <2>2. QED
        BY <2>1, IdleType DEF IdleTask, Task
<1>3. Become(k, q) /\ UNCHANGED <<now, tiers, snaps, failures>>
    BY <1>1 DEF Retarget, Sync
<1> HIDE DEF q
<1>4. QED
    BY <1>2, <1>3, OthersKept, RowsKept DEF IInv

LEMMA RepairKept ==
    ASSUME IInv, NEW k \in Tasks, Repair(k)
    PROVE  IInv'
<1> DEFINE q == [IdleTask EXCEPT !.pc = "pick", !.at = now]
<1>1. q \in Task /\ q.pc = "pick" /\ q.overlap = {}
    BY IdleType DEF IInv, IdleTask, Task
<1>2. Become(k, q) /\ UNCHANGED <<now, tiers, snaps, failures>>
    BY DEF Repair
<1> HIDE DEF q
<1>3. QED
    BY <1>1, <1>2, OthersKept, RowsKept DEF IInv

\* A task that stops leaves the invariant to the others.
LEMMA StopKept ==
    ASSUME IInv, NEW k \in Tasks, Become(k, IdleTask), UNCHANGED tiers
    PROVE  task' \in [Tasks -> Task] /\ \A j \in Tasks : TaskInv(j)'
<1>1. IdleTask.pc = "idle" /\ IdleTask.overlap = {}
    BY DEF IdleTask
<1>2. QED
    BY <1>1, IdleType, OthersKept

LEMMA PickKept ==
    ASSUME IInv, NEW k \in Tasks, Pick(k)
    PROVE  IInv'
<1>1. UNCHANGED <<now, tiers, snaps, failures>>
    BY DEF Pick
<1>2. CASE Become(k, IdleTask)
    BY <1>1, <1>2, StopKept, RowsKept DEF IInv
<1>3. CASE \E i \in DOMAIN snaps :
              Become(k, [task[k] EXCEPT !.pc = "clear", !.target = i])
    <2>1. PICK i \in DOMAIN snaps :
              Become(k, [task[k] EXCEPT !.pc = "clear", !.target = i])
        BY <1>3
    <2> DEFINE q == [task[k] EXCEPT !.pc = "clear", !.target = i]
    <2>2. i \in Nat /\ task[k] \in Task /\ task[k].overlap \subseteq DOMAIN tiers
        BY DEF IInv, TaskInv
    <2>3. q \in Task /\ q.pc = "clear" /\ q.overlap \subseteq DOMAIN tiers
        BY <2>2 DEF Task
    <2>4. Become(k, q)
        BY <2>1
    <2> HIDE DEF q
    <2>5. QED
        BY <1>1, <2>3, <2>4, OthersKept, RowsKept DEF IInv
<1>4. QED
    <2>1. ByTime(task[k].at) \subseteq DOMAIN snaps /\ Latest(DOMAIN snaps) \subseteq DOMAIN snaps
        BY DEF ByTime, Latest
    <2> DEFINE pool == IF ByTime(task[k].at) = {} THEN Latest(DOMAIN snaps)
                       ELSE ByTime(task[k].at)
    <2>2. \/ Become(k, IdleTask)
          \/ \E i \in pool : Become(k, [task[k] EXCEPT !.pc = "clear", !.target = i])
        BY DEF Pick
    <2>3. pool \subseteq DOMAIN snaps
        BY <2>1
    <2> HIDE DEF pool
    <2>4. QED
        BY <1>2, <1>3, <2>2, <2>3

LEMMA TickKept == ASSUME IInv, Tick PROVE IInv'
<1>1. now' \in Nat /\ UNCHANGED <<tiers, snaps, task, failures>>
    BY DEF IInv, Tick
<1>2. QED
    BY <1>1 DEF IInv, TaskInv, At, PaidRow, IsFree, AddMonths

LEMMA FailKept ==
    ASSUME IInv, NEW k \in Tasks, Fail(k)
    PROVE  IInv'
<1>1. failures' \in Nat /\ UNCHANGED <<now, tiers, snaps>>
    BY DEF IInv, Fail
<1>2. task' \in [Tasks -> Task] /\ \A j \in Tasks : TaskInv(j)'
    BY <1>1, StopKept DEF Fail
<1>3. QED
    BY <1>1, <1>2 DEF IInv, PaidRow, IsFree, AddMonths

LEMMA StepKept == IInv /\ [Next]_vars => IInv'
<1> SUFFICES ASSUME IInv, [Next]_vars PROVE IInv'
    OBVIOUS
<1>1. CASE UNCHANGED vars
    <2>1. UNCHANGED <<now, tiers, snaps, task, failures>>
        BY <1>1 DEF vars
    <2>2. task' \in [Tasks -> Task] /\ \A j \in Tasks : TaskInv(j)'
        BY <2>1 DEF IInv, TaskInv, At, IsFree
    <2>3. QED
        BY <2>1, <2>2, RowsKept DEF IInv
<1>2. CASE Tick
    BY <1>2, TickKept
<1>3. CASE \E k \in Tasks, p \in Plans, n \in Quantities : Purchase(k, p, n)
    BY <1>3, PurchaseKept
<1>4. CASE \E k \in Tasks : Continue(k)
    BY <1>4, SaveKept, LookupKept, ClearKept, MarkKept, InsertKept, ShiftKept,
       ReloadKept, ChangeLookupKept, ChangeInsertKept, PickKept DEF Continue
<1>5. CASE \E k \in Tasks : Sync(k) \/ Repair(k) \/ Fail(k)
    BY <1>5, SyncKept, RepairKept, FailKept
<1>6. QED
    BY <1>1, <1>2, <1>3, <1>4, <1>5 DEF Next

-----------------------------------------------------------------------------
(* The theorems *)

\* The strengthening below holds in every reachable state.
THEOREM Inductive == Spec => []IInv
    BY InitKept, StepKept, PTL DEF Spec

\* Rows and tasks keep the shape of the entities, for any bounds.
THEOREM TypeCorrect == Spec => []TypeOK
<1>1. IInv => TypeOK
    BY DEF IInv, TypeOK
<1>2. QED
    BY <1>1, Inductive, PTL

\* Purchases, upgrades that postpone other tiers, crashes half-way and any number
\* of them at once: a paid tier always lasts the months that were paid.
THEOREM PaidMonths == Spec => []PaidMonthsKept
<1>1. IInv => PaidMonthsKept
    BY DEF IInv, PaidRow, PaidMonthsKept
<1>2. QED
    BY <1>1, Inductive, PTL

-----------------------------------------------------------------------------
(* What a task that found a snapshot knows of it *)

\* Snapshots are never removed, and keep their plan and their beginning.
SnapsGrow ==
    \A i \in DOMAIN snaps : /\ i \in DOMAIN snaps'
                            /\ snaps'[i].plan = snaps[i].plan
                            /\ snaps'[i].from = snaps[i].from

\* A task at "mark" has a snapshot, one at "insert" has none; the snapshot that a
\* purchase found is that of its own plan and window.
TargetInv(k) ==
    LET q == task[k] IN
    /\ q.pc \in {"save", "lookup", "insert"} => q.target = 0
    /\ q.pc = "mark" => q.target # 0
    /\ q.target # 0 => q.target \in DOMAIN snaps
    /\ q.target # 0 /\ q.kind = "purchase" =>
           snaps[q.target].plan = q.plan /\ snaps[q.target].from = q.start
    /\ q.pc \in {"save", "lookup"} => q.kind = "purchase"
    /\ q.pc = "pick" => q.kind = "sync"
    /\ q.pc = "clear" /\ q.target = 0 => q.kind = "purchase"
    /\ q.pc = "shift" => q.todo \subseteq q.overlap

Targets == \A k \in Tasks : TargetInv(k)

LEMMA TargetIdle ==
    ASSUME NEW k \in Tasks, task'[k] = IdleTask
    PROVE  TargetInv(k)'
    BY DEF TargetInv, IdleTask

\* The other tasks keep what they know, the snapshots they know of being there.
LEMMA TargetsKept ==
    ASSUME Targets, SnapsGrow, NEW k \in Tasks, TargetInv(k)',
           \A j \in Tasks \ {k} : task'[j] = task[j]
    PROVE  Targets'
<1>1. ASSUME NEW j \in Tasks, j # k PROVE TargetInv(j)'
    <2>1. task'[j] = task[j] /\ TargetInv(j)
        BY <1>1 DEF Targets
    <2>2. QED
        BY <2>1 DEF TargetInv, SnapsGrow
<1>2. QED
    BY <1>1 DEF Targets

LEMMA AppendFacts ==
    ASSUME snaps \in Seq(Snap), NEW row, snaps' = Append(snaps, row)
    PROVE  /\ SnapsGrow
           /\ Len(snaps) + 1 \in DOMAIN snaps' /\ snaps'[Len(snaps) + 1] = row
           /\ DOMAIN snaps' = DOMAIN snaps \cup {Len(snaps) + 1}
           /\ \A i \in DOMAIN snaps : snaps'[i] = snaps[i]
<1>1. /\ Len(snaps) \in Nat /\ DOMAIN snaps = 1 .. Len(snaps)
      /\ DOMAIN snaps' = 1 .. (Len(snaps) + 1)
      /\ snaps'[Len(snaps) + 1] = row
      /\ \A i \in 1 .. Len(snaps) : snaps'[i] = snaps[i]
    OBVIOUS
<1>2. QED
    BY <1>1 DEF SnapsGrow

LEMMA ClearFacts ==
    ASSUME IInv, NEW k \in Tasks, Clear(k)
    PROVE  /\ SnapsGrow /\ DOMAIN snaps' = DOMAIN snaps
           /\ \A i \in DOMAIN snaps : snaps'[i].current = FALSE
<1>1. \A i \in DOMAIN snaps : snaps[i] \in Snap
    BY DEF IInv
<1>2. snaps' = [i \in DOMAIN snaps |-> [snaps[i] EXCEPT !.current = FALSE]]
    BY DEF Clear
<1>3. QED
    BY <1>1, <1>2 DEF SnapsGrow, Snap

LEMMA MarkFacts ==
    ASSUME IInv, Targets, NEW k \in Tasks, Mark(k)
    PROVE  /\ SnapsGrow /\ DOMAIN snaps' = DOMAIN snaps
           /\ task[k].target \in DOMAIN snaps
           /\ snaps'[task[k].target].current = TRUE
           /\ \A i \in DOMAIN snaps \ {task[k].target} : snaps'[i] = snaps[i]
<1>1. \A i \in DOMAIN snaps : snaps[i] \in Snap
    BY DEF IInv
<1>2. task[k].target \in DOMAIN snaps
    BY DEF Mark, At, Targets, TargetInv
<1>3. snaps' = [snaps EXCEPT ![task[k].target].current = TRUE]
    BY DEF Mark
<1>4. QED
    BY <1>1, <1>2, <1>3 DEF SnapsGrow, Snap

\* Every step leaves the snapshots there are.
LEMMA Growth ==
    ASSUME IInv, Targets, [Next]_vars
    PROVE  SnapsGrow
<1>1. ASSUME NEW k \in Tasks, Continue(k) PROVE SnapsGrow
    <2>1. CASE Insert(k)
        BY <2>1, AppendFacts DEF Insert, IInv
    <2>2. CASE ChangeInsert(k)
        BY <2>2, AppendFacts DEF ChangeInsert, IInv
    <2>3. CASE Clear(k)
        BY <2>3, ClearFacts
    <2>4. CASE Mark(k)
        BY <2>4, MarkFacts
    <2>5. CASE UNCHANGED snaps
        BY <2>5 DEF SnapsGrow
    <2>6. QED
        BY <1>1, <2>1, <2>2, <2>3, <2>4, <2>5 DEF Continue, Save, Lookup, Shift, Reload,
           ChangeLookup, Pick
<1>2. CASE UNCHANGED snaps
    BY <1>2 DEF SnapsGrow
<1>3. QED
    BY <1>1, <1>2 DEF Next, vars, Purchase, Sync, Repair, Fail, Tick

\* What a task becomes when its snapshot is there.
LEMMA AfterFacts ==
    ASSUME NEW q \in Task
    PROVE  \/ AfterSnapshot(q) = IdleTask
           \/ /\ q.kind = "purchase" /\ q.up
              /\ AfterSnapshot(q).pc = "shift"
              /\ AfterSnapshot(q).kind = q.kind /\ AfterSnapshot(q).plan = q.plan
              /\ AfterSnapshot(q).start = q.start /\ AfterSnapshot(q).target = q.target
              /\ AfterSnapshot(q).overlap = q.overlap /\ AfterSnapshot(q).todo = q.overlap
    BY DEF AfterSnapshot, Task

LEMMA AfterTarget ==
    ASSUME IInv, Targets, SnapsGrow, NEW k \in Tasks, task'[k] = AfterSnapshot(task[k])
    PROVE  TargetInv(k)'
<1>1. task[k] \in Task /\ TargetInv(k)
    BY DEF IInv, TaskInv, Targets
<1>2. CASE task'[k] = IdleTask
    BY <1>2, TargetIdle
<1>3. CASE AfterSnapshot(task[k]) # IdleTask
    BY <1>1, <1>3, AfterFacts DEF TargetInv, SnapsGrow
<1>4. QED
    BY <1>2, <1>3

\* Only one task changes in a step.
LEMMA BecomeFacts ==
    ASSUME IInv, NEW k \in Tasks, NEW q, Become(k, q)
    PROVE  task'[k] = q /\ \A j \in Tasks \ {k} : task'[j] = task[j]
    BY DEF Become, IInv

LEMMA GotoFacts ==
    ASSUME IInv, NEW k \in Tasks, NEW step, Goto(k, step)
    PROVE  /\ task'[k] = [task[k] EXCEPT !.pc = step]
           /\ \A j \in Tasks \ {k} : task'[j] = task[j]
           /\ task'[k].pc = step /\ task'[k].kind = task[k].kind
           /\ task'[k].plan = task[k].plan /\ task'[k].start = task[k].start
           /\ task'[k].up = task[k].up /\ task'[k].target = task[k].target
           /\ task'[k].overlap = task[k].overlap /\ task'[k].todo = task[k].todo
    BY DEF Goto, IInv, Task

LEMMA ShiftFacts ==
    ASSUME IInv, NEW k \in Tasks, Shift(k)
    PROVE  \E i \in task[k].todo :
               /\ tiers' = [tiers EXCEPT ![i] = Postponed(@, End(task[k]))]
               /\ task'[k].pc \in {"shift", "reload"} /\ task'[k].kind = task[k].kind
               /\ task'[k].plan = task[k].plan /\ task'[k].start = task[k].start
               /\ task'[k].target = task[k].target /\ task'[k].overlap = task[k].overlap
               /\ task'[k].todo = task[k].todo \ {i}
               /\ \A j \in Tasks \ {k} : task'[j] = task[j]
<1>1. task[k].pc = "shift" /\ task[k] \in Task /\ task \in [Tasks -> Task]
    BY DEF Shift, At, IInv
<1>2. PICK i \in task[k].todo :
          /\ tiers' = [tiers EXCEPT ![i] = Postponed(@, End(task[k]))]
          /\ task' = [task EXCEPT ![k].todo = @ \ {i},
                                  ![k].pc = IF task[k].todo = {i} THEN "reload" ELSE @]
    BY DEF Shift
<1>3. task'[k] = [task[k] EXCEPT !.todo = task[k].todo \ {i},
                                 !.pc = IF task[k].todo = {i} THEN "reload" ELSE "shift"]
    BY <1>1, <1>2
<1>4. QED
    BY <1>1, <1>2, <1>3 DEF Task

LEMMA ReloadFacts ==
    ASSUME IInv, NEW k \in Tasks, Reload(k)
    PROVE  /\ task'[k].pc = "change" /\ task'[k].kind = task[k].kind
           /\ task'[k].plan = task[k].plan /\ task'[k].start = task[k].start
           /\ task'[k].target = task[k].target
           /\ task'[k].due = {[tier |-> i, plan |-> tiers[i].plan,
                               from |-> tiers[i].start, to |-> tiers[i].end] :
                              i \in task[k].overlap}
           /\ \A j \in Tasks \ {k} : task'[j] = task[j]
    BY DEF Reload, IInv, Task

\* A parallel call leaves one window to do less, or one to insert more.
LEMMA ChangeFacts ==
    ASSUME IInv, NEW k \in Tasks, ChangeLookup(k) \/ ChangeInsert(k)
    PROVE  /\ \A j \in Tasks \ {k} : task'[j] = task[j]
           /\ task[k].pc = "change"
           /\ \E w \in task[k].due \cup task[k].adding :
                /\ \/ Existing(w.plan, w.from) # {}
                   \/ snaps' = Append(snaps, [plan |-> w.plan, from |-> w.from, to |-> w.to,
                                              current |-> FALSE])
                   \/ w \in task'[k].adding /\ task'[k].pc = "change"
                /\ \/ /\ task'[k] = IdleTask
                      /\ task[k].due \cup task[k].adding \subseteq {w}
                   \/ /\ task'[k].pc = "change" /\ task'[k].kind = task[k].kind
                      /\ task'[k].plan = task[k].plan /\ task'[k].start = task[k].start
                      /\ task'[k].target = task[k].target
                      /\ (task[k].due \cup task[k].adding) \ {w}
                             \subseteq task'[k].due \cup task'[k].adding
<1> DEFINE q == task[k]
<1>1. q \in Task
    BY DEF IInv
<1>2. ASSUME NEW w \in q.due, ChangeLookup(k),
             LET rest == [q EXCEPT !.due = @ \ {w}] IN
             IF Existing(w.plan, w.from) = {}
             THEN Become(k, [rest EXCEPT !.adding = @ \cup {w}])
             ELSE Become(k, IF rest.due = {} /\ rest.adding = {} THEN IdleTask ELSE rest)
      PROVE  /\ \A j \in Tasks \ {k} : task'[j] = task[j]
             /\ \/ Existing(w.plan, w.from) # {}
                \/ w \in task'[k].adding /\ task'[k].pc = "change"
             /\ \/ /\ task'[k] = IdleTask
                   /\ q.due \cup q.adding \subseteq {w}
                \/ /\ task'[k].pc = "change" /\ task'[k].kind = q.kind
                   /\ task'[k].plan = q.plan /\ task'[k].start = q.start
                   /\ task'[k].target = q.target
                   /\ (q.due \cup q.adding) \ {w} \subseteq task'[k].due \cup task'[k].adding
    <2>1. q.pc = "change"
        BY <1>2 DEF ChangeLookup, At
    <2> DEFINE rest == [q EXCEPT !.due = @ \ {w}]
               more == [rest EXCEPT !.adding = @ \cup {w}]
    <2>2. /\ rest.pc = "change" /\ rest.due = q.due \ {w} /\ rest.adding = q.adding
          /\ rest.kind = q.kind /\ rest.plan = q.plan /\ rest.start = q.start
          /\ rest.target = q.target
          /\ more.pc = "change" /\ more.due = q.due \ {w} /\ more.adding = q.adding \cup {w}
          /\ more.kind = q.kind /\ more.plan = q.plan /\ more.start = q.start
          /\ more.target = q.target
        BY <1>1, <2>1 DEF Task
    <2>3. IF Existing(w.plan, w.from) = {} THEN Become(k, more)
          ELSE Become(k, IF rest.due = {} /\ rest.adding = {} THEN IdleTask ELSE rest)
        BY <1>2
    <2> HIDE DEF rest, more
    <2>4. QED
        BY <2>2, <2>3, BecomeFacts
<1>3. ASSUME NEW w \in q.adding, ChangeInsert(k),
             LET rest == [q EXCEPT !.adding = @ \ {w}] IN
             Become(k, IF rest.due = {} /\ rest.adding = {} THEN IdleTask ELSE rest)
      PROVE  /\ \A j \in Tasks \ {k} : task'[j] = task[j]
             /\ \/ /\ task'[k] = IdleTask
                   /\ q.due \cup q.adding \subseteq {w}
                \/ /\ task'[k].pc = "change" /\ task'[k].kind = q.kind
                   /\ task'[k].plan = q.plan /\ task'[k].start = q.start
                   /\ task'[k].target = q.target
                   /\ (q.due \cup q.adding) \ {w} \subseteq task'[k].due \cup task'[k].adding
    <2>1. q.pc = "change"
        BY <1>3 DEF ChangeInsert, At
    <2> DEFINE rest == [q EXCEPT !.adding = @ \ {w}]
    <2>2. /\ rest.pc = "change" /\ rest.due = q.due /\ rest.adding = q.adding \ {w}
          /\ rest.kind = q.kind /\ rest.plan = q.plan /\ rest.start = q.start
          /\ rest.target = q.target
        BY <1>1, <2>1 DEF Task
    <2>3. Become(k, IF rest.due = {} /\ rest.adding = {} THEN IdleTask ELSE rest)
        BY SMTT(30), <1>3
    <2> HIDE DEF rest
    <2>4. QED
        BY <2>2, <2>3, BecomeFacts
<1>4. CASE ChangeLookup(k)
    BY <1>2, <1>4 DEF ChangeLookup, At
<1>5. CASE ChangeInsert(k)
    <2>1. PICK w \in q.adding :
              /\ snaps' = Append(snaps, [plan |-> w.plan, from |-> w.from, to |-> w.to,
                                         current |-> FALSE])
              /\ LET rest == [q EXCEPT !.adding = @ \ {w}] IN
                 Become(k, IF rest.due = {} /\ rest.adding = {} THEN IdleTask ELSE rest)
        BY <1>5 DEF ChangeInsert
    <2>2. QED
        BY <1>3, <1>5, <2>1 DEF ChangeInsert, At
<1>6. QED
    BY <1>4, <1>5

\* A task that starts.
LEMMA StartFacts ==
    ASSUME IInv, NEW k \in Tasks,
           \/ \E p \in Plans, n \in Quantities : Purchase(k, p, n)
           \/ Sync(k) \/ Repair(k)
    PROVE  /\ task[k].pc = "idle" /\ UNCHANGED <<tiers, snaps>>
           /\ \A j \in Tasks \ {k} : task'[j] = task[j]
           /\ \/ task'[k].pc = "save" /\ task'[k].kind = "purchase" /\ task'[k].target = 0
              \/ /\ task'[k].pc = "clear" /\ task'[k].kind = "sync"
                 /\ task'[k].target \in DOMAIN snaps /\ task'[k].target # 0
              \/ task'[k].pc = "pick" /\ task'[k].kind = "sync" /\ task'[k].target = 0
<1>1. ASSUME NEW p \in Plans, NEW n \in Quantities, Purchase(k, p, n)
      PROVE  /\ task[k].pc = "idle" /\ UNCHANGED <<tiers, snaps>>
             /\ \A j \in Tasks \ {k} : task'[j] = task[j]
             /\ task'[k].pc = "save" /\ task'[k].kind = "purchase" /\ task'[k].target = 0
    <2>1. /\ \E up, start : Buy(k, p, n, up, start)
          /\ task[k].pc = "idle" /\ UNCHANGED <<tiers, snaps>>
        BY <1>1 DEF Purchase, At
    <2>2. PICK up, start : Buy(k, p, n, up, start)
        BY <2>1
    <2> DEFINE q == [IdleTask EXCEPT !.pc = "save", !.kind = "purchase", !.plan = p,
                       !.months = n, !.at = now, !.up = up, !.start = start,
                       !.overlap = RunningTiers]
    <2>3. q.pc = "save" /\ q.kind = "purchase" /\ q.target = 0
        BY DEF IdleTask
    <2>4. Become(k, q)
        BY <2>2 DEF Buy
    <2> HIDE DEF q
    <2>5. QED
        BY <2>1, <2>3, <2>4, BecomeFacts
<1>2. ASSUME Sync(k)
      PROVE  /\ task[k].pc = "idle" /\ UNCHANGED <<tiers, snaps>>
             /\ \A j \in Tasks \ {k} : task'[j] = task[j]
             /\ task'[k].pc = "clear" /\ task'[k].kind = "sync"
             /\ task'[k].target \in DOMAIN snaps /\ task'[k].target # 0
    <2>1. PICK i \in ByTime(now) : Retarget(k, i)
        BY <1>2 DEF Sync
    <2>2. i \in DOMAIN snaps /\ i # 0
        BY DEF ByTime, Latest, IInv
    <2>3. QED
        BY <1>2, <2>1, <2>2 DEF Sync, Retarget, Become, At, IInv, IdleTask
<1>3. ASSUME Repair(k)
      PROVE  /\ task[k].pc = "idle" /\ UNCHANGED <<tiers, snaps>>
             /\ \A j \in Tasks \ {k} : task'[j] = task[j]
             /\ task'[k].pc = "pick" /\ task'[k].kind = "sync" /\ task'[k].target = 0
    BY <1>3 DEF Repair, Become, At, IInv, IdleTask
<1>4. QED
    BY <1>1, <1>2, <1>3

LEMMA PickFacts ==
    ASSUME IInv, Targets, NEW k \in Tasks, Pick(k)
    PROVE  /\ task[k].pc = "pick" /\ UNCHANGED <<tiers, snaps>>
           /\ \A j \in Tasks \ {k} : task'[j] = task[j]
           /\ \/ task'[k] = IdleTask
              \/ /\ task'[k].pc = "clear" /\ task'[k].kind = task[k].kind
                 /\ task'[k].target \in DOMAIN snaps /\ task'[k].target # 0
<1>1. CASE Become(k, IdleTask)
    BY <1>1, BecomeFacts DEF Pick, At
<1>2. ASSUME NEW i \in DOMAIN snaps, Become(k, [task[k] EXCEPT !.pc = "clear", !.target = i])
      PROVE  /\ \A j \in Tasks \ {k} : task'[j] = task[j]
             /\ task'[k].pc = "clear" /\ task'[k].kind = task[k].kind
             /\ task'[k].target = i /\ i # 0
    <2> DEFINE q == [task[k] EXCEPT !.pc = "clear", !.target = i]
    <2>1. task[k] \in Task /\ i # 0
        BY DEF IInv
    <2>2. q.pc = "clear" /\ q.target = i /\ q.kind = task[k].kind
        BY <2>1 DEF Task
    <2>3. Become(k, q)
        BY SMTT(30), <1>2
    <2> HIDE DEF q
    <2>4. QED
        BY <2>1, <2>2, <2>3, BecomeFacts
<1>3. QED
    BY <1>1, <1>2 DEF Pick, At, ByTime, Latest

\* A task that has looked its snapshot up.
LEMMA LookupFacts ==
    ASSUME IInv, Targets, NEW k \in Tasks, Lookup(k)
    PROVE  LET q == task[k] IN
           /\ q.pc = "lookup" /\ q.kind = "purchase" /\ q.target = 0
           /\ UNCHANGED <<tiers, snaps>>
           /\ \A j \in Tasks \ {k} : task'[j] = task[j]
           /\ \/ Existing(q.plan, q.start) = {} /\ Goto(k, IF q.up THEN "clear" ELSE "insert")
              \/ \E i \in Existing(q.plan, q.start) :
                    \/ /\ task'[k].pc = "clear" /\ task'[k].target = i
                       /\ task'[k].kind = q.kind /\ task'[k].plan = q.plan
                       /\ task'[k].start = q.start
                    \/ /\ task'[k] = AfterSnapshot(q)
                       /\ q.up => snaps[i].current
<1> DEFINE q == task[k]
<1>1. /\ q.pc = "lookup" /\ q.kind = "purchase" /\ q.target = 0 /\ q \in Task
      /\ UNCHANGED <<tiers, snaps>>
    BY DEF Lookup, At, Targets, TargetInv, IInv
<1>2. CASE Existing(q.plan, q.start) = {} /\ Goto(k, IF q.up THEN "clear" ELSE "insert")
    BY <1>1, <1>2, GotoFacts
<1>3. ASSUME NEW i \in Existing(q.plan, q.start),
             Become(k, IF q.up /\ ~snaps[i].current
                       THEN [q EXCEPT !.pc = "clear", !.target = i]
                       ELSE AfterSnapshot(q))
      PROVE  /\ \A j \in Tasks \ {k} : task'[j] = task[j]
             /\ \/ /\ task'[k].pc = "clear" /\ task'[k].target = i
                   /\ task'[k].kind = q.kind /\ task'[k].plan = q.plan
                   /\ task'[k].start = q.start
                \/ /\ task'[k] = AfterSnapshot(q)
                   /\ q.up => snaps[i].current
    <2> DEFINE c == [q EXCEPT !.pc = "clear", !.target = i]
    <2>1. c.pc = "clear" /\ c.target = i /\ c.kind = q.kind /\ c.plan = q.plan
          /\ c.start = q.start
        BY <1>1 DEF Task
    <2> HIDE DEF c
    <2>2. CASE q.up /\ ~snaps[i].current
        <3>1. Become(k, c)
            BY <1>3, <2>2 DEF c
        <3>2. QED
            BY <2>1, <3>1, BecomeFacts
    <2>3. CASE ~(q.up /\ ~snaps[i].current)
        <3>1. Become(k, AfterSnapshot(q))
            BY <1>3, <2>3
        <3>2. QED
            BY <2>3, <3>1, BecomeFacts
    <2>4. QED
        BY <2>2, <2>3
<1>4. QED
    BY <1>1, <1>2, <1>3 DEF Lookup

\* Whatever a task knows of its snapshot stays true.
LEMMA TargetStep == IInv /\ Targets /\ [Next]_vars => Targets'
<1> SUFFICES ASSUME IInv, Targets, [Next]_vars PROVE Targets'
    OBVIOUS
<1>1. SnapsGrow
    BY Growth
<1>2. ASSUME NEW k \in Tasks,
             \/ \E p \in Plans, n \in Quantities : Purchase(k, p, n)
             \/ Sync(k) \/ Repair(k)
      PROVE  Targets'
    <2>1. TargetInv(k)'
        BY <1>2, StartFacts DEF TargetInv
    <2>2. QED
        BY <1>1, <1>2, <2>1, StartFacts, TargetsKept
<1>3. ASSUME NEW k \in Tasks, Fail(k) PROVE Targets'
    <2>1. task'[k] = IdleTask /\ \A j \in Tasks \ {k} : task'[j] = task[j]
        BY <1>3, BecomeFacts DEF Fail
    <2>2. QED
        BY <1>1, <2>1, TargetIdle, TargetsKept
<1>4. ASSUME NEW k \in Tasks, Save(k) PROVE Targets'
    <2>1. Goto(k, "lookup") /\ task[k].pc = "save" /\ UNCHANGED snaps /\ TargetInv(k)
        BY <1>4 DEF Save, At, Targets
    <2>2. task[k].kind = "purchase"
        BY <2>1 DEF TargetInv
    <2>3. /\ task'[k].pc = "lookup" /\ task'[k].kind = "purchase"
          /\ task'[k].target = 0 /\ \A j \in Tasks \ {k} : task'[j] = task[j]
        BY <2>1, <2>2, GotoFacts DEF TargetInv
    <2>4. TargetInv(k)'
        BY <2>3 DEF TargetInv
    <2>5. QED
        BY <1>1, <2>3, <2>4, TargetsKept
<1>5. ASSUME NEW k \in Tasks, Lookup(k) PROVE Targets'
    <2>1. TargetInv(k) /\ \A i \in DOMAIN snaps : i # 0
        BY DEF Targets, IInv
    <2>2. CASE Goto(k, IF task[k].up THEN "clear" ELSE "insert")
        <3>1. /\ task'[k].pc \in {"clear", "insert"} /\ task'[k].kind = "purchase"
              /\ task'[k].target = 0 /\ \A j \in Tasks \ {k} : task'[j] = task[j]
            BY ZenonT(40), <1>5, <2>2, LookupFacts, GotoFacts
        <3>2. TargetInv(k)'
            BY <3>1 DEF TargetInv
        <3>3. QED
            BY <1>1, <3>1, <3>2, TargetsKept
    <2>3. ASSUME NEW i \in Existing(task[k].plan, task[k].start),
                 task'[k].pc = "clear", task'[k].target = i, task'[k].kind = task[k].kind,
                 task'[k].plan = task[k].plan, task'[k].start = task[k].start
          PROVE  Targets'
        <3>1. i \in DOMAIN snaps /\ snaps[i].plan = task[k].plan /\ snaps[i].from = task[k].start
            BY DEF Existing
        <3>2. TargetInv(k)'
            BY <1>1, <2>1, <2>3, <3>1 DEF TargetInv, SnapsGrow
        <3>3. QED
            BY <1>1, <1>5, <3>2, LookupFacts, TargetsKept
    <2>4. CASE task'[k] = AfterSnapshot(task[k])
        BY <1>1, <1>5, <2>4, LookupFacts, AfterTarget, TargetsKept
    <2>5. QED
        BY <1>5, <2>2, <2>3, <2>4, LookupFacts
<1>6. ASSUME NEW k \in Tasks, Clear(k) PROVE Targets'
    <2>1. PICK step \in {"insert", "mark"} :
              Goto(k, step) /\ (step = "insert" <=> task[k].target = 0)
        BY <1>6 DEF Clear
    <2>2. /\ task'[k].pc = step /\ task'[k].kind = task[k].kind
          /\ task'[k].plan = task[k].plan /\ task'[k].start = task[k].start
          /\ task'[k].target = task[k].target
          /\ \A j \in Tasks \ {k} : task'[j] = task[j]
        BY <2>1, GotoFacts
    <2>3. TargetInv(k)
        BY DEF Targets
    <2>4. TargetInv(k)'
        BY <1>1, <2>1, <2>2, <2>3 DEF TargetInv, SnapsGrow
    <2>5. QED
        BY <1>1, <2>2, <2>4, TargetsKept
<1>7. ASSUME NEW k \in Tasks, Mark(k) \/ Insert(k) PROVE Targets'
    <2>1. Become(k, AfterSnapshot(task[k]))
        BY <1>7 DEF Mark, Insert
    <2>2. QED
        BY <1>1, <2>1, BecomeFacts, AfterTarget, TargetsKept
<1>8. ASSUME NEW k \in Tasks, Shift(k) PROVE Targets'
    <2>1. task[k].pc = "shift" /\ TargetInv(k)
        BY <1>8 DEF Shift, At, Targets
    <2>2. TargetInv(k)'
        BY <1>1, <1>8, <2>1, ShiftFacts DEF TargetInv, SnapsGrow
    <2>3. QED
        BY <1>1, <1>8, <2>2, ShiftFacts, TargetsKept
<1>9. ASSUME NEW k \in Tasks, Reload(k) PROVE Targets'
    <2>1. TargetInv(k)
        BY DEF Targets
    <2>2. TargetInv(k)'
        BY <1>1, <1>9, <2>1, ReloadFacts DEF TargetInv, SnapsGrow
    <2>3. QED
        BY <1>1, <1>9, <2>2, ReloadFacts, TargetsKept
<1>10. ASSUME NEW k \in Tasks, ChangeLookup(k) \/ ChangeInsert(k) PROVE Targets'
    <2>1. TargetInv(k)
        BY DEF Targets
    <2>2. CASE task'[k] = IdleTask
        BY <1>1, <1>10, <2>2, TargetIdle, ChangeFacts, TargetsKept
    <2>3. CASE /\ task'[k].pc = "change" /\ task'[k].kind = task[k].kind
               /\ task'[k].plan = task[k].plan /\ task'[k].start = task[k].start
               /\ task'[k].target = task[k].target
        <3>1. TargetInv(k)'
            BY <1>1, <2>1, <2>3 DEF TargetInv, SnapsGrow
        <3>2. QED
            BY <1>1, <1>10, <3>1, ChangeFacts, TargetsKept
    <2>4. QED
        BY <1>10, <2>2, <2>3, ChangeFacts
<1>11. ASSUME NEW k \in Tasks, Pick(k) PROVE Targets'
    <2>1. CASE task'[k] = IdleTask
        BY <1>1, <1>11, <2>1, TargetIdle, PickFacts, TargetsKept
    <2>2. CASE /\ task'[k].pc = "clear" /\ task'[k].kind = task[k].kind
               /\ task'[k].target \in DOMAIN snaps /\ task'[k].target # 0
        <3>1. task[k].kind = "sync"
            BY <1>11 DEF Pick, At, Targets, TargetInv
        <3>2. TargetInv(k)'
            BY <1>1, <2>2, <3>1 DEF TargetInv, SnapsGrow
        <3>3. QED
            BY <1>1, <1>11, <3>2, PickFacts, TargetsKept
    <2>3. QED
        BY <1>11, <2>1, <2>2, PickFacts
<1>12. CASE Tick \/ UNCHANGED vars
    <2>1. task' = task
        BY <1>12 DEF Tick, vars
    <2>2. QED
        BY <1>1, <2>1 DEF Targets, TargetInv, SnapsGrow
<1>13. QED
    BY <1>2, <1>3, <1>4, <1>5, <1>6, <1>7, <1>8, <1>9, <1>10, <1>11, <1>12 DEF Next, Continue

LEMMA TargetInit == Init => Targets
    BY DEF Init, Targets, TargetInv, IdleTask

-----------------------------------------------------------------------------
(* Every tier has a snapshot, or a task that will insert it *)

Found(i) == Existing(tiers[i].plan, tiers[i].start) # {}

\* Task k has yet to look for, or insert, the snapshot of tier i.
Covers(k, i) ==
    LET q == task[k] IN
    \/ /\ q.pc \in {"lookup", "insert"} \/ (q.pc = "clear" /\ q.target = 0)
       /\ q.plan = tiers[i].plan /\ q.start = tiers[i].start
    \/ q.pc \in {"shift", "reload"} /\ i \in q.overlap /\ (q.pc = "shift" => i \notin q.todo)
    \/ q.pc = "change" /\ \E w \in q.due \cup q.adding :
                              w.plan = tiers[i].plan /\ w.from = tiers[i].start

Covered == \A i \in DOMAIN tiers : Found(i) \/ \E k \in Tasks : Covers(k, i)

LEMMA FoundKept ==
    ASSUME SnapsGrow, NEW i, tiers'[i].plan = tiers[i].plan,
           tiers'[i].start = tiers[i].start, Found(i)
    PROVE  Found(i)'
    BY DEF Found, Existing, SnapsGrow

\* A task that moves on leaves the other tasks what they cover.
LEMMA CoveredKept ==
    ASSUME Covered, SnapsGrow, NEW k \in Tasks, \A j \in Tasks \ {k} : task'[j] = task[j],
           UNCHANGED tiers,
           \A i \in DOMAIN tiers : Covers(k, i) => Covers(k, i)' \/ Found(i) \/ Found(i)'
    PROVE  Covered'
<1>1. ASSUME NEW i \in DOMAIN tiers' PROVE Found(i)' \/ \E j \in Tasks : Covers(j, i)'
    <2>1. i \in DOMAIN tiers /\ tiers'[i] = tiers[i]
        OBVIOUS
    <2>2. Found(i) => Found(i)'
        BY <2>1, FoundKept
    <2>3. ASSUME NEW j \in Tasks, j # k, Covers(j, i) PROVE Covers(j, i)'
        BY <2>1, <2>3 DEF Covers
    <2>4. QED
        BY <2>1, <2>2, <2>3 DEF Covered
<1>2. QED
    BY <1>1 DEF Covered

\* A tier just bought is covered by the task that saved it.
LEMMA CoveredSave ==
    ASSUME IInv, Covered, NEW k \in Tasks, Save(k)
    PROVE  Covered'
<1> DEFINE q == task[k]
           row == [plan |-> q.plan, start |-> q.start, end |-> End(q), months |-> q.months]
           n == Len(tiers) + 1
<1>1. tiers \in Seq(Tier) /\ tiers' = Append(tiers, row) /\ UNCHANGED snaps
    BY DEF Save, IInv
<1>2. /\ Len(tiers) \in Nat /\ DOMAIN tiers = 1 .. Len(tiers)
      /\ DOMAIN tiers' = 1 .. n
      /\ tiers'[n] = row
      /\ \A i \in 1 .. Len(tiers) : tiers'[i] = tiers[i]
    BY <1>1
<1>3. row.plan = q.plan /\ row.start = q.start
    OBVIOUS
<1> HIDE DEF row
<1>4. /\ q.pc = "save" /\ task'[k].pc = "lookup" /\ task'[k].plan = q.plan
      /\ task'[k].start = q.start /\ \A j \in Tasks \ {k} : task'[j] = task[j]
    BY GotoFacts DEF Save, At
<1>5. ASSUME NEW i \in DOMAIN tiers', i = n PROVE Covers(k, i)'
    BY <1>2, <1>3, <1>4, <1>5 DEF Covers
<1>6. ASSUME NEW i \in 1 .. Len(tiers) PROVE Found(i)' \/ \E j \in Tasks : Covers(j, i)'
    <2>1. tiers'[i] = tiers[i] /\ i \in DOMAIN tiers
        BY <1>2
    <2>2. Found(i) => Found(i)'
        BY <1>1, <2>1 DEF Found, Existing
    <2>3. ~Covers(k, i)
        BY <1>4 DEF Covers
    <2>4. ASSUME NEW j \in Tasks, j # k, Covers(j, i) PROVE Covers(j, i)'
        BY <1>4, <2>1, <2>4 DEF Covers
    <2>5. QED
        BY <2>1, <2>2, <2>3, <2>4 DEF Covered
<1>7. \A i \in DOMAIN tiers' : i = n \/ i \in 1 .. Len(tiers)
    BY <1>2
<1>8. ASSUME NEW i \in DOMAIN tiers' PROVE Found(i)' \/ \E j \in Tasks : Covers(j, i)'
    <2>1. CASE i = n
        BY <1>5, <2>1
    <2>2. QED
        BY <1>6, <1>7, <2>1
<1>9. QED
    BY <1>8 DEF Covered

\* A tier that is postponed is covered from then on by the task that did it,
\* whatever covered it before.
LEMMA CoveredShift ==
    ASSUME IInv, Targets, Covered, NEW k \in Tasks, Shift(k)
    PROVE  Covered'
<1> DEFINE q == task[k]
<1>1. /\ q.pc = "shift" /\ q.todo \subseteq q.overlap /\ q.overlap \subseteq DOMAIN tiers
      /\ UNCHANGED snaps /\ tiers \in Seq(Tier)
    BY DEF Shift, At, Targets, TargetInv, IInv, TaskInv
<1>2. PICK x \in q.todo :
          /\ tiers' = [tiers EXCEPT ![x] = Postponed(@, End(q))]
          /\ task'[k].pc \in {"shift", "reload"} /\ task'[k].overlap = q.overlap
          /\ task'[k].todo = q.todo \ {x}
          /\ \A j \in Tasks \ {k} : task'[j] = task[j]
    BY ShiftFacts
<1>3. DOMAIN tiers' = DOMAIN tiers /\ \A i \in DOMAIN tiers \ {x} : tiers'[i] = tiers[i]
    BY <1>2
<1>4. ASSUME NEW i \in DOMAIN tiers PROVE Found(i)' \/ \E j \in Tasks : Covers(j, i)'
    <2>1. CASE i = x
        BY <1>1, <1>2, <2>1 DEF Covers
    <2>2. CASE i # x
        <3>1. tiers'[i] = tiers[i]
            BY <1>3, <2>2
        <3>2. Found(i) => Found(i)'
            BY <1>1, <3>1 DEF Found, Existing
        <3>3. Covers(k, i) => Covers(k, i)'
            BY <1>1, <1>2, <3>1 DEF Covers
        <3>4. ASSUME NEW j \in Tasks, j # k, Covers(j, i) PROVE Covers(j, i)'
            BY <1>2, <3>1, <3>4 DEF Covers
        <3>5. QED
            BY <3>2, <3>3, <3>4 DEF Covered
    <2>3. QED
        BY <2>1, <2>2
<1>5. QED
    BY <1>3, <1>4 DEF Covered

LEMMA CoveredContinue ==
    ASSUME IInv, Targets, Covered, SnapsGrow, NEW k \in Tasks, Continue(k)
    PROVE  Covered'
<1> DEFINE q == task[k]
<1>0. q \in Task
    BY DEF IInv
<1>1. CASE Save(k)
    BY <1>1, CoveredSave
<1>2. CASE Shift(k)
    BY <1>2, CoveredShift
<1>3. CASE Lookup(k)
    <2>1. q.pc = "lookup" /\ q.target = 0 /\ UNCHANGED tiers
          /\ \A j \in Tasks \ {k} : task'[j] = task[j]
        BY <1>3, LookupFacts
    <2>2. CASE Goto(k, IF q.up THEN "clear" ELSE "insert")
        <3>1. /\ task'[k].pc \in {"clear", "insert"} /\ task'[k].target = 0
              /\ task'[k].plan = q.plan /\ task'[k].start = q.start
            BY <2>1, <2>2, GotoFacts
        <3>2. \A i \in DOMAIN tiers : Covers(k, i) => Covers(k, i)'
            BY <2>1, <3>1 DEF Covers
        <3>3. QED
            BY <2>1, <3>2, CoveredKept
    <2>3. CASE Existing(q.plan, q.start) # {}
        <3>1. \A i \in DOMAIN tiers : Covers(k, i) => Found(i)
            BY <2>1, <2>3 DEF Covers, Found
        <3>2. QED
            BY <2>1, <3>1, CoveredKept
    <2>4. QED
        BY <1>3, <2>2, <2>3, LookupFacts
<1>4. CASE Clear(k)
    <2>1. /\ q.pc = "clear" /\ UNCHANGED tiers
          /\ Goto(k, IF q.target = 0 THEN "insert" ELSE "mark")
        BY <1>4 DEF Clear, At
    <2>2. /\ task'[k].plan = q.plan /\ task'[k].start = q.start
          /\ q.target = 0 => task'[k].pc = "insert"
          /\ \A j \in Tasks \ {k} : task'[j] = task[j]
        BY <2>1, GotoFacts
    <2>3. \A i \in DOMAIN tiers : Covers(k, i) => Covers(k, i)'
        BY <2>1, <2>2 DEF Covers
    <2>4. QED
        BY <2>1, <2>2, <2>3, CoveredKept
<1>5. CASE Mark(k)
    <2>1. q.pc = "mark" /\ UNCHANGED tiers /\ Become(k, AfterSnapshot(q))
        BY <1>5 DEF Mark, At
    <2>2. \A i \in DOMAIN tiers : ~Covers(k, i)
        BY <2>1 DEF Covers
    <2>3. QED
        BY <2>1, <2>2, BecomeFacts, CoveredKept
<1>6. CASE Insert(k)
    <2> DEFINE row == [plan |-> q.plan, from |-> q.start, to |-> End(q), current |-> q.up]
    <2>1. q.pc = "insert" /\ UNCHANGED tiers /\ Become(k, AfterSnapshot(q))
          /\ snaps' = Append(snaps, row) /\ snaps \in Seq(Snap)
        BY <1>6 DEF Insert, At, IInv
    <2>2. row.plan = q.plan /\ row.from = q.start
        OBVIOUS
    <2> HIDE DEF row
    <2>3. Len(snaps) + 1 \in DOMAIN snaps' /\ snaps'[Len(snaps) + 1] = row
        BY <2>1, AppendFacts
    <2>4. \A i \in DOMAIN tiers : Covers(k, i) => Found(i)'
        BY <2>1, <2>2, <2>3 DEF Covers, Found, Existing
    <2>5. QED
        BY <2>1, <2>4, BecomeFacts, CoveredKept
<1>7. CASE Reload(k)
    <2>1. q.pc = "reload" /\ UNCHANGED tiers
        BY <1>7 DEF Reload, At
    <2>2. /\ task'[k].pc = "change" /\ \A j \in Tasks \ {k} : task'[j] = task[j]
          /\ task'[k].due = {[tier |-> i, plan |-> tiers[i].plan,
                              from |-> tiers[i].start, to |-> tiers[i].end] : i \in q.overlap}
        BY <1>7, ReloadFacts
    <2>3. ASSUME NEW i \in DOMAIN tiers, Covers(k, i) PROVE Covers(k, i)'
        <3>1. i \in q.overlap
            BY <2>1, <2>3 DEF Covers
        <3> DEFINE w == [tier |-> i, plan |-> tiers[i].plan,
                         from |-> tiers[i].start, to |-> tiers[i].end]
        <3>2. w \in task'[k].due /\ w.plan = tiers'[i].plan /\ w.from = tiers'[i].start
            BY <2>1, <2>2, <3>1
        <3> HIDE DEF w
        <3>3. QED
            BY <2>2, <3>2 DEF Covers
    <2>4. QED
        BY <2>1, <2>2, <2>3, CoveredKept
<1>8. CASE ChangeLookup(k) \/ ChangeInsert(k)
    <2>1. UNCHANGED tiers /\ snaps \in Seq(Snap)
        BY <1>8 DEF ChangeLookup, ChangeInsert, IInv
    <2>2. q.pc = "change" /\ \A j \in Tasks \ {k} : task'[j] = task[j]
        BY <1>8, ChangeFacts
    <2>3. PICK w \in q.due \cup q.adding :
              /\ \/ Existing(w.plan, w.from) # {}
                 \/ snaps' = Append(snaps, [plan |-> w.plan, from |-> w.from, to |-> w.to,
                                            current |-> FALSE])
                 \/ w \in task'[k].adding /\ task'[k].pc = "change"
              /\ \/ /\ task'[k] = IdleTask
                    /\ q.due \cup q.adding \subseteq {w}
                 \/ /\ task'[k].pc = "change"
                    /\ (q.due \cup q.adding) \ {w} \subseteq task'[k].due \cup task'[k].adding
        BY <1>8, ChangeFacts
    <2>4. ASSUME NEW i \in DOMAIN tiers, w.plan = tiers[i].plan, w.from = tiers[i].start
          PROVE  Covers(k, i)' \/ Found(i) \/ Found(i)'
        <3>1. CASE Existing(w.plan, w.from) # {}
            BY <2>4, <3>1 DEF Found
        <3>2. CASE w \in task'[k].adding /\ task'[k].pc = "change"
            BY <2>1, <2>4, <3>2 DEF Covers
        <3>3. CASE snaps' = Append(snaps, [plan |-> w.plan, from |-> w.from, to |-> w.to,
                                           current |-> FALSE])
            <4> DEFINE row == [plan |-> w.plan, from |-> w.from, to |-> w.to,
                               current |-> FALSE]
            <4>1. row.plan = w.plan /\ row.from = w.from
                OBVIOUS
            <4>2. snaps' = Append(snaps, row)
                BY <3>3
            <4> HIDE DEF row
            <4>3. Len(snaps) + 1 \in DOMAIN snaps' /\ snaps'[Len(snaps) + 1] = row
                BY <2>1, <4>2, AppendFacts
            <4>4. QED
                BY <2>1, <2>4, <4>1, <4>3 DEF Found, Existing
        <3>4. QED
            BY <2>3, <3>1, <3>2, <3>3
    <2>5. ASSUME NEW i \in DOMAIN tiers, Covers(k, i)
          PROVE  Covers(k, i)' \/ Found(i) \/ Found(i)'
        <3>1. PICK v \in q.due \cup q.adding : v.plan = tiers[i].plan /\ v.from = tiers[i].start
            BY <2>2, <2>5 DEF Covers
        <3>2. CASE v = w
            BY <2>4, <3>1, <3>2
        <3>3. CASE v # w
            <4>1. task'[k].pc = "change" /\ v \in task'[k].due \cup task'[k].adding
                BY <2>3, <3>1, <3>3
            <4>2. QED
                BY <2>1, <3>1, <4>1 DEF Covers
        <3>4. QED
            BY <3>2, <3>3
    <2>6. QED
        BY <2>1, <2>2, <2>5, CoveredKept
<1>9. CASE Pick(k)
    <2>1. \A i \in DOMAIN tiers : ~Covers(k, i)
        BY <1>9, PickFacts DEF Covers
    <2>2. QED
        BY <1>9, <2>1, PickFacts, CoveredKept
<1>10. QED
    BY <1>1, <1>2, <1>3, <1>4, <1>5, <1>6, <1>7, <1>8, <1>9 DEF Continue

LEMMA CoveredStep ==
    ASSUME MaxFailures = 0
    PROVE  IInv /\ Targets /\ Covered /\ [Next]_vars => Covered'
<1> SUFFICES ASSUME IInv, Targets, Covered, [Next]_vars PROVE Covered'
    OBVIOUS
<1>1. SnapsGrow
    BY Growth
<1>2. ASSUME NEW k \in Tasks,
             \/ \E p \in Plans, n \in Quantities : Purchase(k, p, n)
             \/ Sync(k) \/ Repair(k)
      PROVE  Covered'
    <2>1. \A i \in DOMAIN tiers : ~Covers(k, i)
        BY <1>2, StartFacts DEF Covers
    <2>2. QED
        BY <1>1, <1>2, <2>1, StartFacts, CoveredKept
<1>3. ASSUME NEW k \in Tasks, Fail(k) PROVE Covered'
    BY <1>3 DEF Fail, IInv
<1>4. ASSUME NEW k \in Tasks, Continue(k) PROVE Covered'
    BY <1>1, <1>4, CoveredContinue
<1>5. CASE Tick \/ UNCHANGED vars
    <2>1. UNCHANGED <<tiers, snaps, task>>
        BY <1>5 DEF Tick, vars
    <2>2. QED
        BY <2>1 DEF Covered, Covers, Found, Existing
<1>6. QED
    BY <1>2, <1>3, <1>4, <1>5 DEF Next

LEMMA CoveredInit == Init => Covered
<1> SUFFICES ASSUME Init, NEW i \in DOMAIN tiers PROVE Found(i)
    BY DEF Covered
<1>1. /\ tiers = <<[plan |-> Free, start |-> 0, end |-> Never, months |-> -1]>>
      /\ snaps = <<[plan |-> Free, from |-> 0, to |-> Never, current |-> TRUE]>>
    BY DEF Init
<1>2. i = 1 /\ 1 \in DOMAIN snaps /\ tiers[i].plan = Free /\ tiers[i].start = 0
      /\ snaps[1].plan = Free /\ snaps[1].from = 0
    BY <1>1
<1>3. QED
    BY <1>2 DEF Found, Existing

\* Purchases that interleave, and postpone the same tiers, leave every tier a
\* snapshot that starts with it, as long as none of them fails half-way.
THEOREM TierSnapshots ==
    ASSUME MaxFailures = 0
    PROVE  Spec => []TierHasSnapshot
<1>1. IInv /\ Covered => TierHasSnapshot
    BY DEF Covered, Covers, Found, TierHasSnapshot, Quiet, At
<1>2. IInv /\ Targets /\ Covered /\ [Next]_vars => Covered'
    BY CoveredStep
<1>3. QED
    BY Inductive, TargetInit, TargetStep, CoveredInit, <1>1, <1>2, PTL DEF Spec

-----------------------------------------------------------------------------
(* Tasks that run one at a time mark one snapshot *)

\* Whoever is about to mark has cleared every mark; an upgrade whose snapshot is
\* there has marked it.
OneInv(k) ==
    LET q == task[k] IN
    /\ \A i, j \in Marked : i = j
    /\ q.pc = "mark" => Marked = {}
    /\ q.pc = "insert" /\ q.up => Marked = {}
    /\ q.pc = "shift" => \E i \in Marked : snaps[i].plan = q.plan

\* A task that goes elsewhere, the snapshots being left alone.
LEMMA OneUnmoved ==
    ASSUME NEW k \in Tasks, OneInv(k), UNCHANGED snaps,
           task'[k].pc \notin {"mark", "insert", "shift"}
    PROVE  OneInv(k)'
    BY DEF OneInv, Marked

\* A task whose snapshot is there, and marked if it is that of an upgrade.
LEMMA OneAfter ==
    ASSUME IInv, NEW k \in Tasks, task'[k] = AfterSnapshot(task[k]),
           \A i, j \in Marked' : i = j,
           task[k].up => \E i \in Marked' : snaps'[i].plan = task[k].plan
    PROVE  OneInv(k)'
<1>1. task[k] \in Task
    BY DEF IInv
<1>2. CASE AfterSnapshot(task[k]) = IdleTask
    BY <1>2 DEF OneInv, IdleTask
<1>3. CASE AfterSnapshot(task[k]) # IdleTask
    <2>1. /\ task[k].up /\ task'[k].pc = "shift" /\ task'[k].plan = task[k].plan
        BY <1>1, <1>3, AfterFacts
    <2>2. QED
        BY <2>1 DEF OneInv
<1>4. QED
    BY <1>2, <1>3

\* A parallel call leaves its task where it is, or ends it.
LEMMA ChangeEnds ==
    ASSUME IInv, NEW k \in Tasks, ChangeLookup(k) \/ ChangeInsert(k)
    PROVE  task'[k].pc \in {"idle", "change"}
<1>1. IdleTask.pc = "idle"
    BY DEF IdleTask
<1>2. task'[k] = IdleTask \/ task'[k].pc = "change"
    BY ChangeFacts
<1>3. QED
    BY <1>1, <1>2

LEMMA OneContinue ==
    ASSUME IInv, Targets, NEW k \in Tasks, OneInv(k), Continue(k)
    PROVE  OneInv(k)'
<1> DEFINE q == task[k]
<1>1. CASE Lookup(k)
    <2>1. q.pc = "lookup" /\ UNCHANGED snaps /\ (\A i, j \in Marked : i = j)
        BY <1>1, LookupFacts DEF OneInv
    <2>2. CASE Goto(k, IF q.up THEN "clear" ELSE "insert")
        <3>1. CASE q.up
            <4>1. task'[k].pc = "clear"
                BY <2>2, <3>1, GotoFacts
            <4>2. QED
                BY <2>1, <4>1, OneUnmoved
        <3>2. CASE ~q.up
            <4>1. task'[k].pc = "insert" /\ ~task'[k].up
                BY <2>2, <3>2, GotoFacts
            <4>2. QED
                BY <2>1, <4>1 DEF OneInv, Marked
        <3>3. QED
            BY <3>1, <3>2
    <2>3. ASSUME task'[k].pc = "clear" PROVE OneInv(k)'
        BY <2>1, <2>3, OneUnmoved
    <2>4. ASSUME NEW i \in Existing(q.plan, q.start), task'[k] = AfterSnapshot(q),
                 q.up => snaps[i].current
          PROVE  OneInv(k)'
        <3>1. q.up => i \in Marked' /\ snaps'[i].plan = q.plan
            BY <2>1, <2>4 DEF Existing, Marked
        <3>2. \A x, y \in Marked' : x = y
            BY <2>1 DEF Marked
        <3>3. QED
            BY <2>4, <3>1, <3>2, OneAfter
    <2>5. QED
        BY <1>1, <2>2, <2>3, <2>4, LookupFacts
<1>2. CASE Clear(k)
    <2>1. Marked' = {}
        BY <1>2, ClearFacts DEF Marked
    <2>2. task'[k].pc \in {"insert", "mark"}
        BY <1>2, GotoFacts DEF Clear
    <2>3. QED
        BY <2>1, <2>2 DEF OneInv
<1>3. CASE Mark(k)
    <2>1. q.pc = "mark" /\ q.target # 0 /\ Marked = {} /\ Become(k, AfterSnapshot(q))
        BY <1>3 DEF Mark, At, OneInv, Targets, TargetInv
    <2>2. Marked' = {q.target}
        BY <1>3, <2>1, MarkFacts DEF Marked
    <2>3. task'[k] = AfterSnapshot(q)
        BY <2>1, BecomeFacts
    <2>4. CASE AfterSnapshot(q) = IdleTask
        BY <2>2, <2>3, <2>4 DEF OneInv, IdleTask
    <2>5. CASE AfterSnapshot(q) # IdleTask
        <3>1. q.kind = "purchase" /\ task'[k].pc = "shift" /\ task'[k].plan = q.plan
            BY <2>3, <2>5, AfterFacts DEF IInv
        <3>2. snaps[q.target].plan = q.plan /\ q.target \in DOMAIN snaps
            BY <2>1, <3>1 DEF Targets, TargetInv
        <3>3. snaps'[q.target].plan = q.plan
            BY <1>3, <3>2, MarkFacts DEF SnapsGrow
        <3>4. QED
            BY <2>2, <3>1, <3>3 DEF OneInv
    <2>6. QED
        BY <2>4, <2>5
<1>4. CASE Insert(k)
    <2> DEFINE row == [plan |-> q.plan, from |-> q.start, to |-> End(q), current |-> q.up]
               n == Len(snaps) + 1
    <2>1. /\ q.pc = "insert" /\ snaps \in Seq(Snap) /\ snaps' = Append(snaps, row)
          /\ task'[k] = AfterSnapshot(q)
        BY <1>4, BecomeFacts DEF Insert, At, IInv
    <2>2. row.plan = q.plan /\ row.current = q.up
        OBVIOUS
    <2> HIDE DEF row
    <2>3. /\ n \in DOMAIN snaps' /\ snaps'[n] = row
          /\ DOMAIN snaps' = DOMAIN snaps \cup {n}
          /\ \A i \in DOMAIN snaps : snaps'[i] = snaps[i]
        BY <2>1, AppendFacts
    <2> HIDE DEF n
    <2>4. CASE q.up
        <3>1. Marked = {}
            BY <2>1, <2>4 DEF OneInv
        <3>2. Marked' = {n} /\ snaps'[n].plan = q.plan
            BY <2>2, <2>3, <2>4, <3>1 DEF Marked
        <3>3. QED
            BY <2>1, <3>2, OneAfter
    <2>5. CASE ~q.up
        <3>1. Marked' \subseteq Marked
            BY <2>2, <2>3, <2>5 DEF Marked
        <3>2. QED
            BY <2>1, <2>5, <3>1, OneAfter DEF OneInv
    <2>6. QED
        BY <2>4, <2>5
<1>5. CASE Shift(k)
    <2>1. /\ q.pc = "shift" /\ UNCHANGED snaps
          /\ task'[k].pc \in {"shift", "reload"} /\ task'[k].plan = q.plan
        BY <1>5, ShiftFacts DEF Shift, At
    <2>2. QED
        BY <2>1 DEF OneInv, Marked
<1>6. CASE Reload(k)
    <2>1. UNCHANGED snaps /\ task'[k].pc = "change"
        BY <1>6, ReloadFacts DEF Reload
    <2>2. QED
        BY <2>1, OneUnmoved
<1>7. CASE ChangeLookup(k)
    <2>1. UNCHANGED snaps
        BY <1>7 DEF ChangeLookup
    <2>2. QED
        BY <1>7, <2>1, ChangeEnds, OneUnmoved
<1>8. CASE ChangeInsert(k)
    <2>1. task'[k].pc \in {"idle", "change"}
        BY <1>8, ChangeEnds
    <2>2. PICK w \in task[k].adding :
              snaps' = Append(snaps, [plan |-> w.plan, from |-> w.from, to |-> w.to,
                                      current |-> FALSE])
        BY <1>8 DEF ChangeInsert
    <2>3. Marked' \subseteq Marked
        BY <2>2, AppendFacts DEF Marked, IInv
    <2>4. QED
        BY <2>1, <2>3 DEF OneInv
<1>9. CASE Save(k)
    <2>1. UNCHANGED snaps /\ task'[k].pc = "lookup"
        BY <1>9, GotoFacts DEF Save
    <2>2. QED
        BY <2>1, OneUnmoved
<1>10. CASE Pick(k)
    <2>1. UNCHANGED snaps /\ task'[k].pc \in {"idle", "clear"}
        BY <1>10, PickFacts DEF IdleTask
    <2>2. QED
        BY <2>1, OneUnmoved
<1>11. QED
    BY <1>1, <1>2, <1>3, <1>4, <1>5, <1>6, <1>7, <1>8, <1>9, <1>10 DEF Continue

LEMMA OneStep ==
    ASSUME NEW k, Tasks = {k}
    PROVE  IInv /\ Targets /\ OneInv(k) /\ [Next]_vars => OneInv(k)'
<1> SUFFICES ASSUME IInv, Targets, OneInv(k), [Next]_vars PROVE OneInv(k)'
    OBVIOUS
<1>1. ASSUME \/ \E p \in Plans, n \in Quantities : Purchase(k, p, n)
             \/ Sync(k) \/ Repair(k)
      PROVE  OneInv(k)'
    BY <1>1, StartFacts, OneUnmoved
<1>2. ASSUME Fail(k) PROVE OneInv(k)'
    <2>1. UNCHANGED snaps /\ task'[k].pc = "idle"
        BY <1>2, BecomeFacts DEF Fail, IdleTask
    <2>2. QED
        BY <2>1, OneUnmoved
<1>3. CASE Tick \/ UNCHANGED vars
    BY <1>3 DEF Tick, vars, OneInv, Marked
<1>4. QED
    BY <1>1, <1>2, <1>3, OneContinue DEF Next

LEMMA OneInit == ASSUME NEW k, Tasks = {k} PROVE Init => OneInv(k)
<1> SUFFICES ASSUME Init PROVE OneInv(k)
    OBVIOUS
<1>1. task[k].pc = "idle"
    BY DEF Init, IdleTask
<1>2. DOMAIN snaps \subseteq {1}
    BY DEF Init
<1>3. QED
    BY <1>1, <1>2 DEF OneInv, Marked

\* With one task at a time, an upgrade that is about to postpone other tiers is
\* the plan that the readers of isCurrent already see.
THEOREM ServedAtOnce ==
    ASSUME NEW k, Tasks = {k}
    PROVE  Spec => []UpgradeServed
<1>1. IInv /\ OneInv(k) => UpgradeServed
    <2> SUFFICES ASSUME IInv, OneInv(k), At(k, "shift")
                 PROVE  Read # {} /\ \A i \in Read : snaps[i].plan = task[k].plan
        BY DEF UpgradeServed
    <2>1. PICK i \in Marked : snaps[i].plan = task[k].plan
        BY DEF OneInv, At
    <2>2. Marked = {i} /\ snaps[i].from <= snaps[i].from
        <3>1. Marked = {i}
            BY <2>1 DEF OneInv
        <3>2. snaps[i] \in Snap
            BY DEF Marked, IInv
        <3>3. QED
            BY <3>1, <3>2 DEF Snap
    <2>3. Read = {i}
        BY <2>2 DEF Read, Latest
    <2>4. QED
        BY <2>1, <2>3
<1>2. IInv /\ Targets /\ OneInv(k) /\ [Next]_vars => OneInv(k)'
    BY OneStep
<1>3. Init => OneInv(k)
    BY OneInit
<1>4. QED
    BY Inductive, TargetInit, TargetStep, <1>1, <1>2, <1>3, PTL DEF Spec

-----------------------------------------------------------------------------
(* Tasks that overlap leave no more marks than there are tasks *)

\* The tasks that have cleared every mark and have yet to set their own.
Owing == {k \in Tasks : At(k, "mark") \/ (At(k, "insert") /\ task[k].up)}

\* A mark takes the place of a task that owed it, and a clear settles the rest.
MarksOwed == Cardinality(Marked) + Cardinality(Owing) <= Cardinality(Tasks)

\* Both are finite, in the state and in the next one.
LEMMA MarksFinite ==
    ASSUME IsFiniteSet(Tasks)
    PROVE  /\ Cardinality(Tasks) \in Nat
           /\ IInv => IsFiniteSet(Marked) /\ Cardinality(Marked) \in Nat
           /\ IInv' => IsFiniteSet(Marked') /\ Cardinality(Marked') \in Nat
           /\ IsFiniteSet(Owing) /\ Cardinality(Owing) \in Nat
           /\ IsFiniteSet(Owing') /\ Cardinality(Owing') \in Nat
           /\ Cardinality(Owing) <= Cardinality(Tasks) /\ Cardinality(Owing') <= Cardinality(Tasks)
<1>1. ASSUME NEW rows \in Seq(Snap), NEW S \in SUBSET DOMAIN rows
      PROVE  IsFiniteSet(S) /\ Cardinality(S) \in Nat
  <2>1. DOMAIN rows = 1 .. Len(rows) /\ Len(rows) \in Nat
    OBVIOUS
  <2>2. IsFiniteSet(DOMAIN rows)
    BY <2>1, FS_Interval
  <2>3. QED
    BY <2>2, FS_Subset, FS_CardinalityType
<1>2. IInv => Marked \in SUBSET DOMAIN snaps /\ snaps \in Seq(Snap)
    BY DEF IInv, Marked
<1>3. IInv' => Marked' \in SUBSET DOMAIN snaps' /\ snaps' \in Seq(Snap)
    BY DEF IInv, Marked
<1>4. Owing \subseteq Tasks /\ Owing' \subseteq Tasks
    BY DEF Owing
<1>5. QED
    BY <1>1, <1>2, <1>3, <1>4, FS_Subset, FS_CardinalityType

\* The task that moves owes nothing now, and no mark was set: or it owed one, and
\* at most that was set.
LEMMA MarksCarried ==
    ASSUME IsFiniteSet(Tasks), IInv, IInv', MarksOwed, NEW k \in Tasks,
           \A j \in Tasks \ {k} : task'[j] = task[j],
           k \notin Owing',
           \/ Marked' \subseteq Marked
           \/ k \in Owing /\ \E n : Marked' \subseteq Marked \cup {n}
    PROVE  MarksOwed'
<1>1. Owing' \subseteq Owing \ {k}
    BY DEF Owing, At
<1>2. /\ IsFiniteSet(Marked) /\ IsFiniteSet(Owing)
      /\ Cardinality(Marked) \in Nat /\ Cardinality(Owing) \in Nat /\ Cardinality(Tasks) \in Nat
      /\ IsFiniteSet(Marked') /\ Cardinality(Marked') \in Nat /\ Cardinality(Owing') \in Nat
    BY MarksFinite
<1>3. /\ IsFiniteSet(Owing \ {k}) /\ Cardinality(Owing') <= Cardinality(Owing \ {k})
      /\ Cardinality(Owing \ {k}) = IF k \in Owing THEN Cardinality(Owing) - 1 ELSE Cardinality(Owing)
    BY <1>1, <1>2, FS_RemoveElement, FS_Subset
<1>4. CASE Marked' \subseteq Marked
  <2>1. Cardinality(Marked') <= Cardinality(Marked)
    BY <1>2, <1>4, FS_Subset
  <2>2. QED
    BY <1>2, <1>3, <2>1 DEF MarksOwed
<1>5. ASSUME k \in Owing, NEW n, Marked' \subseteq Marked \cup {n} PROVE MarksOwed'
  <2>1. /\ IsFiniteSet(Marked \cup {n})
        /\ Cardinality(Marked \cup {n}) = IF n \in Marked THEN Cardinality(Marked) ELSE Cardinality(Marked) + 1
    BY <1>2, FS_AddElement
  <2>2. Cardinality(Marked') <= Cardinality(Marked \cup {n})
    BY <1>5, <2>1, FS_Subset
  <2>3. QED
    BY <1>2, <1>3, <1>5, <2>1, <2>2 DEF MarksOwed
<1>6. QED
    BY <1>4, <1>5

\* A task that clears takes every mark away, whoever set it.
LEMMA MarksCleared ==
    ASSUME IsFiniteSet(Tasks), IInv', Marked' = {}
    PROVE  MarksOwed'
<1>1. Cardinality(Marked') = 0
    BY FS_EmptySet
<1>2. Cardinality(Owing') \in Nat /\ Cardinality(Owing') <= Cardinality(Tasks) /\ Cardinality(Tasks) \in Nat
    BY MarksFinite
<1>3. QED
    BY <1>1, <1>2 DEF MarksOwed

LEMMA AfterOwesNothing ==
    ASSUME IInv, NEW k \in Tasks, task'[k] = AfterSnapshot(task[k]) \/ task'[k] = IdleTask
    PROVE  k \notin Owing'
<1>1. task[k] \in Task
    BY DEF IInv
<1>2. task'[k].pc \in {"idle", "shift"}
    BY <1>1, AfterFacts DEF IdleTask
<1>3. QED
    BY <1>2 DEF Owing, At

LEMMA MarksContinue ==
    ASSUME IsFiniteSet(Tasks), IInv, IInv', Targets, MarksOwed, NEW k \in Tasks, Continue(k)
    PROVE  MarksOwed'
<1> DEFINE q == task[k]
<1>0. ASSUME UNCHANGED snaps, \A j \in Tasks \ {k} : task'[j] = task[j],
             task'[k].pc \notin {"mark", "insert"}
      PROVE  MarksOwed'
    BY <1>0, MarksCarried DEF Marked, Owing, At
<1>1. CASE Lookup(k)
  <2>1. UNCHANGED snaps /\ \A j \in Tasks \ {k} : task'[j] = task[j]
    BY <1>1, LookupFacts
  <2>2. CASE Goto(k, IF q.up THEN "clear" ELSE "insert")
    <3>1. task'[k].pc = "clear" \/ ~task'[k].up
      BY <2>2, GotoFacts
    <3>2. task'[k].pc \in {"clear", "insert"}
      BY <2>2, GotoFacts
    <3>3. k \notin Owing'
      BY <3>1, <3>2 DEF Owing, At
    <3>4. QED
      BY <2>1, <3>3, MarksCarried DEF Marked
  <2>3. CASE task'[k].pc = "clear"
    BY <1>0, <2>1, <2>3
  <2>4. CASE task'[k] = AfterSnapshot(q)
    BY <2>1, <2>4, AfterOwesNothing, MarksCarried DEF Marked
  <2>5. QED
    BY <1>1, <2>2, <2>3, <2>4, LookupFacts
<1>2. CASE Clear(k)
  <2>1. Marked' = {}
    BY <1>2, ClearFacts DEF Marked
  <2>2. QED
    BY <2>1, MarksCleared
<1>3. CASE Mark(k)
  <2>1. k \in Owing
    BY <1>3 DEF Mark, Owing
  <2>2. Marked' \subseteq Marked \cup {q.target}
    BY <1>3, MarkFacts DEF Marked
  <2>3. task'[k] = AfterSnapshot(q) /\ \A j \in Tasks \ {k} : task'[j] = task[j]
    BY <1>3, BecomeFacts DEF Mark
  <2>4. QED
    BY <2>1, <2>2, <2>3, AfterOwesNothing, MarksCarried
<1>4. CASE Insert(k)
  <2> DEFINE row == [plan |-> q.plan, from |-> q.start, to |-> End(q), current |-> q.up]
             n == Len(snaps) + 1
  <2>1. /\ q.pc = "insert" /\ snaps \in Seq(Snap) /\ snaps' = Append(snaps, row)
        /\ task'[k] = AfterSnapshot(q) /\ \A j \in Tasks \ {k} : task'[j] = task[j]
    BY <1>4, BecomeFacts DEF Insert, At, IInv
  <2>2. row.current = q.up
    OBVIOUS
  <2> HIDE DEF row
  <2>3. /\ snaps'[n] = row /\ DOMAIN snaps' = DOMAIN snaps \cup {n}
        /\ \A i \in DOMAIN snaps : snaps'[i] = snaps[i]
    BY <2>1, AppendFacts
  <2> HIDE DEF n
  <2>4. CASE q.up
    <3>1. k \in Owing /\ Marked' \subseteq Marked \cup {n}
      BY <2>1, <2>3, <2>4 DEF Owing, At, Marked
    <3>2. QED
      BY <2>1, <3>1, AfterOwesNothing, MarksCarried
  <2>5. CASE ~q.up
    <3>1. Marked' \subseteq Marked
      BY <2>2, <2>3, <2>5 DEF Marked
    <3>2. QED
      BY <2>1, <3>1, AfterOwesNothing, MarksCarried
  <2>6. QED
    BY <2>4, <2>5
<1>5. CASE ChangeInsert(k)
  <2>1. task'[k].pc \in {"idle", "change"} /\ \A j \in Tasks \ {k} : task'[j] = task[j]
    BY <1>5, ChangeEnds, ChangeFacts
  <2>2. PICK w \in task[k].adding :
            snaps' = Append(snaps, [plan |-> w.plan, from |-> w.from, to |-> w.to,
                                    current |-> FALSE])
    BY <1>5 DEF ChangeInsert
  <2>3. Marked' \subseteq Marked
    BY <2>2, AppendFacts DEF Marked, IInv
  <2>4. k \notin Owing'
    BY <2>1 DEF Owing, At
  <2>5. QED
    BY <2>1, <2>3, <2>4, MarksCarried
<1>6. CASE ChangeLookup(k)
  <2>1. UNCHANGED snaps /\ task'[k].pc \in {"idle", "change"} /\ \A j \in Tasks \ {k} : task'[j] = task[j]
    BY <1>6, ChangeEnds, ChangeFacts DEF ChangeLookup
  <2>2. QED
    BY <1>0, <2>1
<1>7. CASE Shift(k)
    BY <1>0, <1>7, ShiftFacts DEF Shift
<1>8. CASE Reload(k)
    BY <1>0, <1>8, ReloadFacts DEF Reload
<1>9. CASE Save(k)
  <2>1. Goto(k, "lookup") /\ UNCHANGED snaps
    BY <1>9 DEF Save
  <2>2. task'[k].pc = "lookup" /\ \A j \in Tasks \ {k} : task'[j] = task[j]
    BY <2>1, GotoFacts
  <2>3. QED
    BY <1>0, <2>1, <2>2
<1>10. CASE Pick(k)
    BY <1>0, <1>10, PickFacts DEF IdleTask
<1>11. QED
    BY <1>1, <1>2, <1>3, <1>4, <1>5, <1>6, <1>7, <1>8, <1>9, <1>10 DEF Continue

LEMMA MarksStep ==
    ASSUME IsFiniteSet(Tasks)
    PROVE  IInv /\ IInv' /\ Targets /\ MarksOwed /\ [Next]_vars => MarksOwed'
<1> SUFFICES ASSUME IInv, IInv', Targets, MarksOwed, [Next]_vars PROVE MarksOwed'
    OBVIOUS
<1>1. ASSUME NEW k \in Tasks,
             \/ \E p \in Plans, n \in Quantities : Purchase(k, p, n)
             \/ Sync(k) \/ Repair(k)
      PROVE  MarksOwed'
  <2>1. UNCHANGED snaps /\ k \notin Owing' /\ \A j \in Tasks \ {k} : task'[j] = task[j]
    BY <1>1, StartFacts DEF Owing, At
  <2>2. QED
    BY <2>1, MarksCarried DEF Marked
<1>2. ASSUME NEW k \in Tasks, Fail(k) PROVE MarksOwed'
  <2>1. UNCHANGED snaps /\ task'[k] = IdleTask /\ \A j \in Tasks \ {k} : task'[j] = task[j]
    BY <1>2, BecomeFacts DEF Fail
  <2>2. QED
    BY <2>1, AfterOwesNothing, MarksCarried DEF Marked
<1>3. CASE Tick \/ UNCHANGED vars
    BY <1>3 DEF Tick, vars, MarksOwed, Marked, Owing, At
<1>4. QED
    BY <1>1, <1>2, <1>3, MarksContinue DEF Next

LEMMA MarksInit ==
    ASSUME IsFiniteSet(Tasks), Tasks # {}
    PROVE  Init => MarksOwed
<1> SUFFICES ASSUME Init PROVE MarksOwed
    OBVIOUS
<1>1. Owing = {}
    BY DEF Init, Owing, At, IdleTask
<1>2. Marked \subseteq {1}
    BY DEF Init, Marked
<1>3. IsFiniteSet({1}) /\ Cardinality({1}) = 1
    BY FS_Singleton
<1>4. IsFiniteSet(Marked) /\ Cardinality(Marked) <= 1
    BY <1>2, <1>3, FS_Subset
<1>5. Cardinality(Marked) \in Nat
    BY <1>4, FS_CardinalityType
<1>6. Cardinality(Owing) = 0
    BY <1>1, FS_EmptySet
<1>7. Cardinality(Tasks) \in Nat /\ Cardinality(Tasks) # 0
    BY FS_CardinalityType, FS_EmptySet
<1>8. QED
    BY <1>4, <1>5, <1>6, <1>7 DEF MarksOwed

\* However purchases, the scheduler and repairs overlap, and whichever of them die
\* half-way, the group never has more snapshots marked than tasks may run at once:
\* ensureEntitlementSnapshot clears every mark before it sets its own.
THEOREM MarkedOnce ==
    ASSUME IsFiniteSet(Tasks), Tasks # {}
    PROVE  Spec => []OneMarked
<1>1. IInv /\ MarksOwed => OneMarked
    BY MarksFinite DEF MarksOwed, OneMarked
<1>2. IInv /\ IInv' /\ Targets /\ MarksOwed /\ [Next]_vars => MarksOwed'
    BY MarksStep
<1>3. Init => MarksOwed
    BY MarksInit
<1>4. QED
    BY Inductive, TargetInit, TargetStep, <1>1, <1>2, <1>3, PTL DEF Spec

-----------------------------------------------------------------------------
(* What a sync or a repair leaves marked *)

\* The snapshots that may be marked for an instant: those in effect, or else, as
\* the repair falls back on them, the latest there are.
Due(t) == IF ByTime(t) = {} THEN Latest(DOMAIN snaps) ELSE ByTime(t)

\* A sync or a repair is about to mark a snapshot due at the instant it read.
RightTarget(k) ==
    LET q == task[k] IN
    q.kind = "sync" /\ q.pc \in {"clear", "mark"} => q.target \in Due(q.at)

\* What is due depends on the windows of the snapshots, not on their marks.
LEMMA DueStays ==
    ASSUME DOMAIN snaps' = DOMAIN snaps,
           \A i \in DOMAIN snaps :
               snaps'[i].from = snaps[i].from /\ snaps'[i].to = snaps[i].to,
           NEW t
    PROVE  Due(t)' = Due(t)
<1>1. \A S \in SUBSET DOMAIN snaps : Latest(S)' = Latest(S)
    BY DEF Latest
<1> DEFINE S == {i \in DOMAIN snaps : InEffect(snaps[i], t)}
<1>2. S' = S
    BY DEF InEffect
<1>3. ByTime(t)' = ByTime(t)
    BY <1>1, <1>2 DEF ByTime, Latest
<1>4. QED
    BY <1>3 DEF Due, Latest

\* A task that will mark nothing, or that is a purchase.
LEMMA RightElsewhere ==
    ASSUME NEW k \in Tasks, task'[k].kind = "purchase" \/ task'[k].pc \notin {"clear", "mark"}
    PROVE  RightTarget(k)'
    BY DEF RightTarget

LEMMA RightContinue ==
    ASSUME IInv, Targets, NEW k \in Tasks, RightTarget(k), Continue(k)
    PROVE  RightTarget(k)'
<1> DEFINE q == task[k]
<1>1. q \in Task /\ IdleTask.pc = "idle"
    BY DEF IInv, IdleTask
<1>2. ASSUME task'[k] = AfterSnapshot(q) PROVE RightTarget(k)'
    BY <1>1, <1>2, AfterFacts, RightElsewhere
<1>3. CASE Save(k)
    <2>1. Goto(k, "lookup")
        BY <1>3 DEF Save
    <2>2. task'[k].pc = "lookup"
        BY <2>1, GotoFacts
    <2>3. QED
        BY <2>2, RightElsewhere
<1>4. CASE Lookup(k)
    <2>1. q.kind = "purchase"
        BY <1>4, LookupFacts
    <2>2. CASE Goto(k, IF q.up THEN "clear" ELSE "insert")
        BY <2>1, <2>2, GotoFacts, RightElsewhere
    <2>3. ASSUME task'[k].kind = q.kind PROVE RightTarget(k)'
        BY <2>1, <2>3, RightElsewhere
    <2>4. QED
        BY <1>2, <1>4, <2>2, <2>3, LookupFacts
<1>5. CASE Clear(k)
    <2>1. PICK step : q.pc = "clear" /\ Goto(k, step)
        BY <1>5 DEF Clear, At
    <2>2. task'[k].kind = q.kind /\ task'[k].target = q.target
        BY <2>1, GotoFacts
    <2>3. task'[k].at = q.at
        BY <1>1, <2>1 DEF Goto, IInv, Task
    <2>4. /\ DOMAIN snaps' = DOMAIN snaps
          /\ \A i \in DOMAIN snaps : snaps'[i].from = snaps[i].from /\ snaps'[i].to = snaps[i].to
        <3>1. \A i \in DOMAIN snaps : snaps[i] \in Snap
            BY DEF IInv
        <3>2. snaps' = [i \in DOMAIN snaps |-> [snaps[i] EXCEPT !.current = FALSE]]
            BY <1>5 DEF Clear
        <3>3. QED
            BY <3>1, <3>2 DEF Snap
    <2>5. \A t : Due(t)' = Due(t)
        BY <2>4, DueStays
    <2>6. PICK t : t = q.at
        OBVIOUS
    <2>7. task'[k].kind = "sync" => task'[k].target \in Due(t)
        BY <2>1, <2>2, <2>6 DEF RightTarget
    <2>8. task'[k].kind = "sync" => task'[k].target \in Due(t)'
        BY <2>5, <2>7
    <2>9. task'[k].at = t
        BY <2>3, <2>6
    <2>10. QED
        BY <2>8, <2>9 DEF RightTarget, Due, ByTime
<1>6. CASE Mark(k) \/ Insert(k)
    BY <1>2, <1>6, BecomeFacts DEF Mark, Insert
<1>7. CASE Shift(k)
    BY <1>7, ShiftFacts, RightElsewhere
<1>8. CASE Reload(k)
    BY <1>8, ReloadFacts, RightElsewhere
<1>9. CASE ChangeLookup(k) \/ ChangeInsert(k)
    BY <1>9, ChangeEnds, RightElsewhere
<1>10. CASE Pick(k)
    <2>1. q.pc = "pick" /\ UNCHANGED snaps
        BY <1>10 DEF Pick, At
    <2>2. CASE Become(k, IdleTask)
        BY <1>1, <2>2, BecomeFacts, RightElsewhere
    <2>3. ASSUME NEW i \in Due(q.at), Become(k, [q EXCEPT !.pc = "clear", !.target = i])
          PROVE  RightTarget(k)'
        <3>1. task'[k] = [q EXCEPT !.pc = "clear", !.target = i]
            BY <2>3, BecomeFacts
        <3>2. task'[k].target = i /\ task'[k].at = q.at
            BY <1>1, <3>1 DEF Task
        <3>3. i \in Due(task'[k].at)
            BY <2>3, <3>2
        <3>4. QED
            BY <2>1, <3>2, <3>3 DEF RightTarget, Due, ByTime, Latest
    <2>4. QED
        BY <1>10, <2>2, <2>3 DEF Pick, Due
<1>11. QED
    BY <1>3, <1>4, <1>5, <1>6, <1>7, <1>8, <1>9, <1>10 DEF Continue

LEMMA RightStep ==
    ASSUME NEW k, Tasks = {k}
    PROVE  IInv /\ Targets /\ RightTarget(k) /\ [Next]_vars => RightTarget(k)'
<1> SUFFICES ASSUME IInv, Targets, RightTarget(k), [Next]_vars PROVE RightTarget(k)'
    OBVIOUS
<1>1. ASSUME NEW p \in Plans, NEW n \in Quantities, Purchase(k, p, n) PROVE RightTarget(k)'
    <2>1. PICK up, start : Buy(k, p, n, up, start)
        BY <1>1 DEF Purchase
    <2> DEFINE c == [IdleTask EXCEPT !.pc = "save", !.kind = "purchase", !.plan = p,
                       !.months = n, !.at = now, !.up = up, !.start = start,
                       !.overlap = RunningTiers]
    <2>2. c.pc = "save" /\ Become(k, c)
        BY <2>1 DEF Buy, IdleTask
    <2> HIDE DEF c
    <2>3. QED
        BY <2>2, BecomeFacts, RightElsewhere
<1>2. ASSUME Sync(k) PROVE RightTarget(k)'
    <2>1. PICK i \in ByTime(now) : Retarget(k, i)
        BY <1>2 DEF Sync
    <2>2. task'[k] = [IdleTask EXCEPT !.pc = "clear", !.at = now, !.target = i]
        BY <2>1, BecomeFacts DEF Retarget
    <2>3. task'[k].target = i /\ task'[k].at = now
        BY <2>2 DEF IdleTask
    <2>4. i \in Due(task'[k].at) /\ UNCHANGED snaps
        BY <1>2, <2>1, <2>3 DEF Due, Sync
    <2>5. QED
        BY <2>3, <2>4 DEF RightTarget, Due, ByTime, Latest
<1>3. ASSUME Repair(k) PROVE RightTarget(k)'
    BY <1>3, BecomeFacts, RightElsewhere DEF Repair, IdleTask
<1>4. ASSUME Fail(k) PROVE RightTarget(k)'
    BY <1>4, BecomeFacts, RightElsewhere DEF Fail, IdleTask
<1>5. CASE Tick \/ UNCHANGED vars
    BY <1>5 DEF Tick, vars, RightTarget, Due, ByTime, Latest
<1>6. QED
    BY <1>1, <1>2, <1>3, <1>4, <1>5, RightContinue DEF Next

\* The statement of a sync or a repair that sets isCurrent: whatever the instant
\* it read, the snapshots that consumers now read are due at that instant.
MarksDue(k) ==
    \A t \in Nat : Mark(k) /\ task[k].kind = "sync" /\ task[k].at = t =>
        Read' # {} /\ Read' \subseteq Due(t)'

LEMMA MarkIsDue ==
    ASSUME IInv, Targets, NEW k \in Tasks, OneInv(k), RightTarget(k)
    PROVE  MarksDue(k)
<1> SUFFICES ASSUME NEW t \in Nat, Mark(k), task[k].kind = "sync", task[k].at = t
             PROVE  Read' # {} /\ Read' \subseteq Due(t)'
    BY DEF MarksDue
<1> DEFINE i == task[k].target
<1>1. task[k].pc = "mark" /\ Marked = {} /\ i \in Due(t)
    BY DEF Mark, At, OneInv, RightTarget
<1>2. Marked' = {i}
    BY <1>1, MarkFacts DEF Marked
<1>3. \A j \in DOMAIN snaps : snaps[j] \in Snap
    BY DEF IInv
<1>4. snaps' = [snaps EXCEPT ![i].current = TRUE] /\ i \in DOMAIN snaps
    BY MarkFacts DEF Mark
<1>5. /\ DOMAIN snaps' = DOMAIN snaps
      /\ \A j \in DOMAIN snaps : snaps'[j].from = snaps[j].from /\ snaps'[j].to = snaps[j].to
    BY <1>3, <1>4 DEF Snap
<1>6. i \in Due(t)'
    BY <1>1, <1>5, DueStays
<1>7. snaps'[i].from <= snaps'[i].from
    BY <1>3, <1>4, <1>5 DEF Snap
<1>8. Read' = {i}
    BY <1>2, <1>7 DEF Read, Latest
<1>9. QED
    BY <1>6, <1>8

(***************************************************************************)
(* With one task at a time, a sync (syncCurrentEntitlements) or a repair   *)
(* (findSubscriptionsInGroup) that completes leaves isCurrent on a         *)
(* snapshot in effect at the instant it read, or on the latest when none   *)
(* is, and on no other: whatever tasks finished or died before it.  Beside *)
(* the fairness of Sync and of its statements this is what InSync needs.   *)
(***************************************************************************)
THEOREM SyncMarksDue ==
    ASSUME NEW CONSTANT k, Tasks = {k}
    PROVE  Spec => [][MarksDue(k)]_vars
<1>1. IInv /\ Targets /\ OneInv(k) /\ [Next]_vars => OneInv(k)'
    BY OneStep
<1>2. IInv /\ Targets /\ RightTarget(k) /\ [Next]_vars => RightTarget(k)'
    BY RightStep
<1>3. Init => OneInv(k) /\ RightTarget(k)
    BY OneInit DEF Init, RightTarget, IdleTask
<1>4. IInv /\ Targets /\ OneInv(k) /\ RightTarget(k) => [MarksDue(k)]_vars
    BY MarkIsDue
<1>5. QED
    BY Inductive, TargetInit, TargetStep, <1>1, <1>2, <1>3, <1>4, PTL DEF Spec

-----------------------------------------------------------------------------
(* The order of plans.  compareSubscriptions is a total preorder on plans  *)
(* and the tie-breaker a strict order on tiers, for any prices and quotas: *)
(* the reduce that picks the current tier never depends on the order of    *)
(* the rows beyond tiers that are equal in rank and start.                 *)

\* Swapping the plans swaps the verdict: no purchase is an upgrade both ways.
THEOREM CompareSwap ==
    ASSUME NEW a \in Rankable, NEW b \in Rankable
    PROVE  Compare(b, a) = -Compare(a, b)
<1>1. \A x, y \in Int : SameQuota(x, y) <=> SameQuota(y, x)
  BY DEF SameQuota, Unlimited
<1>2. ASSUME NEW x \in Int, NEW y \in Int, ~SameQuota(x, y)
      PROVE  Sign(Exceeds(y, x)) = -Sign(Exceeds(x, y))
  BY <1>2 DEF SameQuota, Exceeds, Unlimited, Sign
<1>3. a.price # b.price => Sign(b.price > a.price) = -Sign(a.price > b.price)
  BY DEF Sign, Rankable
<1>4. /\ a.members \in Int /\ a.langs \in Int /\ a.runs \in Int
      /\ b.members \in Int /\ b.langs \in Int /\ b.runs \in Int
  BY DEF Rankable
<1> QED BY <1>1, <1>2, <1>3, <1>4 DEF Compare

\* A quota as large as another one, which is as large as a third, is as large
\* as the third.
LEMMA QuotaOrder ==
    ASSUME NEW x \in Int, NEW y \in Int, NEW z \in Int,
           ~Exceeds(y, x), ~Exceeds(z, y)
    PROVE  /\ ~Exceeds(z, x)
           /\ SameQuota(x, z) => SameQuota(x, y) /\ SameQuota(y, z)
           /\ SameQuota(x, y) /\ SameQuota(y, z) => SameQuota(x, z)
BY DEF Exceeds, SameQuota, Unlimited

\* Compare in one formula: a is no worse than b.
LEMMA NoWorse ==
    ASSUME NEW a \in Rankable, NEW b \in Rankable
    PROVE  /\ Compare(a, b) \in {-1, 0, 1}
           /\ Compare(a, b) >= 0 <=>
                /\ a.price >= b.price
                /\ a.price = b.price =>
                    /\ ~Exceeds(b.members, a.members)
                    /\ SameQuota(a.members, b.members) =>
                        /\ ~Exceeds(b.langs, a.langs)
                        /\ SameQuota(a.langs, b.langs) => ~Exceeds(b.runs, a.runs)
           /\ Compare(a, b) = 0 <=>
                /\ a.price = b.price
                /\ SameQuota(a.members, b.members)
                /\ SameQuota(a.langs, b.langs)
                /\ SameQuota(a.runs, b.runs)
<1>1. ASSUME NEW x \in Int, NEW y \in Int
      PROVE  /\ SameQuota(x, y) => ~Exceeds(x, y) /\ ~Exceeds(y, x)
             /\ ~SameQuota(x, y) => (Exceeds(x, y) <=> ~Exceeds(y, x))
  BY DEF SameQuota, Exceeds, Unlimited
<1>2. /\ a.members \in Int /\ a.langs \in Int /\ a.runs \in Int /\ a.price \in Nat
      /\ b.members \in Int /\ b.langs \in Int /\ b.runs \in Int /\ b.price \in Nat
  BY DEF Rankable
<1> QED BY <1>1, <1>2 DEF Compare, Sign

\* A plan no worse than a second one, which is no worse than a third, is no
\* worse than the third, and equivalent to it only when all three are.
THEOREM CompareTransitive ==
    ASSUME NEW a \in Rankable, NEW b \in Rankable, NEW c \in Rankable,
           Compare(a, b) >= 0, Compare(b, c) >= 0
    PROVE  /\ Compare(a, c) >= 0
           /\ Compare(a, c) = 0 => Compare(a, b) = 0 /\ Compare(b, c) = 0
<1>1. /\ a.members \in Int /\ a.langs \in Int /\ a.runs \in Int /\ a.price \in Nat
      /\ b.members \in Int /\ b.langs \in Int /\ b.runs \in Int /\ b.price \in Nat
      /\ c.members \in Int /\ c.langs \in Int /\ c.runs \in Int /\ c.price \in Nat
  BY DEF Rankable
<1> QED BY <1>1, NoWorse, QuotaOrder

\* The choice of the current tier is a strict order: irreflexive, transitive.
THEOREM BeatsOrder ==
    ASSUME NEW a \in Rankable, NEW b \in Rankable, NEW c \in Rankable,
           NEW i \in Int, NEW j \in Int, NEW k \in Int
    PROVE  /\ ~Beats(a, i, a, i)
           /\ Beats(a, i, b, j) => ~Beats(b, j, a, i)
           /\ Beats(a, i, b, j) /\ Beats(b, j, c, k) => Beats(a, i, c, k)
<1>1. \A p, q \in Rankable : Compare(p, q) \in {-1, 0, 1} /\ Compare(q, p) = -Compare(p, q)
  BY NoWorse, CompareSwap
<1>2. ~Beats(a, i, a, i)
  <2>1. Compare(a, a) = 0
    BY <1>1
  <2> QED BY <2>1 DEF Beats
<1>3. Beats(a, i, b, j) => ~Beats(b, j, a, i)
  BY <1>1 DEF Beats
<1>4. ASSUME Beats(a, i, b, j), Beats(b, j, c, k) PROVE Beats(a, i, c, k)
  <2>1. Compare(a, b) >= 0 /\ Compare(b, c) >= 0
    BY <1>1, <1>4 DEF Beats
  <2>2. Compare(a, c) >= 0 /\ (Compare(a, c) = 0 => Compare(a, b) = 0 /\ Compare(b, c) = 0)
    BY <2>1, CompareTransitive
  <2> QED BY <1>1, <1>4, <2>2 DEF Beats
<1> QED BY <1>2, <1>3, <1>4
-----------------------------------------------------------------------------
(* A purchase never lowers what the group is entitled to.  Of tasks that   *)
(* run one at a time, whether they finish or die half-way.                 *)

AsGood(p, r) == Compare(Offer[p], Offer[r]) >= 0

\* The plans that cost nothing differ in nothing that counts.
FreeAlike == \A p, r \in Plans : IsFree(p) /\ IsFree(r) => AsGood(p, r)

\* Whatever a snapshot grants, now or later, a tier as good runs then.
Backed ==
    \A i \in DOMAIN snaps, t \in Nat : t >= now /\ InEffect(snaps[i], t) =>
        \E j \in DOMAIN tiers : Running(tiers[j], t) /\ AsGood(tiers[j].plan, snaps[i].plan)

\* The tiers that were there before the purchase, and the tier it saved.
Before(q) == IF q.pc = "save" THEN DOMAIN tiers ELSE DOMAIN tiers \ {Len(tiers)}

Own(q) ==
    LET row == tiers[Len(tiers)] IN
    /\ Len(tiers) \in DOMAIN tiers
    /\ row.plan = q.plan /\ row.start = q.start /\ row.end = End(q)

\* The window a purchase is given: when it starts at once, no tier that was
\* running is better.
Deal(q) ==
    /\ q.at <= now /\ q.start >= q.at /\ q.months \in Nat \ {0}
    /\ q.up => q.start = q.at
    /\ q.overlap \subseteq Before(q)
    /\ q.start = q.at => \A i \in q.overlap : AsGood(q.plan, tiers[i].plan)
    /\ q.pc # "save" => Own(q)
    /\ q.pc \in {"save", "lookup", "clear", "mark", "insert"} =>
           q.overlap = {i \in Before(q) : Running(tiers[i], q.at)}

\* How far the postponement has come.
Delay(q) ==
    /\ q.pc \in {"shift", "reload", "change"} => q.up /\ End(q) # Never
    /\ q.pc = "shift" =>
           /\ \A i \in q.todo : tiers[i].start <= q.at
           /\ \A i \in q.overlap \ q.todo : tiers[i].start = End(q)
    /\ q.pc \in {"reload", "change"} => \A i \in q.overlap : tiers[i].start = End(q)
    /\ q.pc = "change" =>
           \A w \in q.due \cup q.adding :
               /\ w.tier \in q.overlap
               /\ w.plan = tiers[w.tier].plan
               /\ w.from = tiers[w.tier].start
               /\ w.to = tiers[w.tier].end

Sold(k) ==
    LET q == task[k] IN
    /\ q.pc \in {"insert", "shift", "reload", "change"} => q.kind = "purchase"
    /\ q.pc # "idle" /\ q.kind = "purchase" => Deal(q) /\ Delay(q)

\* Plans are compared as numbers are.
LEMMA AsGoodOrder ==
    ASSUME NEW p \in Plans, NEW r \in Plans, NEW s \in Plans
    PROVE  /\ AsGood(p, p)
           /\ AsGood(p, r) /\ AsGood(r, s) => AsGood(p, s)
           /\ Compare(Offer[p], Offer[r]) <= 0 <=> AsGood(r, p)
           /\ Compare(Offer[p], Offer[r]) > 0 => AsGood(p, r)
<1>1. Offer[p] \in Rankable /\ Offer[r] \in Rankable /\ Offer[s] \in Rankable
    BY OfferAssumption
<1>2. /\ Compare(Offer[p], Offer[p]) = -Compare(Offer[p], Offer[p])
      /\ Compare(Offer[r], Offer[p]) = -Compare(Offer[p], Offer[r])
    BY <1>1, CompareSwap
<1>3. /\ Compare(Offer[p], Offer[p]) \in {-1, 0, 1}
      /\ Compare(Offer[p], Offer[r]) \in {-1, 0, 1}
    BY <1>1, NoWorse
<1>4. AsGood(p, p)
    BY <1>2, <1>3 DEF AsGood
<1>5. AsGood(p, r) /\ AsGood(r, s) => AsGood(p, s)
    BY <1>1, CompareTransitive DEF AsGood
<1>6. /\ Compare(Offer[p], Offer[r]) <= 0 <=> AsGood(r, p)
      /\ Compare(Offer[p], Offer[r]) > 0 => AsGood(p, r)
    BY <1>2, <1>3 DEF AsGood
<1>7. QED
    BY <1>4, <1>5, <1>6

\* An instant of a paid window lies in it, and after it nothing of it is left.
LEMMA PaidWindow ==
    ASSUME NEW row \in Tier, PaidRow(row)
    PROVE  /\ row.start \in Nat
           /\ IsFree(row.plan) => row.end = Never
           /\ ~IsFree(row.plan) => /\ row.end \in Nat
                                   /\ row.end = row.start + row.months * Month
                                   /\ Length(row) = row.months
                                   /\ row.months \in Nat \ {0}
<1>1. row.start \in Nat
    BY DEF Tier
<1>2. ~IsFree(row.plan) => row.months \in Nat \ {0} /\ row.end = AddMonths(row.start, row.months)
    BY DEF PaidRow
<1>3. ~IsFree(row.plan) => row.end \in Nat
    BY <1>1, <1>2, AddMonthsType
<1>4. ~IsFree(row.plan) => Length(row) = row.months
    BY <1>2 DEF Length
<1>5. QED
    BY <1>1, <1>2, <1>3, <1>4 DEF PaidRow, AddMonths

\* What the purchase is given.
LEMMA BuyFacts ==
    ASSUME IInv, NEW k \in Tasks, NEW p \in Plans, NEW n \in Quantities,
           NEW up, NEW start, Buy(k, p, n, up, start)
    PROVE  LET q == task'[k] IN
           /\ q.pc = "save" /\ q.kind = "purchase" /\ q.plan = p /\ q.months = n
           /\ q.at = now /\ q.up = up /\ q.start = start /\ q.overlap = RunningTiers
<1> DEFINE q == [IdleTask EXCEPT !.pc = "save", !.kind = "purchase", !.plan = p,
                   !.months = n, !.at = now, !.up = up, !.start = start,
                   !.overlap = RunningTiers]
<1>1. /\ q.pc = "save" /\ q.kind = "purchase" /\ q.plan = p /\ q.months = n
      /\ q.at = now /\ q.up = up /\ q.start = start /\ q.overlap = RunningTiers
    BY DEF IdleTask
<1>2. Become(k, q)
    BY DEF Buy
<1> HIDE DEF q
<1>3. task'[k] = q
    BY <1>2, BecomeFacts
<1>4. QED
    BY <1>1, <1>3

\* A purchase that starts at once beats, or equals, every tier that runs.
LEMMA StartsBest ==
    ASSUME IInv, FreeAlike, FreshInstant, NEW p \in Plans, NEW c \in Current,
           StartOf(Upgrades(p, tiers[c]), tiers[c]) = now, NEW i \in RunningTiers
    PROVE  AsGood(p, tiers[i].plan)
<1>1. /\ c \in RunningTiers /\ c \in DOMAIN tiers /\ i \in DOMAIN tiers
      /\ ~Ahead(i, c) /\ Running(tiers[c], now)
    BY DEF Current, RunningTiers
<1>2. /\ tiers[c] \in Tier /\ tiers[i] \in Tier
      /\ tiers[c].plan \in Plans /\ tiers[i].plan \in Plans
    <2>1. tiers[c] \in Tier /\ tiers[i] \in Tier
        BY <1>1 DEF IInv
    <2>2. QED
        BY <2>1 DEF Tier
<1>3. AsGood(tiers[c].plan, tiers[i].plan)
    <2>1. ~(Compare(Offer[tiers[i].plan], Offer[tiers[c].plan]) > 0)
        BY <1>1 DEF Ahead, Beats
    <2>2. Compare(Offer[tiers[i].plan], Offer[tiers[c].plan]) \in {-1, 0, 1}
        BY <1>2, NoWorse, OfferAssumption
    <2>3. Compare(Offer[tiers[i].plan], Offer[tiers[c].plan]) <= 0
        BY <2>1, <2>2
    <2>4. QED
        BY <1>2, <2>3, AsGoodOrder
<1>4. AsGood(p, tiers[c].plan)
    <2>1. CASE Upgrades(p, tiers[c])
        BY <1>2, <2>1, AsGoodOrder DEF Upgrades
    <2>2. CASE ~Upgrades(p, tiers[c])
        <3>1. PaidRow(tiers[c]) /\ now \in Nat
            BY <1>1 DEF IInv
        <3>2. tiers[c].end # now /\ ~(tiers[c].end > now)
            BY <1>1, <2>2 DEF FreshInstant, StartOf
        <3>3. IsFree(tiers[c].plan)
            BY <1>1, <1>2, <3>1, <3>2, PaidWindow DEF Running, Never
        <3>4. IsFree(p)
            <4>1. ~(Compare(Offer[p], Offer[tiers[c].plan]) > 0)
                BY <2>2 DEF Upgrades
            <4>2. Offer[p] \in Rankable /\ Offer[tiers[c].plan] \in Rankable
                BY <1>2, OfferAssumption
            <4>3. Offer[p].price \in Nat /\ Offer[tiers[c].plan].price = 0
                BY <3>3, <4>2 DEF IsFree, Rankable
            <4>4. QED
                BY <4>1, <4>3 DEF Compare, Sign, IsFree
        <3>5. QED
            BY <1>2, <3>3, <3>4 DEF FreeAlike
    <2>3. QED
        BY <2>1, <2>2
<1>5. QED
    BY <1>2, <1>3, <1>4, AsGoodOrder

\* Rows that are left alone back the snapshots they backed.
LEMMA BackedStays ==
    ASSUME IInv, Backed, now' \in Nat, now' >= now, UNCHANGED snaps,
           \A j \in DOMAIN tiers : j \in DOMAIN tiers' /\ tiers'[j] = tiers[j]
    PROVE  Backed'
<1> SUFFICES ASSUME NEW i \in DOMAIN snaps, NEW t \in Nat, t >= now', InEffect(snaps[i], t)
             PROVE  \E j \in DOMAIN tiers' :
                        Running(tiers'[j], t) /\ AsGood(tiers'[j].plan, snaps[i].plan)
    BY DEF Backed
<1>1. t >= now
    BY DEF IInv
<1>2. PICK j \in DOMAIN tiers : Running(tiers[j], t) /\ AsGood(tiers[j].plan, snaps[i].plan)
    BY <1>1 DEF Backed
<1>3. QED
    BY <1>2

\* Marks do not matter.
LEMMA BackedMarks ==
    ASSUME Backed, UNCHANGED <<now, tiers>>, DOMAIN snaps' = DOMAIN snaps,
           \A i \in DOMAIN snaps : /\ snaps'[i].plan = snaps[i].plan
                                   /\ snaps'[i].from = snaps[i].from
                                   /\ snaps'[i].to = snaps[i].to
    PROVE  Backed'
    BY DEF Backed, InEffect

\* A snapshot with the plan and the window of a tier is backed by that tier.
LEMMA BackedMore ==
    ASSUME IInv, Backed, UNCHANGED <<now, tiers>>, NEW row, snaps' = Append(snaps, row),
           NEW j \in DOMAIN tiers, row.plan = tiers[j].plan, row.from = tiers[j].start,
           row.to = tiers[j].end
    PROVE  Backed'
<1>1. tiers[j] \in Tier /\ snaps \in Seq(Snap)
    BY DEF IInv
<1>2. /\ tiers[j].plan \in Plans /\ tiers[j].start \in Nat
      /\ tiers[j].end \in Nat \cup {Never}
    BY <1>1 DEF Tier
<1>3. /\ DOMAIN snaps' = DOMAIN snaps \cup {Len(snaps) + 1}
      /\ snaps'[Len(snaps) + 1] = row
      /\ \A i \in DOMAIN snaps : snaps'[i] = snaps[i]
    BY <1>1, AppendFacts
<1>4. ASSUME NEW t \in Nat, InEffect(row, t)
      PROVE  Running(tiers[j], t) /\ AsGood(tiers[j].plan, row.plan)
    <2>1. Running(tiers[j], t)
        BY <1>2, <1>4 DEF InEffect, Running, Never
    <2>2. QED
        BY <1>2, <2>1, AsGoodOrder
<1>5. SUFFICES ASSUME NEW i \in DOMAIN snaps', NEW t \in Nat, t >= now, InEffect(snaps'[i], t)
               PROVE  \E h \in DOMAIN tiers :
                          Running(tiers[h], t) /\ AsGood(tiers[h].plan, snaps'[i].plan)
    BY DEF Backed
<1>6. CASE i \in DOMAIN snaps
    <2>1. snaps'[i] = snaps[i]
        BY <1>3, <1>6
    <2>2. QED
        BY <1>5, <1>6, <2>1 DEF Backed
<1>7. CASE i = Len(snaps) + 1
    <2>1. snaps'[i] = row
        BY <1>3, <1>7
    <2>2. QED
        BY <1>4, <1>5, <2>1
<1>8. QED
    BY <1>3, <1>6, <1>7

\* A tier that an upgrade postpones: the upgrade, as good, runs in its place, and
\* then the tier does, for as long as it was paid.
LEMMA BackedShift ==
    ASSUME IInv, Targets, Backed, NEW k \in Tasks, Sold(k), Shift(k)
    PROVE  Backed'
<1> DEFINE q == task[k]
           n == Len(tiers)
<1>1. /\ q \in Task /\ q.pc = "shift" /\ q.kind = "purchase" /\ Deal(q) /\ Delay(q)
      /\ ~IsFree(q.plan) /\ q.todo \subseteq q.overlap
    BY DEF Shift, At, IInv, TaskInv, Sold, Targets, TargetInv
<1>2. PICK i \in q.todo : tiers' = [tiers EXCEPT ![i] = Postponed(@, End(q))]
    BY ShiftFacts
<1>3. /\ UNCHANGED <<now, snaps>> /\ now \in Nat
    BY DEF Shift, IInv
<1>4. /\ i \in DOMAIN tiers /\ i # n /\ n \in DOMAIN tiers
      /\ tiers[n].plan = q.plan /\ tiers[n].start = q.start /\ tiers[n].end = End(q)
      /\ q.at = q.start /\ q.at <= now /\ tiers[i].start <= q.at
      /\ AsGood(q.plan, tiers[i].plan)
    BY <1>1, <1>2 DEF Deal, Delay, Before, Own
<1>5. /\ tiers[i] \in Tier /\ tiers[n] \in Tier /\ PaidRow(tiers[i])
      /\ tiers[n].plan \in Plans /\ tiers[i].plan \in Plans
    <2>1. tiers[i] \in Tier /\ tiers[n] \in Tier /\ PaidRow(tiers[i])
        BY <1>4 DEF IInv
    <2>2. QED
        BY <2>1 DEF Tier
<1>6. End(q) \in Nat /\ q.start \in Nat /\ End(q) >= q.start
    <2>1. /\ End(q) = q.start + q.months * Month /\ End(q) \in Nat /\ q.start \in Nat
          /\ q.months \in Nat
        BY <1>1, EndType DEF AddMonths, Task
    <2>2. q.months * Month \in Nat
        BY <2>1, MonthAssumption
    <2>3. QED
        BY <2>1, <2>2
<1> DEFINE old == tiers[i]
           new == Postponed(old, End(q))
<1>7. /\ DOMAIN tiers' = DOMAIN tiers /\ tiers'[i] = new
      /\ \A j \in DOMAIN tiers \ {i} : tiers'[j] = tiers[j]
    BY <1>2, <1>4
<1>8. /\ new.plan = old.plan /\ new.start = End(q)
      /\ IsFree(old.plan) => new.end = old.end
      /\ ~IsFree(old.plan) => new.end = AddMonths(End(q), Length(old))
    BY <1>5 DEF Postponed, Tier
<1>9. ASSUME NEW t \in Nat, t >= now, Running(old, t)
      PROVE  \/ Running(new, t)
             \/ Running(tiers[n], t)
    <2>1. CASE t < End(q)
        BY <1>3, <1>4, <1>6, <1>9, <2>1 DEF Running
    <2>2. CASE t >= End(q) /\ IsFree(old.plan)
        BY <1>5, <1>8, <2>2, PaidWindow DEF Running
    <2>3. CASE t >= End(q) /\ ~IsFree(old.plan)
        <3>1. /\ old.start \in Nat /\ old.end \in Nat
              /\ old.end = old.start + old.months * Month
              /\ Length(old) = old.months /\ old.months \in Nat
            BY <1>5, <2>3, PaidWindow
        <3>2. old.months * Month \in Nat
            BY <3>1, MonthAssumption
        <3>3. new.end = End(q) + old.months * Month
            BY <1>8, <2>3, <3>1 DEF AddMonths
        <3>4. t <= old.end
            BY <1>9, <3>1 DEF Running, Never
        <3>5. QED
            BY <1>4, <1>6, <1>8, <2>3, <3>1, <3>2, <3>3, <3>4 DEF Running
    <2>4. QED
        BY <1>6, <2>1, <2>2, <2>3
<1> HIDE DEF old, new, n, q
<1>10. SUFFICES ASSUME NEW s \in DOMAIN snaps, NEW t \in Nat, t >= now, InEffect(snaps[s], t)
                PROVE  \E j \in DOMAIN tiers' :
                           Running(tiers'[j], t) /\ AsGood(tiers'[j].plan, snaps[s].plan)
    BY <1>3 DEF Backed
<1>11. PICK j \in DOMAIN tiers : Running(tiers[j], t) /\ AsGood(tiers[j].plan, snaps[s].plan)
    BY <1>10 DEF Backed
<1>12. CASE j # i
    BY <1>7, <1>11, <1>12
<1>13. CASE j = i
    <2>1. Running(old, t) /\ AsGood(old.plan, snaps[s].plan)
        BY <1>11, <1>13 DEF old
    <2>2. snaps[s].plan \in Plans
        <3>1. snaps[s] \in Snap
            BY DEF IInv
        <3>2. QED
            BY <3>1 DEF Snap
    <2>3. CASE Running(new, t)
        BY <1>4, <1>7, <1>8, <2>1, <2>3
    <2>4. CASE Running(tiers[n], t)
        <3>1. AsGood(tiers[n].plan, snaps[s].plan)
            BY <1>4, <1>5, <2>1, <2>2, AsGoodOrder DEF old
        <3>2. QED
            BY <1>4, <1>7, <2>4, <3>1
    <2>5. QED
        BY <1>9, <1>10, <2>1, <2>3, <2>4
<1>14. QED
    BY <1>12, <1>13

\* A task that is done, or that only moves the mark, sold nothing.
LEMMA SoldNothing ==
    ASSUME NEW k \in Tasks,
           \/ task'[k].pc = "idle"
           \/ task'[k].pc \in {"clear", "mark", "pick"} /\ task'[k].kind = "sync"
    PROVE  Sold(k)'
    BY DEF Sold

SameSale(r, q) ==
    /\ r.kind = q.kind /\ r.plan = q.plan /\ r.months = q.months /\ r.at = q.at
    /\ r.up = q.up /\ r.start = q.start /\ r.overlap = q.overlap

\* A purchase that looks for its snapshot, clears or marks stays what it was.
LEMMA SoldStays ==
    ASSUME NEW k \in Tasks, Sold(k), UNCHANGED <<now, tiers>>,
           task[k].kind = "purchase", SameSale(task'[k], task[k]),
           task[k].pc \in {"lookup", "clear", "mark", "insert"},
           task'[k].pc \in {"lookup", "clear", "mark", "insert"}
    PROVE  Sold(k)'
<1>1. Deal(task[k])
    BY DEF Sold
<1>2. End(task'[k]) = End(task[k])
    BY DEF End, SameSale
<1>3. Own(task[k])'
    BY <1>1, <1>2 DEF Deal, Own, SameSale
<1>4. /\ task'[k].at <= now /\ task'[k].start >= task'[k].at
      /\ task'[k].months \in Nat \ {0}
      /\ task'[k].up => task'[k].start = task'[k].at
      /\ task'[k].overlap \subseteq Before(task[k])'
      /\ task'[k].start = task'[k].at =>
             \A i \in task'[k].overlap : AsGood(task'[k].plan, tiers[i].plan)
      /\ task'[k].overlap = {i \in Before(task[k])' : Running(tiers[i], task'[k].at)}
    BY <1>1 DEF Deal, Before, SameSale
<1>5. Deal(task[k])'
    BY <1>3, <1>4 DEF Deal
<1>6. Delay(task[k])'
    BY DEF Delay
<1>7. QED
    BY <1>5, <1>6 DEF Sold, SameSale

LEMMA AfterSale ==
    ASSUME NEW q \in Task, AfterSnapshot(q) # IdleTask
    PROVE  /\ q.kind = "purchase" /\ q.up /\ End(q) # Never
           /\ SameSale(AfterSnapshot(q), q)
           /\ AfterSnapshot(q).pc = "shift" /\ AfterSnapshot(q).todo = q.overlap
    BY DEF AfterSnapshot, SameSale, Task

\* When the snapshot is there, the tiers to postpone are those read.
LEMMA SoldAfter ==
    ASSUME IInv, NEW k \in Tasks, Sold(k), UNCHANGED <<now, tiers>>,
           task[k].pc \in {"lookup", "mark", "insert"},
           task'[k] = AfterSnapshot(task[k])
    PROVE  Sold(k)'
<1> DEFINE q == task[k]
<1>1. CASE AfterSnapshot(q) = IdleTask
    BY <1>1, SoldNothing DEF IdleTask
<1>2. CASE AfterSnapshot(q) # IdleTask
    <2>1. /\ q.kind = "purchase" /\ q.up /\ End(q) # Never
          /\ SameSale(task'[k], q) /\ task'[k].pc = "shift" /\ task'[k].todo = q.overlap
        BY <1>2, AfterSale DEF IInv
    <2>2. q \in Task /\ q.at \in Nat
        BY DEF IInv, Task
    <2>3. SameSale(task'[k], q) /\ task'[k].pc = "shift" /\ task'[k].todo = q.overlap
        BY <2>1
    <2>4. Deal(q)
        BY <2>1 DEF Sold
    <2>5. End(task'[k]) = End(q)
        BY <2>3 DEF End, SameSale
    <2>6. Own(task[k])'
        BY <2>3, <2>4, <2>5 DEF Deal, Own, SameSale
    <2>7. /\ task'[k].at <= now /\ task'[k].start >= task'[k].at
          /\ task'[k].months \in Nat \ {0}
          /\ task'[k].up => task'[k].start = task'[k].at
          /\ task'[k].overlap \subseteq Before(task[k])'
          /\ task'[k].start = task'[k].at =>
                 \A i \in task'[k].overlap : AsGood(task'[k].plan, tiers[i].plan)
        BY <2>3, <2>4 DEF Deal, Before, SameSale
    <2>8. Deal(task[k])'
        BY <2>3, <2>6, <2>7 DEF Deal
    <2>9. \A i \in task'[k].todo : tiers[i].start <= task'[k].at
        BY <2>3, <2>4 DEF Deal, Running, SameSale
    <2>10. Delay(task[k])'
        BY <2>1, <2>3, <2>5, <2>9 DEF Delay, SameSale
    <2>11. QED
        BY <2>1, <2>3, <2>8, <2>10 DEF Sold, SameSale
<1>3. QED
    BY <1>1, <1>2

LEMMA SoldPurchase ==
    ASSUME IInv, FreeAlike, NEW k \in Tasks,
           NEW p \in Plans, NEW n \in Quantities, Purchase(k, p, n)
    PROVE  Sold(k)'
<1>1. FreshInstant /\ UNCHANGED <<now, tiers, snaps>> /\ now \in Nat
    BY DEF Purchase, IInv
<1>2. RunningTiers \subseteq DOMAIN tiers
    BY DEF RunningTiers
<1>3. n \in Nat \ {0}
    BY MonthAssumption
<1>4. ASSUME NEW up, NEW start, Buy(k, p, n, up, start), start >= now, up => start = now,
             start = now => \A i \in RunningTiers : AsGood(p, tiers[i].plan)
      PROVE  Sold(k)'
    <2> DEFINE q == task'[k]
    <2>1. /\ q.pc = "save" /\ q.kind = "purchase" /\ q.plan = p /\ q.months = n
          /\ q.at = now /\ q.up = up /\ q.start = start /\ q.overlap = RunningTiers
        BY <1>4, BuyFacts
    <2>2. /\ q.overlap \subseteq Before(task[k])'
          /\ q.overlap = {i \in Before(task[k])' : Running(tiers[i], q.at)}
        BY <1>1, <2>1 DEF Before, RunningTiers
    <2>3. /\ q.at <= now /\ q.start >= q.at /\ q.months \in Nat \ {0}
          /\ q.up => q.start = q.at
          /\ q.start = q.at => \A i \in q.overlap : AsGood(q.plan, tiers[i].plan)
        BY <1>1, <1>3, <1>4, <2>1
    <2>4. Deal(task[k])'
        BY <1>1, <2>1, <2>2, <2>3 DEF Deal
    <2>5. Delay(task[k])'
        BY <2>1 DEF Delay
    <2>6. QED
        BY <2>1, <2>4, <2>5 DEF Sold
<1>5. CASE tiers = <<>> /\ Buy(k, p, n, TRUE, now)
    <2>1. RunningTiers = {} /\ now >= now
        BY <1>1, <1>2, <1>5
    <2>2. QED
        BY <1>4, <1>5, <2>1
<1>6. ASSUME NEW c \in Current,
             Buy(k, p, n, Upgrades(p, tiers[c]), StartOf(Upgrades(p, tiers[c]), tiers[c]))
      PROVE  Sold(k)'
    <2> DEFINE up == Upgrades(p, tiers[c])
               start == StartOf(up, tiers[c])
    <2>1. start >= now /\ (up => start = now)
        <3>1. c \in DOMAIN tiers
            BY <1>2 DEF Current
        <3>2. tiers[c] \in Tier
            BY <3>1 DEF IInv
        <3>3. tiers[c].end \in Int
            BY <3>2 DEF Tier, Never
        <3>4. QED
            BY <1>1, <3>3 DEF StartOf
    <2>2. start = now => \A i \in RunningTiers : AsGood(p, tiers[i].plan)
        BY <1>1, StartsBest
    <2>3. Buy(k, p, n, up, start)
        BY <1>6
    <2> HIDE DEF up, start
    <2>4. QED
        BY <1>4, <2>1, <2>2, <2>3
<1>7. QED
    BY <1>5, <1>6 DEF Purchase

LEMMA GotoSale ==
    ASSUME IInv, NEW k \in Tasks, NEW step, Goto(k, step)
    PROVE  task'[k].pc = step /\ SameSale(task'[k], task[k])
    BY DEF Goto, IInv, Task, SameSale

LEMMA SoldSave ==
    ASSUME IInv, Targets, NEW k \in Tasks, Sold(k), Save(k)
    PROVE  Sold(k)'
<1> DEFINE q == task[k]
           row == [plan |-> q.plan, start |-> q.start, end |-> End(q), months |-> q.months]
           n == Len(tiers) + 1
<1>1. /\ q.pc = "save" /\ q.kind = "purchase" /\ UNCHANGED now /\ tiers \in Seq(Tier)
      /\ tiers' = Append(tiers, row) /\ task'[k].pc = "lookup" /\ SameSale(task'[k], q)
    BY GotoSale DEF Save, At, Targets, TargetInv, IInv
<1>2. Deal(q)
    BY <1>1 DEF Sold
<1>3. row.plan = q.plan /\ row.start = q.start /\ row.end = End(q)
    OBVIOUS
<1> HIDE DEF row
<1>4. /\ Len(tiers') = n /\ n \in DOMAIN tiers' /\ tiers'[n] = row
      /\ DOMAIN tiers' \ {n} = DOMAIN tiers
      /\ \A i \in DOMAIN tiers : tiers'[i] = tiers[i]
    <2>1. /\ Len(tiers) \in Nat /\ DOMAIN tiers = 1 .. Len(tiers)
          /\ DOMAIN tiers' = 1 .. (Len(tiers) + 1) /\ Len(tiers') = Len(tiers) + 1
          /\ tiers'[Len(tiers) + 1] = row
          /\ \A i \in 1 .. Len(tiers) : tiers'[i] = tiers[i]
        BY <1>1
    <2>2. QED
        BY <2>1
<1> HIDE DEF n
<1>5. End(task'[k]) = End(q)
    BY <1>1 DEF End, SameSale
<1>6. Own(task[k])'
    BY <1>1, <1>3, <1>4, <1>5 DEF Own, SameSale
<1>7. Before(task[k])' = Before(q)
    BY <1>1, <1>4 DEF Before
<1>8. Before(q) = DOMAIN tiers
    BY <1>1 DEF Before
<1>9. /\ task'[k].overlap \subseteq Before(task[k])'
      /\ task'[k].start = task'[k].at =>
             \A i \in task'[k].overlap : AsGood(task'[k].plan, tiers'[i].plan)
      /\ task'[k].overlap = {i \in Before(task[k])' : Running(tiers'[i], task'[k].at)}
    BY <1>1, <1>2, <1>4, <1>7, <1>8 DEF Deal, SameSale
<1>10. /\ task'[k].at <= now' /\ task'[k].start >= task'[k].at
       /\ task'[k].months \in Nat \ {0}
       /\ task'[k].up => task'[k].start = task'[k].at
    BY <1>1, <1>2 DEF Deal, SameSale
<1>11. Deal(task[k])'
    BY <1>6, <1>9, <1>10 DEF Deal
<1>12. Delay(task[k])'
    BY <1>1 DEF Delay
<1>13. QED
    BY <1>1, <1>11, <1>12 DEF Sold, SameSale

LEMMA SoldLookup ==
    ASSUME IInv, Targets, NEW k \in Tasks, Sold(k), Lookup(k)
    PROVE  Sold(k)'
<1> DEFINE q == task[k]
<1>1. /\ q.pc = "lookup" /\ q.kind = "purchase" /\ q \in Task
      /\ UNCHANGED <<now, tiers>>
    BY DEF Lookup, At, Targets, TargetInv, IInv
<1>2. CASE Goto(k, IF q.up THEN "clear" ELSE "insert")
    <2>1. SameSale(task'[k], q) /\ task'[k].pc \in {"clear", "insert"}
        BY <1>2, GotoSale
    <2>2. QED
        BY <1>1, <2>1, SoldStays
<1>3. ASSUME NEW i, Become(k, [q EXCEPT !.pc = "clear", !.target = i]) PROVE Sold(k)'
    <2> DEFINE c == [q EXCEPT !.pc = "clear", !.target = i]
    <2>1. c.pc = "clear" /\ SameSale(c, q)
        BY <1>1 DEF SameSale, Task
    <2>2. Become(k, c)
        BY <1>3
    <2> HIDE DEF c
    <2>3. QED
        BY <1>1, <2>1, <2>2, BecomeFacts, SoldStays
<1>4. CASE Become(k, AfterSnapshot(q))
    BY <1>1, <1>4, BecomeFacts, SoldAfter
<1>5. ASSUME NEW i \in Existing(q.plan, q.start),
             Become(k, IF q.up /\ ~snaps[i].current
                       THEN [q EXCEPT !.pc = "clear", !.target = i]
                       ELSE AfterSnapshot(q))
      PROVE  Sold(k)'
    <2>1. CASE q.up /\ ~snaps[i].current
        BY <1>3, <1>5, <2>1
    <2>2. CASE ~(q.up /\ ~snaps[i].current)
        BY <1>4, <1>5, <2>2
    <2>3. QED
        BY <2>1, <2>2
<1>6. QED
    BY <1>2, <1>5 DEF Lookup

LEMMA SoldClear ==
    ASSUME IInv, Targets, NEW k \in Tasks, Sold(k), Clear(k)
    PROVE  Sold(k)'
<1> DEFINE q == task[k]
<1>1. /\ q.pc = "clear" /\ UNCHANGED <<now, tiers>> /\ q.kind \in {"purchase", "sync"}
      /\ Goto(k, IF q.target = 0 THEN "insert" ELSE "mark")
    BY DEF Clear, At, IInv, Task
<1>2. SameSale(task'[k], q) /\ task'[k].pc = IF q.target = 0 THEN "insert" ELSE "mark"
    BY <1>1, GotoSale
<1>3. CASE q.kind = "purchase"
    BY <1>1, <1>2, <1>3, SoldStays
<1>4. CASE q.kind = "sync"
    <2>1. q.target # 0
        BY <1>1, <1>4 DEF Targets, TargetInv
    <2>2. QED
        BY <1>2, <1>4, <2>1, SoldNothing DEF SameSale
<1>5. QED
    BY <1>1, <1>3, <1>4

LEMMA SoldShift ==
    ASSUME IInv, Targets, NEW k \in Tasks, Sold(k), Shift(k)
    PROVE  Sold(k)'
<1> DEFINE q == task[k]
           n == Len(tiers)
<1>1. /\ q \in Task /\ q.pc = "shift" /\ q.kind = "purchase" /\ Deal(q) /\ Delay(q)
      /\ q.todo \subseteq q.overlap /\ UNCHANGED now
      /\ q.overlap \subseteq DOMAIN tiers \ {n} /\ Own(q)
    BY DEF Shift, At, IInv, Sold, Deal, Before, Targets, TargetInv
<1>2. PICK i \in q.todo :
          /\ tiers' = [tiers EXCEPT ![i] = Postponed(@, End(q))]
          /\ task' = [task EXCEPT ![k].todo = @ \ {i},
                                  ![k].pc = IF task[k].todo = {i} THEN "reload" ELSE @]
    BY DEF Shift
<1>3. /\ SameSale(task'[k], q) /\ task'[k].todo = q.todo \ {i}
      /\ task'[k].pc = IF q.todo = {i} THEN "reload" ELSE "shift"
    <2>1. task \in [Tasks -> Task]
        BY DEF IInv
    <2>2. task'[k] = [q EXCEPT !.todo = q.todo \ {i},
                               !.pc = IF q.todo = {i} THEN "reload" ELSE "shift"]
        BY <1>1, <1>2, <2>1
    <2>3. QED
        BY <1>1, <2>2 DEF SameSale, Task
<1>4. /\ i \in DOMAIN tiers /\ i # n /\ tiers[i] \in Tier
    <2>1. i \in DOMAIN tiers /\ i # n
        BY <1>1, <1>2
    <2>2. QED
        BY <2>1 DEF IInv
<1>5. /\ DOMAIN tiers' = DOMAIN tiers /\ Len(tiers') = n
      /\ tiers'[i].plan = tiers[i].plan /\ tiers'[i].start = End(q)
      /\ \A j \in DOMAIN tiers \ {i} : tiers'[j] = tiers[j]
    <2>1. tiers \in Seq(Tier)
        BY DEF IInv
    <2>2. DOMAIN tiers' = DOMAIN tiers /\ Len(tiers') = n
        BY <1>2, <2>1
    <2>3. /\ tiers'[i] = Postponed(tiers[i], End(q))
          /\ \A j \in DOMAIN tiers \ {i} : tiers'[j] = tiers[j]
        BY <1>2, <1>4
    <2>4. QED
        BY <1>4, <2>2, <2>3 DEF Postponed, Tier
<1>6. End(task'[k]) = End(q)
    BY <1>3 DEF End, SameSale
<1> HIDE DEF n
<1>7. Own(task[k])'
    BY <1>1, <1>3, <1>4, <1>5, <1>6 DEF Own, SameSale, n
<1>8. /\ task'[k].at <= now' /\ task'[k].start >= task'[k].at
      /\ task'[k].months \in Nat \ {0}
      /\ task'[k].up => task'[k].start = task'[k].at
      /\ task'[k].overlap \subseteq Before(task[k])'
      /\ task'[k].start = task'[k].at =>
             \A j \in task'[k].overlap : AsGood(task'[k].plan, tiers'[j].plan)
    BY <1>1, <1>3, <1>4, <1>5 DEF Deal, Before, SameSale, n
<1>9. Deal(task[k])'
    BY <1>3, <1>7, <1>8 DEF Deal
<1>10. q.up /\ End(q) # Never /\ (\A j \in q.todo : tiers[j].start <= q.at)
       /\ (\A j \in q.overlap \ q.todo : tiers[j].start = End(q))
    BY <1>1 DEF Delay
<1>11. /\ \A j \in q.todo \ {i} : tiers'[j].start <= q.at
       /\ \A j \in q.overlap \ (q.todo \ {i}) : tiers'[j].start = End(q)
    BY <1>1, <1>5, <1>10
<1>12. Delay(task[k])'
    BY <1>3, <1>6, <1>10, <1>11 DEF Delay, SameSale
<1>13. QED
    BY <1>1, <1>3, <1>9, <1>12 DEF Sold, SameSale

\* One of the parallel calls, in full.
LEMMA ChangeSale ==
    ASSUME IInv, NEW k \in Tasks, ChangeLookup(k) \/ ChangeInsert(k)
    PROVE  /\ UNCHANGED <<now, tiers>> /\ task[k].pc = "change"
           /\ \/ task'[k] = IdleTask
              \/ /\ task'[k].pc = "change" /\ SameSale(task'[k], task[k])
                 /\ task'[k].due \cup task'[k].adding \subseteq task[k].due \cup task[k].adding
<1> DEFINE q == task[k]
<1>1. q \in Task /\ q.pc = "change" /\ UNCHANGED <<now, tiers>>
    BY DEF IInv, ChangeLookup, ChangeInsert, At
<1>2. ASSUME NEW w \in q.due,
             LET rest == [q EXCEPT !.due = @ \ {w}] IN
             IF Existing(w.plan, w.from) = {}
             THEN Become(k, [rest EXCEPT !.adding = @ \cup {w}])
             ELSE Become(k, IF rest.due = {} /\ rest.adding = {} THEN IdleTask ELSE rest)
      PROVE  \/ task'[k] = IdleTask
             \/ /\ task'[k].pc = "change" /\ SameSale(task'[k], q)
                /\ task'[k].due \cup task'[k].adding \subseteq q.due \cup q.adding
    <2> DEFINE rest == [q EXCEPT !.due = @ \ {w}]
               more == [rest EXCEPT !.adding = @ \cup {w}]
    <2>1. /\ rest.pc = "change" /\ rest.due = q.due \ {w} /\ rest.adding = q.adding
          /\ more.pc = "change" /\ more.due = q.due \ {w} /\ more.adding = q.adding \cup {w}
          /\ SameSale(rest, q) /\ SameSale(more, q)
        BY <1>1 DEF Task, SameSale
    <2>2. IF Existing(w.plan, w.from) = {} THEN Become(k, more)
          ELSE Become(k, IF rest.due = {} /\ rest.adding = {} THEN IdleTask ELSE rest)
        BY <1>2
    <2> HIDE DEF rest, more
    <2>3. \/ task'[k] = IdleTask
          \/ task'[k] = rest
          \/ task'[k] = more
        BY <2>2, BecomeFacts
    <2>4. QED
        BY <2>1, <2>3
<1>3. ASSUME NEW w \in q.adding,
             LET rest == [q EXCEPT !.adding = @ \ {w}] IN
             Become(k, IF rest.due = {} /\ rest.adding = {} THEN IdleTask ELSE rest)
      PROVE  \/ task'[k] = IdleTask
             \/ /\ task'[k].pc = "change" /\ SameSale(task'[k], q)
                /\ task'[k].due \cup task'[k].adding \subseteq q.due \cup q.adding
    <2> DEFINE rest == [q EXCEPT !.adding = @ \ {w}]
    <2>1. /\ rest.pc = "change" /\ rest.due = q.due /\ rest.adding = q.adding \ {w}
          /\ SameSale(rest, q)
        BY <1>1 DEF Task, SameSale
    <2>2. Become(k, IF rest.due = {} /\ rest.adding = {} THEN IdleTask ELSE rest)
        BY <1>3
    <2> HIDE DEF rest
    <2>3. task'[k] = IdleTask \/ task'[k] = rest
        BY SMTT(30), <2>2, BecomeFacts
    <2>4. QED
        BY <2>1, <2>3
<1>4. CASE ChangeLookup(k)
    BY <1>1, <1>2, <1>4 DEF ChangeLookup
<1>5. CASE ChangeInsert(k)
    <2>1. PICK w \in q.adding :
              LET rest == [q EXCEPT !.adding = @ \ {w}] IN
              Become(k, IF rest.due = {} /\ rest.adding = {} THEN IdleTask ELSE rest)
        BY <1>5 DEF ChangeInsert
    <2>2. QED
        BY <1>1, <1>3, <2>1
<1>6. QED
    BY <1>4, <1>5

\* Windows wait to be inserted only while the parallel calls run.
Waiting(k) == ~At(k, "change") => task[k].adding = {}

LEMMA SyncSale ==
    ASSUME IInv, NEW k \in Tasks, Sync(k) \/ Repair(k)
    PROVE  /\ task'[k].pc \in {"clear", "pick"} /\ task'[k].kind = "sync"
           /\ task'[k].adding = {}
<1>1. ASSUME NEW i, Retarget(k, i)
      PROVE  /\ task'[k].pc \in {"clear", "pick"} /\ task'[k].kind = "sync"
             /\ task'[k].adding = {}
    BY <1>1 DEF Retarget, Become, IInv, IdleTask
<1>2. CASE Repair(k)
    BY <1>2 DEF Repair, Become, IInv, IdleTask
<1>3. QED
    BY <1>1, <1>2 DEF Sync

LEMMA WaitingStep ==
    ASSUME NEW k, Tasks = {k}
    PROVE  IInv /\ Waiting(k) /\ [Next]_vars => Waiting(k)'
<1> SUFFICES ASSUME IInv, Waiting(k), [Next]_vars PROVE Waiting(k)'
    OBVIOUS
<1> DEFINE q == task[k]
<1>1. q \in Task /\ k \in Tasks
    BY DEF IInv
<1>2. CASE task'[k] = IdleTask
    BY <1>2 DEF Waiting, IdleTask
<1>3. ASSUME ~At(k, "change"), task'[k].adding = q.adding PROVE Waiting(k)'
    BY <1>3 DEF Waiting
<1>4. ASSUME NEW p \in Plans, NEW n \in Quantities, NEW up, NEW start, Buy(k, p, n, up, start)
      PROVE  Waiting(k)'
    <2> DEFINE c == [IdleTask EXCEPT !.pc = "save", !.kind = "purchase", !.plan = p,
                       !.months = n, !.at = now, !.up = up, !.start = start,
                       !.overlap = RunningTiers]
    <2>1. c.adding = {} /\ Become(k, c)
        BY <1>4 DEF Buy, IdleTask
    <2> HIDE DEF c
    <2>2. QED
        BY <1>1, <2>1, BecomeFacts DEF Waiting
<1>5. ASSUME NEW step, Goto(k, step), ~At(k, "change") PROVE Waiting(k)'
    <2>1. task'[k].adding = q.adding
        BY <1>1, <1>5 DEF Goto, IInv, Task
    <2>2. QED
        BY <1>3, <1>5, <2>1
<1>6. ASSUME NEW i, Become(k, [q EXCEPT !.pc = "clear", !.target = i]), ~At(k, "change")
      PROVE  Waiting(k)'
    <2>1. task'[k].adding = q.adding
        BY <1>1, <1>6 DEF Become, IInv, Task
    <2>2. QED
        BY <1>3, <1>6, <2>1
<1>7. ASSUME Become(k, AfterSnapshot(q)), ~At(k, "change") PROVE Waiting(k)'
    <2>1. AfterSnapshot(q) = IdleTask \/ AfterSnapshot(q).adding = q.adding
        BY <1>1 DEF AfterSnapshot, Task
    <2>2. QED
        BY <1>1, <1>2, <1>3, <1>7, <2>1, BecomeFacts
<1>8. ASSUME Lookup(k) PROVE Waiting(k)'
    <2>1. ~At(k, "change")
        BY <1>8 DEF Lookup, At
    <2>2. ASSUME NEW i \in Existing(q.plan, q.start),
                 Become(k, IF q.up /\ ~snaps[i].current
                           THEN [q EXCEPT !.pc = "clear", !.target = i]
                           ELSE AfterSnapshot(q))
          PROVE  Waiting(k)'
        <3>1. CASE q.up /\ ~snaps[i].current
            BY <1>6, <2>1, <2>2, <3>1
        <3>2. CASE ~(q.up /\ ~snaps[i].current)
            BY <1>7, <2>1, <2>2, <3>2
        <3>3. QED
            BY <3>1, <3>2
    <2>3. QED
        BY <1>5, <1>8, <2>1, <2>2 DEF Lookup
<1>9. ASSUME Shift(k) PROVE Waiting(k)'
    <2>1. q.pc = "shift" /\ task \in [Tasks -> Task]
        BY <1>9 DEF Shift, At, IInv
    <2>2. PICK i \in q.todo :
              task' = [task EXCEPT ![k].todo = @ \ {i},
                                   ![k].pc = IF task[k].todo = {i} THEN "reload" ELSE @]
        BY <1>9 DEF Shift
    <2>3. task'[k] = [q EXCEPT !.todo = q.todo \ {i},
                               !.pc = IF q.todo = {i} THEN "reload" ELSE "shift"]
        BY <1>1, <2>1, <2>2
    <2>4. task'[k].adding = q.adding
        BY <1>1, <2>3 DEF Task
    <2>5. QED
        BY <1>3, <2>1, <2>4 DEF At
<1>10. ASSUME Reload(k) \/ ChangeLookup(k) \/ ChangeInsert(k) PROVE Waiting(k)'
    BY <1>1, <1>2, <1>10, ReloadFacts, ChangeSale DEF Waiting, At
<1>11. ASSUME Pick(k) PROVE Waiting(k)'
    <2>1. ~At(k, "change")
        BY <1>11 DEF Pick, At
    <2>2. QED
        BY <1>1, <1>2, <1>6, <1>11, <2>1, BecomeFacts DEF Pick
<1>12. Continue(k) => Waiting(k)'
    BY <1>5, <1>7, <1>8, <1>9, <1>10, <1>11 DEF Continue, Save, Clear, Mark, Insert, At
<1>13. ASSUME NEW p \in Plans, NEW n \in Quantities, Purchase(k, p, n) PROVE Waiting(k)'
    BY <1>4, <1>13 DEF Purchase
<1>14. ASSUME Sync(k) \/ Repair(k) PROVE Waiting(k)'
    BY <1>1, <1>14, SyncSale DEF Waiting
<1>15. ASSUME Fail(k) PROVE Waiting(k)'
    BY <1>1, <1>2, <1>15, BecomeFacts DEF Fail
<1>16. CASE Tick \/ UNCHANGED vars
    BY <1>16 DEF Tick, vars, Waiting, At
<1>17. QED
    BY <1>12, <1>13, <1>14, <1>15, <1>16 DEF Next

LEMMA SoldReload ==
    ASSUME IInv, NEW k \in Tasks, Waiting(k), Sold(k), Reload(k)
    PROVE  Sold(k)'
<1> DEFINE q == task[k]
<1>1. /\ q.pc = "reload" /\ q.kind = "purchase" /\ Deal(q) /\ Delay(q) /\ q \in Task
      /\ UNCHANGED <<now, tiers>>
    BY DEF Reload, At, IInv, Sold
<1>2. /\ task'[k].pc = "change" /\ SameSale(task'[k], q)
      /\ task'[k].adding = q.adding
      /\ task'[k].due = {[tier |-> i, plan |-> tiers[i].plan,
                          from |-> tiers[i].start, to |-> tiers[i].end] : i \in q.overlap}
    BY <1>1 DEF Reload, IInv, Task, SameSale
<1>3. End(task'[k]) = End(q)
    BY <1>2 DEF End, SameSale
<1>4. Own(task[k])'
    BY <1>1, <1>2, <1>3 DEF Deal, Own, SameSale
<1>5. /\ task'[k].at <= now /\ task'[k].start >= task'[k].at
      /\ task'[k].months \in Nat \ {0}
      /\ task'[k].up => task'[k].start = task'[k].at
      /\ task'[k].overlap \subseteq Before(task[k])'
      /\ task'[k].start = task'[k].at =>
             \A i \in task'[k].overlap : AsGood(task'[k].plan, tiers[i].plan)
    BY <1>1, <1>2 DEF Deal, Before, SameSale
<1>6. Deal(task[k])'
    BY <1>1, <1>2, <1>4, <1>5 DEF Deal
<1>7. \A w \in task'[k].due \cup task'[k].adding :
          /\ w.tier \in q.overlap
          /\ w.plan = tiers[w.tier].plan
          /\ w.from = tiers[w.tier].start
          /\ w.to = tiers[w.tier].end
    BY <1>1, <1>2 DEF Waiting, At
<1>8. q.up /\ End(q) # Never /\ \A i \in q.overlap : tiers[i].start = End(q)
    BY <1>1 DEF Delay
<1>9. Delay(task[k])'
    BY <1>1, <1>2, <1>3, <1>7, <1>8 DEF Delay, SameSale
<1>10. QED
    BY <1>1, <1>2, <1>6, <1>9 DEF Sold, SameSale

LEMMA SoldChange ==
    ASSUME IInv, NEW k \in Tasks, Sold(k), ChangeLookup(k) \/ ChangeInsert(k)
    PROVE  Sold(k)'
<1> DEFINE q == task[k]
<1>1. UNCHANGED <<now, tiers>> /\ q.pc = "change"
    BY ChangeSale
<1>2. CASE task'[k] = IdleTask
    BY <1>2, SoldNothing DEF IdleTask
<1>3. CASE task'[k].pc = "change"
    <2>1. IdleTask.pc = "idle"
        BY DEF IdleTask
    <2>2. /\ SameSale(task'[k], q)
          /\ task'[k].due \cup task'[k].adding \subseteq q.due \cup q.adding
        BY <1>3, <2>1, ChangeSale
    <2>3. q.kind = "purchase" /\ Deal(q) /\ Delay(q)
        BY <1>1 DEF Sold
    <2>4. End(task'[k]) = End(q)
        BY <2>2 DEF End, SameSale
    <2>5. Own(task[k])'
        BY <1>1, <2>2, <2>3, <2>4 DEF Deal, Own, SameSale
    <2>6. /\ task'[k].at <= now /\ task'[k].start >= task'[k].at
          /\ task'[k].months \in Nat \ {0}
          /\ task'[k].up => task'[k].start = task'[k].at
          /\ task'[k].overlap \subseteq Before(task[k])'
          /\ task'[k].start = task'[k].at =>
                 \A i \in task'[k].overlap : AsGood(task'[k].plan, tiers[i].plan)
        BY <1>1, <1>3, <2>2, <2>3 DEF Deal, Before, SameSale
    <2>7. Deal(task[k])'
        BY <1>1, <1>3, <2>5, <2>6 DEF Deal
    <2>8. /\ q.up /\ End(q) # Never /\ (\A i \in q.overlap : tiers[i].start = End(q))
          /\ \A w \in task'[k].due \cup task'[k].adding :
                 /\ w.tier \in q.overlap
                 /\ w.plan = tiers[w.tier].plan
                 /\ w.from = tiers[w.tier].start
                 /\ w.to = tiers[w.tier].end
        BY <1>1, <2>2, <2>3 DEF Delay
    <2>9. Delay(task[k])'
        BY <1>1, <1>3, <2>2, <2>4, <2>8 DEF Delay, SameSale
    <2>10. QED
        BY <1>3, <2>2, <2>3, <2>7, <2>9 DEF Sold, SameSale
<1>4. QED
    BY <1>2, <1>3, ChangeSale

\* The invariant of a sale.
LEMMA SoldStep ==
    ASSUME NEW k, Tasks = {k}, FreeAlike
    PROVE  IInv /\ Targets /\ Waiting(k) /\ Sold(k) /\ [Next]_vars => Sold(k)'
<1> SUFFICES ASSUME IInv, Targets, Waiting(k), Sold(k), [Next]_vars PROVE Sold(k)'
    OBVIOUS
<1>1. ASSUME NEW p \in Plans, NEW n \in Quantities, Purchase(k, p, n) PROVE Sold(k)'
    BY <1>1, SoldPurchase
<1>2. ASSUME Sync(k) \/ Repair(k) PROVE Sold(k)'
    <2>1. task'[k].pc \in {"clear", "pick"} /\ task'[k].kind = "sync"
        BY <1>2, SyncSale
    <2>2. QED
        BY <2>1, SoldNothing
<1>3. ASSUME Fail(k) PROVE Sold(k)'
    BY <1>3, BecomeFacts, SoldNothing DEF Fail, IdleTask
<1>4. CASE Tick
    <2>1. UNCHANGED <<tiers, task>> /\ now \in Nat /\ now' = now + 1 /\ task[k] \in Task
        BY <1>4 DEF Tick, IInv
    <2>2. ASSUME Deal(task[k]) PROVE Deal(task[k])'
        <3>1. task[k].at \in Nat
            BY <2>1 DEF Task
        <3>2. Own(task[k]) => Own(task[k])'
            BY <2>1 DEF Own, End
        <3>3. task[k].at <= now' /\ Before(task[k])' = Before(task[k])
            BY <2>1, <2>2, <3>1 DEF Deal, Before
        <3>4. QED
            BY <2>1, <2>2, <3>2, <3>3 DEF Deal
    <2>3. ASSUME Delay(task[k]) PROVE Delay(task[k])'
        BY <2>1, <2>3 DEF Delay, End
    <2>4. QED
        BY <2>1, <2>2, <2>3 DEF Sold
<1>5. CASE UNCHANGED vars
    BY <1>5 DEF vars, Sold, Deal, Delay, Own, Before, End
<1>6. ASSUME Mark(k) \/ Insert(k) PROVE Sold(k)'
    <2>1. /\ task[k].pc \in {"mark", "insert"} /\ UNCHANGED <<now, tiers>>
          /\ Become(k, AfterSnapshot(task[k]))
        BY <1>6 DEF Mark, Insert, At
    <2>2. QED
        BY <2>1, BecomeFacts, SoldAfter
<1>7. ASSUME Pick(k) PROVE Sold(k)'
    <2>1. task[k].kind = "sync"
        BY <1>7 DEF Pick, At, Targets, TargetInv
    <2>2. QED
        BY <1>7, <2>1, PickFacts, SoldNothing DEF IdleTask
<1>8. Continue(k) => Sold(k)'
    BY <1>6, <1>7, SoldSave, SoldLookup, SoldClear, SoldShift, SoldReload, SoldChange
       DEF Continue
<1>9. QED
    BY <1>1, <1>2, <1>3, <1>4, <1>5, <1>8 DEF Next

\* Every step leaves what was granted to a tier as good.
LEMMA BackedStep ==
    ASSUME NEW k, Tasks = {k}
    PROVE  IInv /\ Targets /\ Sold(k) /\ Backed /\ [Next]_vars => Backed'
<1> SUFFICES ASSUME IInv, Targets, Sold(k), Backed, [Next]_vars PROVE Backed'
    OBVIOUS
<1>1. now \in Nat /\ now >= now /\ snaps \in Seq(Snap) /\ tiers \in Seq(Tier)
    BY DEF IInv
<1>2. CASE UNCHANGED <<now, tiers, snaps>>
    BY <1>1, <1>2, BackedStays
<1>3. CASE Tick
    BY <1>1, <1>3, BackedStays DEF Tick
<1>4. ASSUME Save(k) PROVE Backed'
    <2>1. PICK row : tiers' = Append(tiers, row)
        BY <1>4 DEF Save
    <2>2. \A j \in DOMAIN tiers : j \in DOMAIN tiers' /\ tiers'[j] = tiers[j]
        BY <1>1, <2>1
    <2>3. QED
        BY <1>1, <1>4, <2>2, BackedStays DEF Save
<1>5. ASSUME Clear(k) \/ Mark(k) PROVE Backed'
    <2>1. \A i \in DOMAIN snaps : snaps[i] \in Snap
        BY <1>1
    <2>2. CASE Clear(k)
        <3>1. /\ snaps' = [i \in DOMAIN snaps |-> [snaps[i] EXCEPT !.current = FALSE]]
              /\ UNCHANGED <<now, tiers>>
            BY <2>2 DEF Clear
        <3>2. /\ DOMAIN snaps' = DOMAIN snaps
              /\ \A i \in DOMAIN snaps : /\ snaps'[i].plan = snaps[i].plan
                                         /\ snaps'[i].from = snaps[i].from
                                         /\ snaps'[i].to = snaps[i].to
            BY <2>1, <3>1 DEF Snap
        <3>3. QED
            BY <3>1, <3>2, BackedMarks
    <2>3. CASE Mark(k)
        <3>1. /\ snaps' = [snaps EXCEPT ![task[k].target].current = TRUE]
              /\ UNCHANGED <<now, tiers>>
            BY <2>3 DEF Mark
        <3>2. /\ DOMAIN snaps' = DOMAIN snaps
              /\ \A i \in DOMAIN snaps : /\ snaps'[i].plan = snaps[i].plan
                                         /\ snaps'[i].from = snaps[i].from
                                         /\ snaps'[i].to = snaps[i].to
            BY <2>1, <3>1 DEF Snap
        <3>3. QED
            BY <3>1, <3>2, BackedMarks
    <2>4. QED
        BY <1>5, <2>2, <2>3
<1>6. ASSUME Insert(k) PROVE Backed'
    <2> DEFINE q == task[k]
               row == [plan |-> q.plan, from |-> q.start, to |-> End(q), current |-> q.up]
    <2>1. /\ UNCHANGED <<now, tiers>> /\ q.pc = "insert" /\ snaps' = Append(snaps, row)
        BY <1>6 DEF Insert, At
    <2>2. Own(q)
        BY <2>1 DEF Sold, Deal
    <2>3. row.plan = q.plan /\ row.from = q.start /\ row.to = End(q)
        OBVIOUS
    <2> HIDE DEF row
    <2>4. QED
        BY <2>1, <2>2, <2>3, BackedMore DEF Own
<1>7. ASSUME ChangeInsert(k) PROVE Backed'
    <2>1. PICK w \in task[k].adding :
              snaps' = Append(snaps, [plan |-> w.plan, from |-> w.from, to |-> w.to,
                                      current |-> FALSE])
        BY <1>7 DEF ChangeInsert
    <2>2. UNCHANGED <<now, tiers>> /\ task[k].pc = "change"
        BY <1>7 DEF ChangeInsert, At
    <2>3. /\ w.tier \in DOMAIN tiers
          /\ w.plan = tiers[w.tier].plan /\ w.from = tiers[w.tier].start
          /\ w.to = tiers[w.tier].end
        BY <2>2 DEF Sold, Deal, Delay, Before
    <2>4. QED
        BY <2>1, <2>2, <2>3, BackedMore
<1>8. Continue(k) => Backed'
    BY <1>2, <1>4, <1>5, <1>6, <1>7, BackedShift
       DEF Continue, Lookup, Reload, ChangeLookup, Pick
<1>9. QED
    BY <1>2, <1>3, <1>8 DEF Next, vars, Purchase, Sync, Repair, Fail

\* A snapshot that is added is not in effect, or is as good as the one that was.
LEMMA AddedNotLower ==
    ASSUME IInv, NEW row, snaps' = Append(snaps, row), UNCHANGED now,
           ByTime(now) # {}, row.plan \in Plans,
           InEffect(row, now) =>
               \E i \in ByTime(now) : AsGood(row.plan, snaps[i].plan)
    PROVE  \A j \in ByTime(now)' : \E i \in ByTime(now) : Compare(Rank(i), Rank(j)') <= 0
<1>1. snaps \in Seq(Snap) /\ now \in Nat
    BY DEF IInv
<1> DEFINE n == Len(snaps) + 1
<1>2. /\ DOMAIN snaps' = DOMAIN snaps \cup {n} /\ snaps'[n] = row
      /\ \A i \in DOMAIN snaps : snaps'[i] = snaps[i]
    BY <1>1, AppendFacts
<1>3. \A i \in DOMAIN snaps : snaps[i].plan \in Plans
    <2>1. \A i \in DOMAIN snaps : snaps[i] \in Snap
        BY <1>1
    <2>2. QED
        BY <2>1 DEF Snap
<1> HIDE DEF n
<1> SUFFICES ASSUME NEW j \in DOMAIN snaps', InEffect(snaps'[j], now),
                    \A i \in DOMAIN snaps' :
                        InEffect(snaps'[i], now) => snaps'[i].from <= snaps'[j].from
             PROVE  \E i \in ByTime(now) : Compare(Rank(i), Rank(j)') <= 0
    BY DEF ByTime, Latest
<1>4. CASE j \in DOMAIN snaps
    <2>1. j \in ByTime(now)
        BY <1>2, <1>4 DEF ByTime, Latest
    <2>2. Compare(Rank(j), Rank(j)') <= 0
        BY <1>2, <1>3, <1>4, AsGoodOrder DEF Rank
    <2>3. QED
        BY <2>1, <2>2
<1>5. CASE j = n
    <2>1. PICK i \in ByTime(now) : AsGood(row.plan, snaps[i].plan)
        BY <1>2, <1>5
    <2>2. i \in DOMAIN snaps
        BY DEF ByTime, Latest
    <2>3. Compare(Rank(i), Offer[row.plan]) <= 0
        BY <1>3, <2>1, <2>2, AsGoodOrder DEF Rank
    <2>4. QED
        BY <1>2, <1>5, <2>3 DEF Rank
<1>6. QED
    BY <1>2, <1>4, <1>5

\* The windows of time are left alone.
LEMMA WindowsStay ==
    ASSUME IInv, UNCHANGED now, DOMAIN snaps' = DOMAIN snaps,
           \A i \in DOMAIN snaps : /\ snaps'[i].plan = snaps[i].plan
                                   /\ snaps'[i].from = snaps[i].from
                                   /\ snaps'[i].to = snaps[i].to
    PROVE  \A j \in ByTime(now)' : \E i \in ByTime(now) : Compare(Rank(i), Rank(j)') <= 0
<1>1. ASSUME NEW j \in ByTime(now)'
      PROVE  j \in ByTime(now) /\ j \in DOMAIN snaps
    BY <1>1 DEF ByTime, Latest, InEffect
<1>2. ASSUME NEW j \in DOMAIN snaps PROVE Compare(Rank(j), Rank(j)') <= 0
    <2>1. snaps[j] \in Snap
        BY DEF IInv
    <2>2. snaps[j].plan \in Plans
        BY <2>1 DEF Snap
    <2>3. QED
        BY <2>2, AsGoodOrder DEF Rank
<1>3. QED
    BY <1>1, <1>2

\* The row that the purchase adds.
LEMMA InsertNotLower ==
    ASSUME IInv, NEW k \in Tasks, Sold(k), Backed, Insert(k), Prompt, ByTime(now) # {}
    PROVE  \A j \in ByTime(now)' : \E i \in ByTime(now) : Compare(Rank(i), Rank(j)') <= 0
<1> DEFINE q == task[k]
           row == [plan |-> q.plan, from |-> q.start, to |-> End(q), current |-> q.up]
<1>1. /\ q.pc = "insert" /\ q.kind = "purchase" /\ Deal(q) /\ q.at = now
      /\ q \in Task /\ q.plan \in Plans /\ q.start \in Nat
      /\ snaps' = Append(snaps, row) /\ UNCHANGED now /\ now \in Nat
    BY DEF Insert, At, Sold, Prompt, IInv, Task
<1>2. row.plan = q.plan /\ row.from = q.start
    OBVIOUS
<1> HIDE DEF row
<1>3. ASSUME InEffect(row, now)
      PROVE  \E i \in ByTime(now) : AsGood(row.plan, snaps[i].plan)
    <2>1. q.start = q.at
        BY <1>1, <1>2, <1>3 DEF InEffect, Deal
    <2>2. PICK i \in ByTime(now) : TRUE
        OBVIOUS
    <2>3. i \in DOMAIN snaps /\ InEffect(snaps[i], now)
        BY DEF ByTime, Latest
    <2>4. PICK j \in DOMAIN tiers :
              Running(tiers[j], now) /\ AsGood(tiers[j].plan, snaps[i].plan)
        BY <1>1, <2>3 DEF Backed
    <2>5. snaps[i].plan \in Plans /\ tiers[j].plan \in Plans
        <3>1. snaps[i] \in Snap /\ tiers[j] \in Tier
            BY <2>3 DEF IInv
        <3>2. QED
            BY <3>1 DEF Snap, Tier
    <2>6. CASE j = Len(tiers)
        BY <1>1, <1>2, <2>2, <2>4, <2>6 DEF Deal, Own
    <2>7. CASE j # Len(tiers)
        <3>1. j \in q.overlap
            BY <1>1, <2>4, <2>7 DEF Deal, Before
        <3>2. AsGood(q.plan, tiers[j].plan)
            BY <1>1, <2>1, <3>1 DEF Deal
        <3>3. AsGood(q.plan, snaps[i].plan)
            BY <1>1, <2>4, <2>5, <3>2, AsGoodOrder
        <3>4. QED
            BY <1>2, <2>2, <3>3
    <2>8. QED
        BY <2>6, <2>7
<1>4. QED
    BY <1>1, <1>2, <1>3, AddedNotLower

\* The rows of the tiers that it postpones are for later.
LEMMA ChangeNotLower ==
    ASSUME IInv, NEW k \in Tasks, Sold(k), ChangeInsert(k), Prompt, ByTime(now) # {}
    PROVE  \A j \in ByTime(now)' : \E i \in ByTime(now) : Compare(Rank(i), Rank(j)') <= 0
<1> DEFINE q == task[k]
<1>1. PICK w \in q.adding :
          snaps' = Append(snaps, [plan |-> w.plan, from |-> w.from, to |-> w.to,
                                  current |-> FALSE])
    BY DEF ChangeInsert
<1>2. /\ q.pc = "change" /\ q.kind = "purchase" /\ Deal(q) /\ Delay(q) /\ q.at = now
      /\ q \in Task /\ UNCHANGED now /\ now \in Nat
    BY DEF ChangeInsert, At, Sold, Prompt, IInv
<1>3. /\ w.tier \in q.overlap /\ w.plan = tiers[w.tier].plan /\ w.from = tiers[w.tier].start
      /\ tiers[w.tier].start = End(q) /\ w.tier \in DOMAIN tiers
      /\ q.up /\ End(q) # Never
    BY <1>1, <1>2 DEF Delay, Deal, Before
<1>4. w.plan \in Plans
    <2>1. tiers[w.tier] \in Tier
        BY <1>3 DEF IInv
    <2>2. QED
        BY <1>3, <2>1 DEF Tier
<1>5. w.from > now /\ w.from \in Nat
    <2>1. /\ q.start = now /\ q.months \in Nat \ {0}
        BY <1>2, <1>3 DEF Deal
    <2>2. End(q) = q.start + q.months * Month
        BY <1>2, <1>3, EndType DEF AddMonths
    <2>3. q.months * Month \in Nat \ {0}
        BY <2>1, MonthAssumption
    <2>4. QED
        BY <1>2, <1>3, <2>1, <2>2, <2>3
<1> DEFINE row == [plan |-> w.plan, from |-> w.from, to |-> w.to, current |-> FALSE]
<1>6. row.plan = w.plan /\ row.from = w.from /\ snaps' = Append(snaps, row)
    BY <1>1
<1> HIDE DEF row
<1>7. ~InEffect(row, now)
    BY <1>2, <1>3, <1>5, <1>6 DEF InEffect
<1>8. QED
    BY <1>2, <1>4, <1>6, <1>7, AddedNotLower

LEMMA NotLowered ==
    ASSUME NEW k, Tasks = {k}
    PROVE  IInv /\ Targets /\ Sold(k) /\ Backed /\ [Next]_vars =>
               (Prompt /\ now' = now /\ ByTime(now) # {} =>
                  \A j \in ByTime(now)' : \E i \in ByTime(now) :
                      Compare(Rank(i), Rank(j)') <= 0)
<1> SUFFICES ASSUME IInv, Targets, Sold(k), Backed, [Next]_vars,
                    Prompt, now' = now, ByTime(now) # {}
             PROVE  \A j \in ByTime(now)' : \E i \in ByTime(now) :
                        Compare(Rank(i), Rank(j)') <= 0
    OBVIOUS
<1>1. CASE UNCHANGED snaps
    BY <1>1, WindowsStay
<1>2. ASSUME Clear(k) \/ Mark(k)
      PROVE  /\ DOMAIN snaps' = DOMAIN snaps
             /\ \A i \in DOMAIN snaps : /\ snaps'[i].plan = snaps[i].plan
                                        /\ snaps'[i].from = snaps[i].from
                                        /\ snaps'[i].to = snaps[i].to
    <2>1. \A i \in DOMAIN snaps : snaps[i] \in Snap
        BY DEF IInv
    <2>2. CASE Clear(k)
        <3>1. snaps' = [i \in DOMAIN snaps |-> [snaps[i] EXCEPT !.current = FALSE]]
            BY <2>2 DEF Clear
        <3>2. QED
            BY <2>1, <3>1 DEF Snap
    <2>3. CASE Mark(k)
        <3>1. snaps' = [snaps EXCEPT ![task[k].target].current = TRUE]
            BY <2>3 DEF Mark
        <3>2. QED
            BY <2>1, <3>1 DEF Snap
    <2>4. QED
        BY <1>2, <2>2, <2>3
<1>3. ASSUME Clear(k) \/ Mark(k)
      PROVE  \A j \in ByTime(now)' : \E i \in ByTime(now) : Compare(Rank(i), Rank(j)') <= 0
    BY SMTT(30), <1>2, <1>3, WindowsStay
<1>4. Continue(k) => \A j \in ByTime(now)' : \E i \in ByTime(now) :
                         Compare(Rank(i), Rank(j)') <= 0
    BY <1>1, <1>3, InsertNotLower, ChangeNotLower
       DEF Continue, Save, Lookup, Shift, Reload, ChangeLookup, Pick
<1>5. QED
    BY <1>1, <1>4 DEF Next, vars, Purchase, Sync, Repair, Fail, Tick

LEMMA SaleInit ==
    ASSUME NEW k, Tasks = {k}
    PROVE  Init => Waiting(k) /\ Sold(k) /\ Backed
<1> SUFFICES ASSUME Init PROVE Waiting(k) /\ Sold(k) /\ Backed
    OBVIOUS
<1>1. task[k] = IdleTask
    BY DEF Init
<1>2. Waiting(k) /\ Sold(k)
    BY <1>1 DEF Waiting, Sold, At, IdleTask
<1>3. CASE snaps = <<>>
    <2>1. DOMAIN snaps = {}
        BY <1>3
    <2>2. QED
        BY <1>2, <2>1 DEF Backed
<1>4. CASE /\ tiers = <<[plan |-> Free, start |-> 0, end |-> Never, months |-> -1]>>
           /\ snaps = <<[plan |-> Free, from |-> 0, to |-> Never, current |-> TRUE]>>
    <2>1. /\ DOMAIN tiers = {1} /\ DOMAIN snaps = {1}
          /\ tiers[1].plan = Free /\ tiers[1].start = 0 /\ tiers[1].end = Never
          /\ snaps[1].plan = Free
        BY <1>4
    <2>2. \A t \in Nat : Running(tiers[1], t)
        BY <2>1 DEF Running
    <2>3. AsGood(Free, Free)
        BY FreeAssumption, AsGoodOrder
    <2>4. \A i \in DOMAIN snaps, t \in Nat :
              Running(tiers[1], t) /\ AsGood(tiers[1].plan, snaps[i].plan)
        BY <2>1, <2>2, <2>3
    <2>5. QED
        BY <1>2, <2>1, <2>4 DEF Backed
<1>5. QED
    BY <1>2, <1>3, <1>4 DEF Init

\* With one task at a time, whether it finishes or dies half-way, buying never
\* leaves the group, at that instant, entitled by time to a worse plan.
THEOREM NeverLowered ==
    ASSUME NEW k, Tasks = {k}, FreeAlike
    PROVE  Spec => PurchaseNeverLowers
<1>1. IInv /\ Targets /\ Waiting(k) /\ Sold(k) /\ [Next]_vars => Sold(k)'
    BY SoldStep
<1>2. IInv /\ Targets /\ Sold(k) /\ Backed /\ [Next]_vars => Backed'
    BY BackedStep
<1>3. IInv /\ Waiting(k) /\ [Next]_vars => Waiting(k)'
    BY WaitingStep
<1>4. Init => Waiting(k) /\ Sold(k) /\ Backed
    BY SaleInit
<1>5. IInv /\ Targets /\ Sold(k) /\ Backed /\ [Next]_vars =>
          [Prompt /\ now' = now /\ ByTime(now) # {} =>
             \A j \in ByTime(now)' : \E i \in ByTime(now) :
                 Compare(Rank(i), Rank(j)') <= 0]_vars
    BY NotLowered
<1>6. QED
    BY Inductive, TargetInit, TargetStep, <1>1, <1>2, <1>3, <1>4, <1>5, PTL
       DEF Spec, PurchaseNeverLowers
=============================================================================
