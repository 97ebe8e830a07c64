----------------------------- MODULE GroupPlan -----------------------------
(***************************************************************************)
(* The subscription tiers and the entitlement snapshots of one group:      *)
(* PaymentService.applyGroupSubscription and ensureEntitlementSnapshot,    *)
(* GroupEntitlementScheduler.syncCurrentEntitlements and the repair in     *)
(* GroupService.findSubscriptionsInGroup.                                  *)
(*                                                                         *)
(* Time runs in months.  A group_subscription row is a tier the group has  *)
(* bought, a group_entitlement row a snapshot of what the group may do in  *)
(* a window of time; isCurrent marks the snapshot that consumers read.  A  *)
(* task is one run of any of the three functions and advances one awaited  *)
(* statement at a time.                                                    *)
(***************************************************************************)
EXTENDS SubscriptionRanking, Sequences, FiniteSets

CONSTANTS
    Plans,       \* subscriptions on offer
    Offer,       \* their prices and quotas
    Free,        \* the plan a new group is given
    Month,       \* instants in a month
    Quantities,  \* numbers of months one may buy
    Horizon,     \* bound: the last instant of the model
    Lag,         \* bound: instants that may pass while a task runs
    Tasks,       \* bound: tasks in flight at once
    MaxTiers,    \* bound: tiers the group ever has
    MaxFailures  \* bound: tasks that die half-way

ASSUME OfferAssumption == Offer \in [Plans -> Rankable]
ASSUME FreeAssumption == Free \in Plans /\ Offer[Free].price = 0
ASSUME MonthAssumption == Month \in Nat \ {0} /\ Quantities \subseteq Nat \ {0}
ASSUME BoundsAssumption ==
    Horizon \in Nat /\ Lag \in Nat /\ MaxTiers \in Nat /\ MaxFailures \in Nat

VARIABLES
    now,      \* the instant
    tiers,    \* group_subscription rows of the group, in order of insertion
    snaps,    \* group_entitlement rows of the group, in order of insertion
    task,     \* the tasks in flight
    failures  \* tasks that have died so far

vars == <<now, tiers, snaps, task, failures>>

-----------------------------------------------------------------------------
(* Rows and tasks *)

\* endedAt or effectiveTo when it is null.
Never == -1

Tier == [plan : Plans, start : Nat, end : Nat \cup {Never}, months : Int]

Snap == [plan : Plans, from : Nat, to : Nat \cup {Never}, current : BOOLEAN]

\* What ensureEntitlementSnapshot is called with, for tier number `tier`.
Window == [tier : Nat, plan : Plans, from : Nat, to : Nat \cup {Never}]

IsFree(p) == Offer[p].price = 0

\* addMonths.
AddMonths(t, n) == t + n * Month

\* `at` is the instant the task read, `up` is isUpgrade, `overlap` the tiers to
\* postpone and `todo` those still to do, `target` the snapshot to mark (0: one
\* still to insert), `due` and `adding` the windows of the postponed tiers whose
\* snapshot is to be looked up and to be inserted.
Task == [pc : {"idle", "save", "lookup", "clear", "mark", "insert", "shift",
               "reload", "change", "pick"},
         kind : {"purchase", "sync"}, plan : Plans, months : Nat, at : Nat,
         up : BOOLEAN, start : Nat, overlap : SUBSET Nat, todo : SUBSET Nat,
         target : Nat, due : SUBSET Window, adding : SUBSET Window]

IdleTask == [pc |-> "idle", kind |-> "sync", plan |-> Free, months |-> 0, at |-> 0,
             up |-> FALSE, start |-> 0, overlap |-> {}, todo |-> {}, target |-> 0,
             due |-> {}, adding |-> {}]

At(k, step) == task[k].pc = step

Become(k, q) == task' = [task EXCEPT ![k] = q]

Goto(k, step) == task' = [task EXCEPT ![k].pc = step]

\* A tier counts at both ends of its window, a snapshot not at its end.
Running(row, t) == row.start <= t /\ (row.end = Never \/ row.end >= t)

InEffect(row, t) == row.from <= t /\ (row.to = Never \/ row.to > t)

Marked == {i \in DOMAIN snaps : snaps[i].current}

Latest(S) == {i \in S : \A j \in S : snaps[j].from <= snaps[i].from}

\* The snapshot that the windows of time select at t.
ByTime(t) == Latest({i \in DOMAIN snaps : InEffect(snaps[i], t)})

\* The snapshot that the consumers of isCurrent read.
Read == Latest(Marked)

-----------------------------------------------------------------------------
(* applyGroupSubscription *)

Ahead(i, j) ==
    Beats(Offer[tiers[i].plan], tiers[i].start, Offer[tiers[j].plan], tiers[j].start)

RunningTiers == {i \in DOMAIN tiers : Running(tiers[i], now)}

\* The best of the tiers running now, or of all when none is.
Current ==
    LET pool == IF RunningTiers = {} THEN DOMAIN tiers ELSE RunningTiers
    IN {i \in pool : \A j \in pool : ~Ahead(j, i)}

Upgrades(p, row) == Compare(Offer[p], Offer[row.plan]) > 0

\* A purchase that is no upgrade starts when the current tier ends, if it will.
MutStartOf(up, row) == now

MutStartAtEnd(up, row) == IF ~up THEN row.end ELSE now

StartOf(up, row) == IF ~up /\ row.end > now THEN row.end ELSE now

EndOf(p, start, months) == IF IsFree(p) THEN Never ELSE AddMonths(start, months)

\* Two purchases never share an instant, nor a purchase the end of a window.
FreshInstant ==
    /\ \A i \in DOMAIN tiers : now \notin {tiers[i].start, tiers[i].end}
    /\ \A k \in Tasks : At(k, "save") => task[k].at # now

InFlight == Cardinality({k \in Tasks : At(k, "save")})

\* The active tiers are read and the purchase is given its window.
Buy(k, p, months, up, start) ==
    Become(k, [IdleTask EXCEPT !.pc = "save", !.kind = "purchase", !.plan = p,
                 !.months = months, !.at = now, !.up = up, !.start = start,
                 !.overlap = RunningTiers])

Purchase(k, p, months) ==
    /\ At(k, "idle")
    /\ FreshInstant
    /\ Len(tiers) + InFlight < MaxTiers
    /\ \/ tiers = <<>> /\ Buy(k, p, months, TRUE, now)
       \/ \E i \in Current :
            LET up == Upgrades(p, tiers[i])
            IN Buy(k, p, months, up, StartOf(up, tiers[i]))
    /\ UNCHANGED <<now, tiers, snaps, failures>>

End(q) == EndOf(q.plan, q.start, q.months)

Save(k) ==
    LET q == task[k] IN
    /\ At(k, "save")
    /\ tiers' = Append(tiers, [plan |-> q.plan, start |-> q.start,
                               end |-> End(q), months |-> q.months])
    /\ Goto(k, "lookup")
    /\ UNCHANGED <<now, snaps, failures>>

-----------------------------------------------------------------------------
(* ensureEntitlementSnapshot for the tier just bought *)

Existing(plan, from) ==
    {i \in DOMAIN snaps : snaps[i].plan = plan /\ snaps[i].from = from}

\* When the snapshot is there: an upgrade that ends postpones what it overlaps.
AfterSnapshot(q) ==
    IF q.kind = "purchase" /\ q.up /\ End(q) # Never /\ q.overlap # {}
    THEN [q EXCEPT !.pc = "shift", !.todo = q.overlap]
    ELSE IdleTask

Lookup(k) ==
    LET q == task[k]
        existing == Existing(q.plan, q.start)
    IN
    /\ At(k, "lookup")
    /\ \/ /\ existing = {}
          /\ Goto(k, IF q.up THEN "clear" ELSE "insert")
       \/ \E i \in existing :
            Become(k, IF q.up /\ ~snaps[i].current
                      THEN [q EXCEPT !.pc = "clear", !.target = i]
                      ELSE AfterSnapshot(q))
    /\ UNCHANGED <<now, tiers, snaps, failures>>

MutClear(k) ==
    /\ At(k, "clear")
    /\ Goto(k, IF task[k].target = 0 THEN "insert" ELSE "mark")
    /\ UNCHANGED <<now, tiers, snaps, failures>>

\* Every isCurrent of the group is cleared, by a purchase, a sync or a repair.
Clear(k) ==
    /\ At(k, "clear")
    /\ snaps' = [i \in DOMAIN snaps |-> [snaps[i] EXCEPT !.current = FALSE]]
    /\ Goto(k, IF task[k].target = 0 THEN "insert" ELSE "mark")
    /\ UNCHANGED <<now, tiers, failures>>

Mark(k) ==
    /\ At(k, "mark")
    /\ snaps' = [snaps EXCEPT ![task[k].target].current = TRUE]
    /\ Become(k, AfterSnapshot(task[k]))
    /\ UNCHANGED <<now, tiers, failures>>

MutInsert(k) ==
    LET q == task[k] IN
    /\ At(k, "insert")
    /\ snaps' = Append(snaps, [plan |-> q.plan, from |-> q.start, to |-> End(q),
                               current |-> FALSE])
    /\ Become(k, AfterSnapshot(q))
    /\ UNCHANGED <<now, tiers, failures>>

Insert(k) ==
    LET q == task[k] IN
    /\ At(k, "insert")
    /\ snaps' = Append(snaps, [plan |-> q.plan, from |-> q.start, to |-> End(q),
                               current |-> q.up])
    /\ Become(k, AfterSnapshot(q))
    /\ UNCHANGED <<now, tiers, failures>>

-----------------------------------------------------------------------------
(* The tiers that an upgrade postpones until it ends *)

\* monthQuantity, or one month when the row has none.
Length(row) == IF row.months >= 1 THEN row.months ELSE 1

MutPostponed(row, anchor) == [row EXCEPT !.start = anchor]

Postponed(row, anchor) ==
    [row EXCEPT !.start = anchor,
                !.end = IF IsFree(row.plan) THEN @ ELSE AddMonths(anchor, Length(row))]

Shift(k) ==
    /\ At(k, "shift")
    /\ \E i \in task[k].todo :
        /\ tiers' = [tiers EXCEPT ![i] = Postponed(@, End(task[k]))]
        /\ task' = [task EXCEPT ![k].todo = @ \ {i},
                                ![k].pc = IF task[k].todo = {i} THEN "reload" ELSE @]
    /\ UNCHANGED <<now, snaps, failures>>

MutReload(k) ==
    /\ At(k, "reload")
    /\ Become(k, IdleTask)
    /\ UNCHANGED <<now, tiers, snaps, failures>>

Reload(k) ==
    /\ At(k, "reload")
    /\ task' = [task EXCEPT ![k].pc = "change",
                    ![k].due = {[tier |-> i, plan |-> tiers[i].plan,
                                 from |-> tiers[i].start, to |-> tiers[i].end] :
                                i \in task[k].overlap}]
    /\ UNCHANGED <<now, tiers, snaps, failures>>

\* One of the parallel calls has looked its window up.
ChangeLookup(k) ==
    /\ At(k, "change")
    /\ \E w \in task[k].due :
        LET rest == [task[k] EXCEPT !.due = @ \ {w}] IN
        IF Existing(w.plan, w.from) = {}
        THEN Become(k, [rest EXCEPT !.adding = @ \cup {w}])
        ELSE Become(k, IF rest.due = {} /\ rest.adding = {} THEN IdleTask ELSE rest)
    /\ UNCHANGED <<now, tiers, snaps, failures>>

ChangeInsert(k) ==
    /\ At(k, "change")
    /\ \E w \in task[k].adding :
        LET rest == [task[k] EXCEPT !.adding = @ \ {w}] IN
        /\ snaps' = Append(snaps, [plan |-> w.plan, from |-> w.from, to |-> w.to,
                                   current |-> FALSE])
        /\ Become(k, IF rest.due = {} /\ rest.adding = {} THEN IdleTask ELSE rest)
    /\ UNCHANGED <<now, tiers, failures>>

-----------------------------------------------------------------------------
(* The scheduler, the repair, time and failures *)

Retarget(k, i) ==
    Become(k, [IdleTask EXCEPT !.pc = "clear", !.at = now, !.target = i])

\* syncCurrentEntitlements for this group, every five minutes.
MutSync(k) ==
    LET inEffect == {i \in DOMAIN snaps : InEffect(snaps[i], now)} IN
    /\ At(k, "idle")
    /\ \E i \in inEffect :
        /\ \A j \in inEffect : snaps[j].from >= snaps[i].from
        /\ ~snaps[i].current
        /\ Retarget(k, i)
    /\ UNCHANGED <<now, tiers, snaps, failures>>

Sync(k) ==
    /\ At(k, "idle")
    /\ \E i \in ByTime(now) : ~snaps[i].current /\ Retarget(k, i)
    /\ UNCHANGED <<now, tiers, snaps, failures>>

\* findSubscriptionsInGroup finds no snapshot marked, or a stale one.
Repair(k) ==
    /\ At(k, "idle")
    /\ \/ Read = {}
       \/ \E i \in Read : ~InEffect(snaps[i], now)
    /\ Become(k, [IdleTask EXCEPT !.pc = "pick", !.at = now])
    /\ UNCHANGED <<now, tiers, snaps, failures>>

Pick(k) ==
    LET inEffect == ByTime(task[k].at) IN
    /\ At(k, "pick")
    /\ \/ snaps = <<>> /\ Become(k, IdleTask)
       \/ \E i \in IF inEffect = {} THEN Latest(DOMAIN snaps) ELSE inEffect :
            Become(k, [task[k] EXCEPT !.pc = "clear", !.target = i])
    /\ UNCHANGED <<now, tiers, snaps, failures>>

Tick ==
    /\ now < Horizon
    /\ \A k \in Tasks : At(k, "idle") \/ now < task[k].at + Lag
    /\ now' = now + 1
    /\ UNCHANGED <<tiers, snaps, task, failures>>

\* A statement of a task fails or the process dies: the rest is not run.
Fail(k) ==
    /\ ~At(k, "idle")
    /\ failures < MaxFailures
    /\ failures' = failures + 1
    /\ Become(k, IdleTask)
    /\ UNCHANGED <<now, tiers, snaps>>

-----------------------------------------------------------------------------
\* A group without a plan, or on the free plan that createOne gives it.
Init ==
    /\ now = 0
    /\ \/ tiers = <<>> /\ snaps = <<>>
       \/ /\ tiers = <<[plan |-> Free, start |-> 0, end |-> Never, months |-> -1]>>
          /\ snaps = <<[plan |-> Free, from |-> 0, to |-> Never, current |-> TRUE]>>
    /\ task = [k \in Tasks |-> IdleTask]
    /\ failures = 0

\* The next statement of a task that is running.
Continue(k) ==
    \/ Save(k) \/ Lookup(k) \/ Clear(k) \/ Mark(k) \/ Insert(k)
    \/ Shift(k) \/ Reload(k) \/ ChangeLookup(k) \/ ChangeInsert(k)
    \/ Pick(k)

Next ==
    \/ \E k \in Tasks :
        \/ \E p \in Plans, n \in Quantities : Purchase(k, p, n)
        \/ Continue(k)
        \/ Sync(k)
        \/ Repair(k)
        \/ Fail(k)
    \/ Tick

Spec == Init /\ [][Next]_vars

\* Statements that were issued complete, and the scheduler comes round.
FairSpec == Spec /\ \A k \in Tasks : WF_vars(Continue(k)) /\ WF_vars(Sync(k))

-----------------------------------------------------------------------------
(* Properties *)

Quiet == \A k \in Tasks : At(k, "idle")

\* Rows and tasks keep the shape of the entities.
TypeOK ==
    /\ now \in Nat
    /\ tiers \in Seq(Tier)
    /\ snaps \in Seq(Snap)
    /\ task \in [Tasks -> Task]
    /\ failures \in Nat

\* However purchases and postponements interleave or fail, a tier that was paid
\* for lasts the months that were paid: endedAt moves with startedAt.
PaidMonthsKept ==
    \A i \in DOMAIN tiers :
        LET t == tiers[i] IN
        IF IsFree(t.plan) THEN t.end = Never ELSE t.end = AddMonths(t.start, t.months)

\* A group has no more snapshots marked current than tasks may run on it at once,
\* however they overlap or die: each clears every mark before it sets its own.
\* With one task that is the repair's "ensure only one isCurrent=true".
OneMarked == Cardinality(Marked) <= Cardinality(Tasks)

\* When an upgrade is about to postpone other tiers, isCurrent already names the
\* plan just bought: the payer does not wait for the scheduler.
UpgradeServed ==
    \A k \in Tasks : At(k, "shift") =>
        Read # {} /\ \A i \in Read : snaps[i].plan = task[k].plan

\* Between tasks every tier, postponed or not, has a snapshot that starts with it,
\* so that the scheduler can find it when its time comes.
TierHasSnapshot ==
    Quiet => \A i \in DOMAIN tiers : Existing(tiers[i].plan, tiers[i].start) # {}

Rank(i) == Offer[snaps[i].plan]

Prompt == \A k \in Tasks : task[k].kind = "purchase" => task[k].at = now

\* Buying never leaves the group, at that instant, entitled by time to a worse
\* plan than before: renewals and downgrades wait, upgrades apply at once.
PurchaseNeverLowers ==
    [][Prompt /\ now' = now /\ ByTime(now) # {} =>
        \A j \in ByTime(now)' : \E i \in ByTime(now) : Compare(Rank(i), Rank(j)') <= 0]_vars

\* The mark never stays out of step: again and again it names a snapshot in effect,
\* if there is one ("Keeps group_entitlement.isCurrent in sync with
\* effectiveFrom/effectiveTo").
InSync == []<>(ByTime(now) = {} \/ (Read # {} /\ Read \subseteq ByTime(now)))

Apart(row, from, to) == row.start >= to \/ (row.end # Never /\ row.end <= from)

\* Disagrees with the code.  applyGroupSubscription: "If this purchase is an upgrade
\* applied now, postpone overlapping active tiers until after it ends", yet only the
\* tiers running now are postponed; one scheduled inside the upgrade's window stays.
OverlapPostponed ==
    \A k \in Tasks : At(k, "reload") =>
        LET q == task[k] IN
        \A i \in DOMAIN tiers :
            \/ tiers[i].plan = q.plan /\ tiers[i].start = q.start
            \/ Apart(tiers[i], q.start, End(q))
=============================================================================
