----------------------------- MODULE Catalogue -----------------------------
(***************************************************************************)
(* The plans a group can buy: SubscriptionService, the seeder that fills   *)
(* the catalogue at start, and the group_subscription rows that point to   *)
(* plans, with no foreign key: those of a purchase or of a new group, and  *)
(* those GroupSubscriptionService writes.  Each action is one awaited      *)
(* statement of one call; the probes for a free copy name are one read.    *)
(***************************************************************************)
EXTENDS Integers, Sequences, FiniteSets

CONSTANTS
    PlanCodes,    \* codes an admin types
    SeedCodes,    \* the codes of the seeder
    FreeCode,     \* the one a new group is given
    Terms,        \* price, level and limits of a plan, together
    SeedTerms,
    Absent,       \* no value
    Desks,        \* bound: calls at once
    MaxPlans,     \* bound: plans ever inserted
    MaxUses,      \* bound: group_subscription rows
    MaxVersion,   \* bound: versions of one code
    MaxCopies     \* bound: the copy numbers tried, 50 in the code

ASSUME CatalogueAssumption ==
    FreeCode \in SeedCodes /\ SeedCodes \subseteq PlanCodes /\ IsFiniteSet(SeedCodes) /\ SeedTerms \in Terms
ASSUME CatalogueBounds == {MaxPlans, MaxUses, MaxVersion, MaxCopies} \subseteq Nat \ {0}

VARIABLES
    plans,      \* subscription rows, in order of insertion; Deleted once removed
    uses,       \* group_subscription rows
    deskCall,   \* the calls in flight
    desksApart  \* history: no two calls overlapped

catalogueVars == <<plans, uses, deskCall, desksApart>>

-----------------------------------------------------------------------------
Deleted == Absent
Keep == Absent   \* a field the request leaves out
NoUse == Absent
NoTerms == Absent

\* A code or a name: a base, BASE_COPY, BASE_COPY_2 ...; compared without case.
Label == [base : PlanCodes, copy : 0 .. MaxCopies]
Typed(b) == [base |-> b, copy |-> 0]
TypedLabels == {Typed(b) : b \in PlanCodes}

Plan == [code : Label, name : Label, terms : Terms, version : 1 .. MaxVersion, active : BOOLEAN]

ASSUME AbsentAssumption == Absent \notin Terms \cup BOOLEAN /\ Absent \notin Plan

\* live: endedAt is null or not past.  bought: the terms shown when a group
\* bought it (history), NoTerms once an admin wrote the row.
Use == [plan : 1 .. MaxPlans, live : BOOLEAN, bought : Terms \cup {NoTerms}]

\* UpdateSubscriptionRequest: every field may be left out.
Change == [code : TypedLabels \cup {Keep}, name : TypedLabels \cup {Keep},
           terms : Terms \cup {Keep}, active : BOOLEAN \cup {Keep}]
Or(new, old) == IF new = Keep THEN old ELSE new
Changed(p, ch) == [p EXCEPT !.code = Or(ch.code, @), !.name = Or(ch.name, @),
                            !.terms = Or(ch.terms, @), !.active = Or(ch.active, @)]

NewPlan(l, n, t, a) == [code |-> l, name |-> n, terms |-> t, version |-> 1, active |-> a]
BlankPlan == NewPlan(Typed(FreeCode), Typed(FreeCode), SeedTerms, TRUE)
NoChange == [code |-> Keep, name |-> Keep, terms |-> Keep, active |-> Keep]

DeskCall == [pc : {"idle", "insert", "unique", "count", "write", "version", "retire",
                   "delete", "bind", "seed"},
             plan : 0 .. MaxPlans, row : Plan, change : Change, seeds : SUBSET SeedCodes]
NoDeskCall == [pc |-> "idle", plan |-> 0, row |-> BlankPlan, change |-> NoChange, seeds |-> {}]

Stored == {i \in DOMAIN plans : plans[i] # Deleted}
DeskAt(d, pc) == deskCall[d].pc = pc
DeskGoto(d, pc) == deskCall' = [deskCall EXCEPT ![d].pc = pc]
DeskHolds(d, pc, i, row, ch) ==
    deskCall' = [deskCall EXCEPT ![d] = [pc |-> pc, plan |-> i, row |-> row, change |-> ch,
                                        seeds |-> {}]]
DeskDone(d) == deskCall' = [deskCall EXCEPT ![d] = NoDeskCall]
DeskStarts(d) ==
    /\ deskCall[d] = NoDeskCall
    /\ desksApart' = (desksApart /\ \A o \in Desks : deskCall[o] = NoDeskCall)
SameDesks == UNCHANGED desksApart

\* assertUniqueCodeAndName over the codes and names asked about.
Taken(ls, ns, except) ==
    \E i \in Stored \ except : plans[i].code \in ls \/ plans[i].name \in ns

-----------------------------------------------------------------------------
(* SubscriptionService *)

CreatePlan(d) ==
    /\ DeskStarts(d)
    /\ \E l, n \in TypedLabels, t \in Terms, a \in BOOLEAN :
        /\ ~Taken({l}, {n}, {})
        /\ DeskHolds(d, "insert", 0, NewPlan(l, n, t, a), NoChange)
    /\ UNCHANGED <<plans, uses>>

\* generateDuplicateIdentity: the next number free for both code and name.
CopyNumber(label, offset) == label.copy + 1 + offset
Copy(label, offset) == [label EXCEPT !.copy = CopyNumber(label, offset)]

DuplicatePlan(d) ==
    /\ DeskStarts(d)
    /\ \E i \in Stored :
        LET p == plans[i]
            fits == {o \in 0 .. MaxCopies - 1 : /\ {Copy(p.code, o), Copy(p.name, o)} \subseteq Label
                                                /\ ~Taken({Copy(p.code, o)}, {Copy(p.name, o)}, {})}
        IN \E o \in fits :
            /\ \A q \in fits : o <= q
            /\ DeskHolds(d, "insert", 0,
                         [p EXCEPT !.code = Copy(@, o), !.name = Copy(@, o), !.version = 1], NoChange)
    /\ UNCHANGED <<plans, uses>>

InsertPlan(d) ==
    /\ DeskAt(d, "insert")
    /\ Len(plans) < MaxPlans
    /\ plans' = Append(plans, deskCall[d].row)
    /\ DeskDone(d)
    /\ UNCHANGED uses /\ SameDesks

\* updateOne asks about a new code or name only, and never about its own row.
UpdatePlan(d) ==
    /\ DeskStarts(d)
    /\ \E i \in Stored, ch \in Change :
        DeskHolds(d, IF Changed(plans[i], [ch EXCEPT !.terms = Keep, !.active = Keep]) = plans[i]
                     THEN "count" ELSE "unique", i, plans[i], ch)
    /\ UNCHANGED <<plans, uses>>

AssertUnique(d) ==
    /\ DeskAt(d, "unique")
    /\ LET c == deskCall[d]
           news(old, new) == {new} \ {old, Keep}
       IN IF Taken(news(c.row.code, c.change.code), news(c.row.name, c.change.name), {c.plan})
          THEN DeskDone(d)
          ELSE DeskGoto(d, "count")
    /\ UNCHANGED <<plans, uses>> /\ SameDesks

UsesOf(i) == {u \in DOMAIN uses : uses[u] # NoUse /\ uses[u].plan = i}

\* Mutant: one use alone does not count.
MutUsed(i) == \E u, v \in UsesOf(i) : u # v
Used(i) == UsesOf(i) # {}

\* A used plan keeps its terms: other ones make the next version.
CountUses(d) ==
    /\ DeskAt(d, "count")
    /\ LET c == deskCall[d] IN
       IF Used(c.plan) /\ Or(c.change.terms, c.row.terms) # c.row.terms
       THEN /\ c.row.version < MaxVersion
            /\ DeskHolds(d, "version", c.plan, [Changed(c.row, c.change) EXCEPT !.version = @ + 1], NoChange)
       ELSE DeskHolds(d, "write", c.plan, BlankPlan, c.change)
    /\ UNCHANGED <<plans, uses>> /\ SameDesks

WritePlan(d) ==
    /\ DeskAt(d, "write")
    /\ LET c == deskCall[d]
       IN plans' = IF c.plan \in Stored THEN [plans EXCEPT ![c.plan] = Changed(@, c.change)] ELSE plans
    /\ DeskDone(d)
    /\ UNCHANGED uses /\ SameDesks

InsertVersion(d) ==
    /\ DeskAt(d, "version")
    /\ Len(plans) < MaxPlans
    /\ plans' = Append(plans, deskCall[d].row)
    /\ DeskHolds(d, "retire", deskCall[d].plan, BlankPlan, NoChange)
    /\ UNCHANGED uses /\ SameDesks

RetirePlan(d) ==
    /\ DeskAt(d, "retire")
    /\ LET i == deskCall[d].plan
       IN plans' = IF i \in Stored THEN [plans EXCEPT ![i].active = FALSE] ELSE plans
    /\ DeskDone(d)
    /\ UNCHANGED uses /\ SameDesks

\* deleteOne counts the uses that have not ended.
DeletePlan(d) ==
    /\ DeskStarts(d)
    /\ \E i \in DOMAIN plans :
        /\ \A u \in UsesOf(i) : ~uses[u].live
        /\ DeskHolds(d, "delete", i, BlankPlan, NoChange)
    /\ UNCHANGED <<plans, uses>>

RemovePlan(d) ==
    /\ DeskAt(d, "delete")
    /\ plans' = [plans EXCEPT ![deskCall[d].plan] = Deleted]
    /\ DeskDone(d)
    /\ UNCHANGED uses /\ SameDesks

-----------------------------------------------------------------------------
(* SubscriptionStartupSeeder *)

\* Codes are looked for, names are not.  The missing plans are saved together,
\* in the order of the seeder's list, which is left open.
SeedPlans(d) ==
    /\ DeskStarts(d)
    /\ LET missing == {l \in SeedCodes : ~Taken({Typed(l)}, {}, {})}
       IN deskCall' = IF missing = {} THEN deskCall
                      ELSE [deskCall EXCEPT ![d].pc = "seed", ![d].seeds = missing]
    /\ UNCHANGED <<plans, uses>>

SaveSeeds(d) ==
    /\ DeskAt(d, "seed")
    /\ LET n == Cardinality(deskCall[d].seeds)
       IN \E order \in [1 .. n -> deskCall[d].seeds] :
           /\ \A j, k \in 1 .. n : order[j] = order[k] => j = k
           /\ Len(plans) + n <= MaxPlans
           /\ plans' = plans \o [k \in 1 .. n |-> NewPlan(Typed(order[k]), Typed(order[k]), SeedTerms, TRUE)]
    /\ DeskDone(d)
    /\ UNCHANGED uses /\ SameDesks

-----------------------------------------------------------------------------
(* The rows that point to a plan *)

\* applyGroupSubscription reads the plan by id, active or not.
ReadPurchased(d) ==
    /\ DeskStarts(d)
    /\ \E i \in Stored : DeskHolds(d, "bind", i, plans[i], NoChange)
    /\ UNCHANGED <<plans, uses>>

\* A new group: the FREE row that is active if one is, then the last version.
ReadFree(d) ==
    /\ DeskStarts(d)
    /\ LET free == {i \in Stored : plans[i].code = Typed(FreeCode)}
           before(i, j) == \/ plans[i].active /\ ~plans[j].active
                           \/ plans[i].active = plans[j].active /\ plans[i].version >= plans[j].version
       IN \E i \in free : /\ \A j \in free : before(i, j)
                          /\ DeskHolds(d, "bind", i, plans[i], NoChange)
    /\ UNCHANGED <<plans, uses>>

Bind(d) ==
    /\ DeskAt(d, "bind")
    /\ \E u \in DOMAIN uses :
        /\ uses[u] = NoUse
        /\ uses' = [uses EXCEPT ![u] = [plan |-> deskCall[d].plan, live |-> TRUE,
                                         bought |-> deskCall[d].row.terms]]
    /\ DeskDone(d)
    /\ UNCHANGED plans /\ SameDesks

\* endedAt passes, or a change of tier sets it.
UseEnds == \E u \in DOMAIN uses :
    /\ uses[u] # NoUse /\ uses[u].live
    /\ uses' = [uses EXCEPT ![u].live = FALSE]
    /\ UNCHANGED <<plans, deskCall, desksApart>>

\* GroupSubscriptionService.createOne and updateOne: one statement each, which
\* does not look at the plan, nor at the history of the row.
WriteUse == \E u \in DOMAIN uses, i \in DOMAIN plans, b \in BOOLEAN :
    /\ uses' = [uses EXCEPT ![u] = [plan |-> i, live |-> b, bought |-> NoTerms]]
    /\ UNCHANGED <<plans, deskCall>>
    /\ desksApart' = (desksApart /\ \A d \in Desks : deskCall[d] = NoDeskCall)

DeleteUse == \E u \in DOMAIN uses :
    /\ uses[u] # NoUse
    /\ uses' = [uses EXCEPT ![u] = NoUse]
    /\ UNCHANGED <<plans, deskCall>>
    /\ desksApart' = (desksApart /\ \A d \in Desks : deskCall[d] = NoDeskCall)

\* A statement fails, and the call ends there.
DeskDies(d) ==
    /\ deskCall[d] # NoDeskCall
    /\ DeskDone(d)
    /\ UNCHANGED <<plans, uses>> /\ SameDesks

-----------------------------------------------------------------------------
CatalogueInit ==
    /\ plans = <<>>
    /\ uses = [u \in 1 .. MaxUses |-> NoUse]
    /\ deskCall = [d \in Desks |-> NoDeskCall]
    /\ desksApart = TRUE

CatalogueNext ==
    \/ \E d \in Desks :
        \/ CreatePlan(d) \/ DuplicatePlan(d) \/ InsertPlan(d)
        \/ UpdatePlan(d) \/ AssertUnique(d) \/ CountUses(d) \/ WritePlan(d)
        \/ InsertVersion(d) \/ RetirePlan(d) \/ DeletePlan(d) \/ RemovePlan(d)
        \/ SeedPlans(d) \/ SaveSeeds(d) \/ ReadPurchased(d) \/ ReadFree(d) \/ Bind(d) \/ DeskDies(d)
    \/ UseEnds \/ WriteUse \/ DeleteUse

CatalogueSpec == CatalogueInit /\ [][CatalogueNext]_catalogueVars

-----------------------------------------------------------------------------
(* Properties *)

CatalogueTypeOK ==
    /\ plans \in Seq(Plan \cup {Deleted}) /\ Len(plans) <= MaxPlans
    /\ uses \in [1 .. MaxUses -> Use \cup {NoUse}]
    /\ deskCall \in [Desks -> DeskCall]
    /\ desksApart \in BOOLEAN

(***************************************************************************)
(* While calls do not overlap, a group whose tier has not ended, and which *)
(* no admin has rewritten, finds the plan it points to, with the terms it  *)
(* was sold with: a change of terms makes a new version, and a plan in use *)
(* is not deleted (updateOne, deleteOne).                                  *)
(***************************************************************************)
AsBought ==
    desksApart =>
        \A u \in DOMAIN uses :
            (uses[u] # NoUse /\ uses[u].live /\ uses[u].bought # NoTerms)
            => uses[u].plan \in Stored /\ plans[uses[u].plan].terms = uses[u].bought
=============================================================================
