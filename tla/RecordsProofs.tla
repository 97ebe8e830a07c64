--------------------------- MODULE RecordsProofs ---------------------------
(***************************************************************************)
(* Proofs about the records that outlive their calls: the plans that       *)
(* groups bought (Catalogue), the task board and its history (Board), the  *)
(* languages of a profile (Languages), and the figures over reports and    *)
(* registrations (Analytics).  Each is for any number of calls, rows and   *)
(* values.                                                                 *)
(*                                                                         *)
(* The properties of the first three hold while calls do not overlap.      *)
(* What carries them from one statement of a call to the next is that the  *)
(* call in flight is the only one, and that what it has read is still so:  *)
(* UpToDate for Catalogue (the plan it edits is as it was read and, once   *)
(* counted, unused or to keep its terms; the plan it deletes has no live   *)
(* use; the plan it binds is stored with the terms it was shown with),     *)
(* CallKnows for Board, EditKnows for Languages.  What the types need of a *)
(* call holds whether calls overlap or not: Bindable, CallHolds,           *)
(* EntryCallTyped.                                                         *)
(*                                                                         *)
(* Analytics needs no more of its state than the types: whatever the rows  *)
(* are, the buckets of a request are whole units from the first to the     *)
(* last (BucketsAre, UserBucketsAre), every instant of the range is in one *)
(* of them (InUnits) and in one only (StartsApart), dropping what a Date   *)
(* does not keep leaves it there (DateStays), and sets that share nothing  *)
(* add up (SumOfParts, in Sums).                                           *)
(***************************************************************************)
EXTENDS Catalogue, Board, Languages, Analytics, Sums, SequenceTheorems

-----------------------------------------------------------------------------
(* Catalogue *)

OneDeskCall == \A d, e \in Desks : deskCall[d] # NoDeskCall /\ deskCall[e] # NoDeskCall => d = e

UpToDate(d) ==
    LET c == deskCall[d]
    IN /\ c.pc \in {"unique", "count"} => c.plan \in Stored /\ plans[c.plan] = c.row
       /\ c.pc = "write" /\ c.plan \in Stored =>
            UsesOf(c.plan) = {} \/ Or(c.change.terms, plans[c.plan].terms) = plans[c.plan].terms
       /\ c.pc = "delete" => \A u \in UsesOf(c.plan) : ~uses[u].live
       /\ c.pc = "bind" => c.plan \in Stored /\ plans[c.plan].terms = c.row.terms

Served(u) ==
    (uses[u] # NoUse /\ uses[u].live /\ uses[u].bought # NoTerms)
    => uses[u].plan \in Stored /\ plans[uses[u].plan].terms = uses[u].bought

Careful == /\ OneDeskCall
           /\ \A d \in Desks : UpToDate(d)
           /\ \A u \in DOMAIN uses : Served(u)

Bindable == \A d \in Desks : DeskAt(d, "bind") => deskCall[d].plan # 0

CatalogueInv == CatalogueTypeOK /\ Bindable /\ (desksApart => Careful)

-----------------------------------------------------------------------------
(* Catalogue: types *)

LEMMA SmallNumbers ==
    /\ 0 \in 0 .. MaxPlans /\ 0 \in 0 .. MaxCopies /\ 1 \in 1 .. MaxVersion
    /\ MaxPlans \in Nat /\ MaxUses \in Nat /\ MaxVersion \in Nat /\ MaxCopies \in Nat
BY CatalogueBounds

LEMMA NewPlanType ==
    ASSUME NEW l \in Label, NEW n \in Label, NEW t \in Terms, NEW a \in BOOLEAN
    PROVE  NewPlan(l, n, t, a) \in Plan
BY SmallNumbers DEF NewPlan, Plan

LEMMA TypedType == \A b \in PlanCodes : Typed(b) \in Label
BY SmallNumbers DEF Typed, Label

LEMMA BlankPlanType == BlankPlan \in Plan
BY TypedType, NewPlanType, CatalogueAssumption DEF BlankPlan

\* A stored plan is not mistaken for one that was removed.
LEMMA NotDeleted == \A p \in Plan : p # Deleted
BY AbsentAssumption DEF Plan, Deleted

LEMMA NoChangeType == NoChange \in Change
BY DEF NoChange, Change

LEMMA NoDeskCallType == NoDeskCall \in DeskCall
BY BlankPlanType, NoChangeType, SmallNumbers DEF NoDeskCall, DeskCall

LEMMA ChangedType ==
    ASSUME NEW p \in Plan, NEW ch \in Change
    PROVE  /\ Changed(p, ch) \in Plan
           /\ Changed(p, ch).terms = Or(ch.terms, p.terms)
           /\ Changed(p, ch).version = p.version
<1>1. Or(ch.code, p.code) \in Label BY TypedType DEF Or, Change, TypedLabels, Plan
<1>2. Or(ch.name, p.name) \in Label BY TypedType DEF Or, Change, TypedLabels, Plan
<1>3. Or(ch.terms, p.terms) \in Terms BY DEF Or, Change, Plan
<1>4. Or(ch.active, p.active) \in BOOLEAN BY DEF Or, Change, Plan
<1> QED BY <1>1, <1>2, <1>3, <1>4 DEF Changed, Plan

\* Calls move on, hold a plan, or end; none of it breaks their type.
LEMMA GotoType ==
    ASSUME CatalogueTypeOK, NEW d \in Desks,
           NEW pc \in {"idle", "insert", "unique", "count", "write", "version", "retire",
                       "delete", "bind", "seed"},
           DeskGoto(d, pc)
    PROVE  deskCall' \in [Desks -> DeskCall]
<1>1. deskCall[d] \in DeskCall BY DEF CatalogueTypeOK
<1>2. [deskCall[d] EXCEPT !.pc = pc] \in DeskCall BY <1>1 DEF DeskCall
<1> QED BY <1>2 DEF DeskGoto, CatalogueTypeOK

LEMMA HoldsType ==
    ASSUME CatalogueTypeOK, NEW d \in Desks,
           NEW pc \in {"idle", "insert", "unique", "count", "write", "version", "retire",
                       "delete", "bind", "seed"},
           NEW i \in 0 .. MaxPlans, NEW row \in Plan, NEW ch \in Change,
           DeskHolds(d, pc, i, row, ch)
    PROVE  deskCall' \in [Desks -> DeskCall]
<1>1. [pc |-> pc, plan |-> i, row |-> row, change |-> ch, seeds |-> {}] \in DeskCall
    BY DEF DeskCall
<1> QED BY <1>1 DEF DeskHolds, CatalogueTypeOK

LEMMA DoneType ==
    ASSUME CatalogueTypeOK, NEW d \in Desks, DeskDone(d)
    PROVE  deskCall' \in [Desks -> DeskCall]
BY NoDeskCallType DEF DeskDone, CatalogueTypeOK

LEMMA StoredType ==
    ASSUME CatalogueTypeOK, NEW i \in Stored
    PROVE  i \in 1 .. Len(plans) /\ i \in 1 .. MaxPlans /\ i \in 0 .. MaxPlans /\ plans[i] \in Plan
<1>1. i \in 1 .. Len(plans) /\ Len(plans) \in Nat /\ Len(plans) <= MaxPlans
    BY DEF CatalogueTypeOK, Stored
<1>2. plans[i] \in Plan BY <1>1 DEF CatalogueTypeOK, Stored
<1> QED BY <1>1, <1>2, SmallNumbers

LEMMA CallType ==
    ASSUME CatalogueTypeOK, NEW d \in Desks
    PROVE  /\ deskCall[d].plan \in 0 .. MaxPlans /\ deskCall[d].row \in Plan
           /\ deskCall[d].change \in Change /\ deskCall[d].seeds \in SUBSET SeedCodes
BY DEF CatalogueTypeOK, DeskCall

\* Appending a plan keeps those there are.
LEMMA AppendType ==
    ASSUME CatalogueTypeOK, NEW p \in Plan, Len(plans) < MaxPlans, plans' = Append(plans, p)
    PROVE  plans' \in Seq(Plan \cup {Deleted}) /\ Len(plans') <= MaxPlans
<1>1. plans \in Seq(Plan \cup {Deleted}) /\ Len(plans) \in Nat BY DEF CatalogueTypeOK
<1> QED BY <1>1, SmallNumbers

LEMMA ReplaceType ==
    ASSUME CatalogueTypeOK, NEW i \in DOMAIN plans, NEW p \in Plan \cup {Deleted},
           plans' = [plans EXCEPT ![i] = p]
    PROVE  plans' \in Seq(Plan \cup {Deleted}) /\ Len(plans') <= MaxPlans
<1>1. plans \in Seq(Plan \cup {Deleted}) /\ Len(plans) \in Nat BY DEF CatalogueTypeOK
<1>2. plans' \in Seq(Plan \cup {Deleted}) /\ Len(plans') = Len(plans) BY <1>1
<1> QED BY <1>2 DEF CatalogueTypeOK

\* The plans the seeder saves are appended in some order.
LEMMA SeedsType ==
    ASSUME CatalogueTypeOK, NEW d \in Desks, SaveSeeds(d)
    PROVE  /\ plans' \in Seq(Plan \cup {Deleted}) /\ Len(plans') <= MaxPlans
           /\ \A i \in DOMAIN plans : i \in DOMAIN plans' /\ plans'[i] = plans[i]
<1> DEFINE n == Cardinality(deskCall[d].seeds)
<1>1. IsFiniteSet(deskCall[d].seeds) BY CallType, CatalogueAssumption, FS_Subset
<1>2. n \in Nat BY <1>1, FS_CardinalityType
<1>3. PICK order \in [1 .. n -> deskCall[d].seeds] :
          /\ Len(plans) + n <= MaxPlans
          /\ plans' = plans \o [k \in 1 .. n |-> NewPlan(Typed(order[k]), Typed(order[k]), SeedTerms, TRUE)]
    BY DEF SaveSeeds
<1> DEFINE added == [k \in 1 .. n |-> NewPlan(Typed(order[k]), Typed(order[k]), SeedTerms, TRUE)]
<1>4. \A k \in 1 .. n : NewPlan(Typed(order[k]), Typed(order[k]), SeedTerms, TRUE) \in Plan
    BY CallType, TypedType, NewPlanType, CatalogueAssumption
<1>5. added \in Seq(Plan \cup {Deleted}) /\ Len(added) = n
    <2>1. added \in [1 .. n -> Plan \cup {Deleted}] BY <1>4
    <2> HIDE DEF added, n
    <2>2. added \in Seq(Plan \cup {Deleted}) BY <1>2, <2>1, SeqDef
    <2>3. DOMAIN added = 1 .. n /\ DOMAIN added = 1 .. Len(added) /\ Len(added) \in Nat
        BY <2>1, <2>2, LenProperties
    <2>4. Len(added) = n BY <1>2, <2>3
    <2> QED BY <2>2, <2>4
<1>6. plans \in Seq(Plan \cup {Deleted}) BY DEF CatalogueTypeOK
<1>7. plans' = plans \o added BY <1>3
<1> HIDE DEF added
<1>8. /\ plans' \in Seq(Plan \cup {Deleted}) /\ Len(plans') = Len(plans) + n
      /\ \A i \in DOMAIN plans : i \in DOMAIN plans' /\ plans'[i] = plans[i]
    BY <1>2, <1>5, <1>6, <1>7
<1> QED BY <1>3, <1>8

LEMMA CopyType ==
    ASSUME NEW p \in Plan, NEW o \in 0 .. MaxCopies - 1,
           {Copy(p.code, o), Copy(p.name, o)} \subseteq Label
    PROVE  [p EXCEPT !.code = Copy(@, o), !.name = Copy(@, o), !.version = 1] \in Plan
BY SmallNumbers DEF Plan

LEMMA CatalogueKeepsTypes == CatalogueInv /\ [CatalogueNext]_catalogueVars => CatalogueTypeOK'
<1> SUFFICES ASSUME CatalogueTypeOK, Bindable, [CatalogueNext]_catalogueVars PROVE CatalogueTypeOK'
    BY DEF CatalogueInv
<1>a. ASSUME NEW d \in Desks, DeskStarts(d) PROVE desksApart' \in BOOLEAN
    BY <1>a DEF DeskStarts, CatalogueTypeOK
<1>b. ASSUME SameDesks PROVE desksApart' \in BOOLEAN
    BY <1>b DEF SameDesks, CatalogueTypeOK
<1>1. ASSUME NEW d \in Desks, CreatePlan(d) PROVE CatalogueTypeOK'
    <2>1. PICK l, n \in TypedLabels, t \in Terms, a \in BOOLEAN :
              DeskHolds(d, "insert", 0, NewPlan(l, n, t, a), NoChange)
        BY <1>1 DEF CreatePlan
    <2>2. NewPlan(l, n, t, a) \in Plan BY TypedType, NewPlanType DEF TypedLabels
    <2>3. deskCall' \in [Desks -> DeskCall] BY <2>1, <2>2, HoldsType, NoChangeType, SmallNumbers
    <2> QED BY <1>1, <1>a, <2>3 DEF CreatePlan, CatalogueTypeOK
<1>2. ASSUME NEW d \in Desks, DuplicatePlan(d) PROVE CatalogueTypeOK'
    <2>1. PICK i \in Stored, o \in 0 .. MaxCopies - 1 :
              /\ {Copy(plans[i].code, o), Copy(plans[i].name, o)} \subseteq Label
              /\ DeskHolds(d, "insert", 0,
                    [plans[i] EXCEPT !.code = Copy(@, o), !.name = Copy(@, o), !.version = 1], NoChange)
        BY <1>2 DEF DuplicatePlan
    <2>2. [plans[i] EXCEPT !.code = Copy(@, o), !.name = Copy(@, o), !.version = 1] \in Plan
        BY <2>1, StoredType, CopyType
    <2>3. deskCall' \in [Desks -> DeskCall] BY <2>1, <2>2, HoldsType, NoChangeType, SmallNumbers
    <2> QED BY <1>2, <1>a, <2>3 DEF DuplicatePlan, CatalogueTypeOK
<1>3. ASSUME NEW d \in Desks, InsertPlan(d) PROVE CatalogueTypeOK'
    <2>1. plans' \in Seq(Plan \cup {Deleted}) /\ Len(plans') <= MaxPlans
        BY <1>3, CallType, AppendType DEF InsertPlan
    <2> QED BY <1>3, <1>b, <2>1, DoneType DEF InsertPlan, CatalogueTypeOK
<1>4. ASSUME NEW d \in Desks, UpdatePlan(d) PROVE CatalogueTypeOK'
    <2>1. PICK i \in Stored, ch \in Change, pc \in {"count", "unique"} :
              DeskHolds(d, pc, i, plans[i], ch)
        BY <1>4 DEF UpdatePlan
    <2>2. deskCall' \in [Desks -> DeskCall] BY <2>1, StoredType, HoldsType
    <2> QED BY <1>4, <1>a, <2>2 DEF UpdatePlan, CatalogueTypeOK
<1>5. ASSUME NEW d \in Desks, AssertUnique(d) PROVE CatalogueTypeOK'
    <2>1. DeskDone(d) \/ DeskGoto(d, "count") BY <1>5 DEF AssertUnique
    <2>2. deskCall' \in [Desks -> DeskCall] BY <2>1, DoneType, GotoType
    <2> QED BY <1>5, <1>b, <2>2 DEF AssertUnique, CatalogueTypeOK
<1>6. ASSUME NEW d \in Desks, CountUses(d) PROVE CatalogueTypeOK'
    <2> DEFINE c == deskCall[d]
               next == [Changed(c.row, c.change) EXCEPT !.version = @ + 1]
    <2>1. c.plan \in 0 .. MaxPlans /\ c.row \in Plan /\ c.change \in Change BY CallType
    <2>2. deskCall' \in [Desks -> DeskCall]
        <3>1. CASE c.row.version < MaxVersion /\ DeskHolds(d, "version", c.plan, next, NoChange)
            <4>1. Changed(c.row, c.change) \in Plan /\ Changed(c.row, c.change).version = c.row.version
                BY <2>1, ChangedType
            <4>2. c.row.version \in 1 .. MaxVersion BY <2>1 DEF Plan
            <4>3. c.row.version + 1 \in 1 .. MaxVersion BY <3>1, <4>2, SmallNumbers
            <4>4. next \in Plan BY <4>1, <4>3 DEF Plan
            <4> QED BY <2>1, <3>1, <4>4, HoldsType, NoChangeType
        <3>2. CASE DeskHolds(d, "write", c.plan, BlankPlan, c.change)
            BY <2>1, <3>2, HoldsType, BlankPlanType
        <3> QED BY <1>6, <3>1, <3>2 DEF CountUses
    <2> QED BY <1>6, <1>b, <2>2 DEF CountUses, CatalogueTypeOK
<1>7. ASSUME NEW d \in Desks, WritePlan(d) PROVE CatalogueTypeOK'
    <2> DEFINE c == deskCall[d]
    <2>1. plans' \in Seq(Plan \cup {Deleted}) /\ Len(plans') <= MaxPlans
        <3>1. CASE c.plan \in Stored
            <4>1. Changed(plans[c.plan], c.change) \in Plan BY <3>1, StoredType, CallType, ChangedType
            <4>2. c.plan \in DOMAIN plans BY <3>1 DEF Stored
            <4>3. plans' = [plans EXCEPT ![c.plan] = Changed(plans[c.plan], c.change)]
                BY <1>7, <3>1 DEF WritePlan
            <4> QED BY <4>1, <4>2, <4>3, ReplaceType
        <3>2. CASE c.plan \notin Stored
            BY <1>7, <3>2 DEF WritePlan, CatalogueTypeOK
        <3> QED BY <3>1, <3>2
    <2> QED BY <1>7, <1>b, <2>1, DoneType DEF WritePlan, CatalogueTypeOK
<1>8. ASSUME NEW d \in Desks, InsertVersion(d) PROVE CatalogueTypeOK'
    <2>1. plans' \in Seq(Plan \cup {Deleted}) /\ Len(plans') <= MaxPlans
        BY <1>8, CallType, AppendType DEF InsertVersion
    <2>2. deskCall' \in [Desks -> DeskCall]
        BY <1>8, CallType, HoldsType, BlankPlanType, NoChangeType DEF InsertVersion
    <2> QED BY <1>8, <1>b, <2>1, <2>2 DEF InsertVersion, CatalogueTypeOK
<1>9. ASSUME NEW d \in Desks, RetirePlan(d) PROVE CatalogueTypeOK'
    <2> DEFINE i == deskCall[d].plan
    <2>1. plans' \in Seq(Plan \cup {Deleted}) /\ Len(plans') <= MaxPlans
        <3>1. CASE i \in Stored
            <4>1. [plans[i] EXCEPT !.active = FALSE] \in Plan BY <3>1, StoredType DEF Plan
            <4>2. i \in DOMAIN plans BY <3>1 DEF Stored
            <4>3. plans' = [plans EXCEPT ![i] = [plans[i] EXCEPT !.active = FALSE]]
                BY <1>9, <3>1 DEF RetirePlan
            <4> QED BY <4>1, <4>2, <4>3, ReplaceType
        <3>2. CASE i \notin Stored
            BY <1>9, <3>2 DEF RetirePlan, CatalogueTypeOK
        <3> QED BY <3>1, <3>2
    <2> QED BY <1>9, <1>b, <2>1, DoneType DEF RetirePlan, CatalogueTypeOK
<1>10. ASSUME NEW d \in Desks, DeletePlan(d) PROVE CatalogueTypeOK'
    <2>1. PICK i \in DOMAIN plans : DeskHolds(d, "delete", i, BlankPlan, NoChange)
        BY <1>10 DEF DeletePlan
    <2>2. i \in 0 .. MaxPlans
        <3>1. i \in 1 .. Len(plans) /\ Len(plans) \in Nat /\ Len(plans) <= MaxPlans BY DEF CatalogueTypeOK
        <3> QED BY <3>1, SmallNumbers
    <2>3. deskCall' \in [Desks -> DeskCall] BY <2>1, <2>2, HoldsType, BlankPlanType, NoChangeType
    <2> QED BY <1>10, <1>a, <2>3 DEF DeletePlan, CatalogueTypeOK
<1>11. ASSUME NEW d \in Desks, RemovePlan(d) PROVE CatalogueTypeOK'
    <2> DEFINE i == deskCall[d].plan
    <2>1. plans' = [plans EXCEPT ![i] = Deleted] BY <1>11 DEF RemovePlan
    <2>2. plans' \in Seq(Plan \cup {Deleted}) /\ Len(plans') <= MaxPlans
        <3>1. CASE i \in DOMAIN plans BY <2>1, <3>1, ReplaceType
        <3>2. CASE i \notin DOMAIN plans
            <4>1. plans' = plans BY <2>1, <3>2 DEF CatalogueTypeOK
            <4> QED BY <4>1 DEF CatalogueTypeOK
        <3> QED BY <3>1, <3>2
    <2> QED BY <1>11, <1>b, <2>2, DoneType DEF RemovePlan, CatalogueTypeOK
<1>12. ASSUME NEW d \in Desks, SeedPlans(d) PROVE CatalogueTypeOK'
    <2>1. deskCall[d] \in DeskCall BY DEF CatalogueTypeOK
    <2>2. \A S \in SUBSET SeedCodes : [deskCall[d] EXCEPT !.pc = "seed", !.seeds = S] \in DeskCall
        BY <2>1 DEF DeskCall
    <2>3. \A S \in SUBSET SeedCodes :
              [deskCall EXCEPT ![d] = [deskCall[d] EXCEPT !.pc = "seed", !.seeds = S]] \in [Desks -> DeskCall]
        BY <2>2 DEF CatalogueTypeOK
    <2>4. PICK S \in SUBSET SeedCodes :
              deskCall' = deskCall \/ deskCall' = [deskCall EXCEPT ![d].pc = "seed", ![d].seeds = S]
        BY <1>12 DEF SeedPlans
    <2>5. deskCall' \in [Desks -> DeskCall] BY <2>3, <2>4 DEF CatalogueTypeOK
    <2> QED BY <1>12, <1>a, <2>5 DEF SeedPlans, CatalogueTypeOK
<1>13. ASSUME NEW d \in Desks, SaveSeeds(d) PROVE CatalogueTypeOK'
    BY <1>13, <1>b, SeedsType, DoneType DEF SaveSeeds, CatalogueTypeOK
<1>14. ASSUME NEW d \in Desks, ReadPurchased(d) \/ ReadFree(d) PROVE CatalogueTypeOK'
    <2>1. PICK i \in Stored : DeskHolds(d, "bind", i, plans[i], NoChange)
        BY <1>14 DEF ReadPurchased, ReadFree
    <2>2. deskCall' \in [Desks -> DeskCall] BY <2>1, StoredType, HoldsType, NoChangeType
    <2> QED BY <1>14, <1>a, <2>2 DEF ReadPurchased, ReadFree, CatalogueTypeOK
<1>15. ASSUME NEW d \in Desks, Bind(d) PROVE CatalogueTypeOK'
    <2>0. deskCall[d].plan \in 1 .. MaxPlans BY <1>15, CallType, SmallNumbers DEF Bind, Bindable
    <2>1. [plan |-> deskCall[d].plan, live |-> TRUE, bought |-> deskCall[d].row.terms] \in Use
        BY <2>0, CallType DEF Use, Plan
    <2>2. uses' \in [1 .. MaxUses -> Use \cup {NoUse}] BY <1>15, <2>1 DEF Bind, CatalogueTypeOK
    <2> QED BY <1>15, <1>b, <2>2, DoneType DEF Bind, CatalogueTypeOK
<1>16. CASE UseEnds
    <2>1. PICK u \in DOMAIN uses : uses[u] # NoUse /\ uses' = [uses EXCEPT ![u].live = FALSE]
        BY <1>16 DEF UseEnds
    <2>2. [uses[u] EXCEPT !.live = FALSE] \in Use BY <2>1 DEF CatalogueTypeOK, Use
    <2>3. uses' \in [1 .. MaxUses -> Use \cup {NoUse}] BY <2>1, <2>2 DEF CatalogueTypeOK
    <2> QED BY <1>16, <2>3 DEF UseEnds, CatalogueTypeOK
<1>17. CASE WriteUse
    <2>1. PICK u \in DOMAIN uses, i \in DOMAIN plans, b \in BOOLEAN :
              uses' = [uses EXCEPT ![u] = [plan |-> i, live |-> b, bought |-> NoTerms]]
        BY <1>17 DEF WriteUse
    <2>2. i \in 1 .. MaxPlans
        <3>1. i \in 1 .. Len(plans) /\ Len(plans) \in Nat /\ Len(plans) <= MaxPlans BY DEF CatalogueTypeOK
        <3> QED BY <3>1, SmallNumbers
    <2>3. [plan |-> i, live |-> b, bought |-> NoTerms] \in Use BY <2>2 DEF Use
    <2>4. uses' \in [1 .. MaxUses -> Use \cup {NoUse}] BY <2>1, <2>3 DEF CatalogueTypeOK
    <2> QED BY <1>17, <2>4 DEF WriteUse, CatalogueTypeOK
<1>18. CASE DeleteUse
    BY <1>18 DEF DeleteUse, CatalogueTypeOK
<1>19. ASSUME NEW d \in Desks, DeskDies(d) PROVE CatalogueTypeOK'
    BY <1>19, <1>b, DoneType DEF DeskDies, CatalogueTypeOK
<1>20. CASE UNCHANGED catalogueVars
    BY <1>20 DEF catalogueVars, CatalogueTypeOK
<1> QED BY <1>1, <1>2, <1>3, <1>4, <1>5, <1>6, <1>7, <1>8, <1>9, <1>10, <1>11, <1>12, <1>13, <1>14,
           <1>15, <1>16, <1>17, <1>18, <1>19, <1>20 DEF CatalogueNext

-----------------------------------------------------------------------------
(* Calls *)

\* While no two calls overlap, the one that runs is alone.
DeskAlone(d) == \A e \in Desks : e # d => deskCall[e] = NoDeskCall

LEMMA InFlight ==
    ASSUME NEW d \in Desks, NEW pc, DeskAt(d, pc), pc # "idle"
    PROVE  deskCall[d] # NoDeskCall
BY DEF DeskAt, NoDeskCall

LEMMA OnlyOne ==
    ASSUME Careful, NEW d \in Desks, deskCall[d] # NoDeskCall
    PROVE  DeskAlone(d)
BY DEF Careful, OneDeskCall, DeskAlone

LEMMA FirstOne ==
    ASSUME NEW d \in Desks, DeskStarts(d), desksApart', CatalogueTypeOK
    PROVE  desksApart /\ DeskAlone(d)
BY DEF DeskStarts, DeskAlone, CatalogueTypeOK

\* The step of the only call: what it leaves is what counts.
LEMMA OneStep ==
    ASSUME CatalogueTypeOK, NEW d \in Desks, DeskAlone(d),
           NEW c, deskCall' = [deskCall EXCEPT ![d] = c],
           UpToDate(d)', \A u \in DOMAIN uses' : Served(u)'
    PROVE  Careful'
<1>1. \A e \in Desks : e # d => deskCall'[e] = NoDeskCall BY DEF DeskAlone, CatalogueTypeOK
<1>2. OneDeskCall' BY <1>1 DEF OneDeskCall
<1>3. ASSUME NEW e \in Desks PROVE UpToDate(e)'
    <2>1. CASE e = d BY <2>1
    <2>2. CASE e # d
        <3>1. deskCall'[e].pc = "idle" BY <1>1, <2>2 DEF NoDeskCall
        <3> QED BY <3>1 DEF UpToDate
    <2> QED BY <2>1, <2>2
<1> QED BY <1>2, <1>3 DEF Careful

LEMMA HoldsIs ==
    ASSUME CatalogueTypeOK, NEW d \in Desks, NEW pc, NEW i, NEW row, NEW ch,
           DeskHolds(d, pc, i, row, ch)
    PROVE  /\ deskCall' = [deskCall EXCEPT ![d] = deskCall'[d]]
           /\ deskCall'[d].pc = pc /\ deskCall'[d].plan = i
           /\ deskCall'[d].row = row /\ deskCall'[d].change = ch
BY DEF DeskHolds, CatalogueTypeOK

LEMMA DoneIs ==
    ASSUME CatalogueTypeOK, NEW d \in Desks, DeskDone(d)
    PROVE  deskCall' = [deskCall EXCEPT ![d] = deskCall'[d]] /\ deskCall'[d].pc = "idle"
BY DEF DeskDone, NoDeskCall, CatalogueTypeOK

\* A call that is over, or at a statement of its own row, relies on nothing.
LEMMA NothingToKeep ==
    ASSUME NEW d \in Desks,
           deskCall'[d].pc \notin {"unique", "count", "write", "delete", "bind"}
    PROVE  UpToDate(d)'
BY DEF UpToDate

\* Groups are served as before when the plans they use keep their terms.
LEMMA StillServed ==
    ASSUME Careful, uses' = uses,
           \A u \in DOMAIN uses : uses[u] # NoUse /\ uses[u].live /\ uses[u].plan \in Stored =>
               /\ uses[u].plan \in Stored'
               /\ plans'[uses[u].plan].terms = plans[uses[u].plan].terms
    PROVE  \A u \in DOMAIN uses' : Served(u)'
<1> SUFFICES ASSUME NEW u \in DOMAIN uses, uses[u] # NoUse, uses[u].live, uses[u].bought # NoTerms
             PROVE  uses[u].plan \in Stored' /\ plans'[uses[u].plan].terms = uses[u].bought
    BY DEF Served
<1>1. uses[u].plan \in Stored /\ plans[uses[u].plan].terms = uses[u].bought BY DEF Careful, Served
<1> QED BY <1>1

LEMMA SamePlans ==
    ASSUME Careful, uses' = uses, plans' = plans
    PROVE  \A u \in DOMAIN uses' : Served(u)'
BY StillServed DEF Stored

LEMMA MorePlans ==
    ASSUME Careful, uses' = uses, \A i \in DOMAIN plans : i \in DOMAIN plans' /\ plans'[i] = plans[i]
    PROVE  \A u \in DOMAIN uses' : Served(u)'
BY StillServed DEF Stored

LEMMA AppendKeeps ==
    ASSUME CatalogueTypeOK, NEW p \in Plan, plans' = Append(plans, p)
    PROVE  \A i \in DOMAIN plans : i \in DOMAIN plans' /\ plans'[i] = plans[i]
<1>1. plans \in Seq(Plan \cup {Deleted}) /\ Len(plans) \in Nat BY DEF CatalogueTypeOK
<1> QED BY <1>1

-----------------------------------------------------------------------------
(* Each action is careful *)

\* The calls that start: nothing is written.
LEMMA StartIsCareful ==
    ASSUME CatalogueInv, desksApart', NEW d \in Desks, DeskStarts(d), plans' = plans, uses' = uses,
           NEW c, deskCall' = [deskCall EXCEPT ![d] = c], UpToDate(d)'
    PROVE  Careful'
<1>1. CatalogueTypeOK BY DEF CatalogueInv
<1>2. desksApart /\ DeskAlone(d) BY <1>1, FirstOne
<1>3. Careful BY <1>2 DEF CatalogueInv
<1> QED BY <1>1, <1>2, <1>3, SamePlans, OneStep

LEMMA DeskStartsFacts ==
    ASSUME CatalogueInv, desksApart', NEW d \in Desks,
           CreatePlan(d) \/ DuplicatePlan(d) \/ UpdatePlan(d) \/ DeletePlan(d) \/ SeedPlans(d)
               \/ ReadPurchased(d) \/ ReadFree(d)
    PROVE  Careful'
<1>t. CatalogueTypeOK BY DEF CatalogueInv
<1>1. ASSUME CreatePlan(d) \/ DuplicatePlan(d) PROVE Careful'
    <2>1. PICK row : DeskHolds(d, "insert", 0, row, NoChange) BY <1>1 DEF CreatePlan, DuplicatePlan
    <2>2. UpToDate(d)' BY <1>t, <2>1, HoldsIs, NothingToKeep
    <2>3. deskCall' = [deskCall EXCEPT ![d] = deskCall'[d]] BY <1>t, <2>1, HoldsIs
    <2> QED BY <1>1, <2>2, <2>3, StartIsCareful DEF CreatePlan, DuplicatePlan
<1>2. ASSUME UpdatePlan(d) PROVE Careful'
    <2>1. PICK i \in Stored, ch \in Change, pc \in {"count", "unique"} :
              DeskHolds(d, pc, i, plans[i], ch)
        BY <1>2 DEF UpdatePlan
    <2>2. /\ deskCall' = [deskCall EXCEPT ![d] = deskCall'[d]]
          /\ deskCall'[d].pc = pc /\ deskCall'[d].plan = i /\ deskCall'[d].row = plans[i]
        BY <1>t, <2>1, HoldsIs
    <2>3. UpToDate(d)' BY <1>2, <2>2 DEF UpdatePlan, UpToDate, Stored
    <2> QED BY <1>2, <2>2, <2>3, StartIsCareful DEF UpdatePlan
<1>3. ASSUME DeletePlan(d) PROVE Careful'
    <2>1. PICK i \in DOMAIN plans :
              /\ \A u \in UsesOf(i) : ~uses[u].live
              /\ DeskHolds(d, "delete", i, BlankPlan, NoChange)
        BY <1>3 DEF DeletePlan
    <2>2. /\ deskCall' = [deskCall EXCEPT ![d] = deskCall'[d]]
          /\ deskCall'[d].pc = "delete" /\ deskCall'[d].plan = i
        BY <1>t, <2>1, HoldsIs
    <2>3. UpToDate(d)' BY <1>3, <2>1, <2>2 DEF DeletePlan, UpToDate, UsesOf
    <2> QED BY <1>3, <2>2, <2>3, StartIsCareful DEF DeletePlan
<1>4. ASSUME SeedPlans(d) PROVE Careful'
    <2>1. deskCall[d].pc = "idle" BY <1>4 DEF SeedPlans, DeskStarts, NoDeskCall
    <2>2. \/ deskCall' = deskCall
          \/ \E S : deskCall' = [deskCall EXCEPT ![d].pc = "seed", ![d].seeds = S]
        BY <1>4 DEF SeedPlans
    <2>3. deskCall' = [deskCall EXCEPT ![d] = deskCall'[d]] BY <1>t, <2>2 DEF CatalogueTypeOK
    <2>4. deskCall'[d].pc \in {"idle", "seed"} BY <1>t, <2>1, <2>2 DEF CatalogueTypeOK, DeskCall
    <2>5. UpToDate(d)' BY <2>4, NothingToKeep
    <2> QED BY <1>4, <2>3, <2>5, StartIsCareful DEF SeedPlans
<1>5. ASSUME ReadPurchased(d) \/ ReadFree(d) PROVE Careful'
    <2>1. PICK i \in Stored : DeskHolds(d, "bind", i, plans[i], NoChange)
        BY <1>5 DEF ReadPurchased, ReadFree
    <2>2. /\ deskCall' = [deskCall EXCEPT ![d] = deskCall'[d]]
          /\ deskCall'[d].pc = "bind" /\ deskCall'[d].plan = i /\ deskCall'[d].row = plans[i]
        BY <1>t, <2>1, HoldsIs
    <2>3. UpToDate(d)' BY <1>5, <2>2 DEF ReadPurchased, ReadFree, UpToDate, Stored
    <2> QED BY <1>5, <2>2, <2>3, StartIsCareful DEF ReadPurchased, ReadFree
<1> QED BY <1>1, <1>2, <1>3, <1>4, <1>5

\* The next statement of a call that is in flight.
LEMMA Continues ==
    ASSUME CatalogueTypeOK, Careful, NEW d \in Desks, deskCall[d] # NoDeskCall,
           NEW c, deskCall' = [deskCall EXCEPT ![d] = c], UpToDate(d)',
           \A u \in DOMAIN uses' : Served(u)'
    PROVE  Careful'
BY OnlyOne, OneStep

LEMMA Ends ==
    ASSUME CatalogueTypeOK, Careful, NEW d \in Desks, deskCall[d] # NoDeskCall, DeskDone(d),
           \A u \in DOMAIN uses' : Served(u)'
    PROVE  Careful'
BY DoneIs, NothingToKeep, Continues

LEMMA Inserts ==
    ASSUME CatalogueTypeOK, Careful, NEW d \in Desks, InsertPlan(d) \/ SaveSeeds(d)
    PROVE  Careful'
<1>1. deskCall[d] # NoDeskCall BY InFlight DEF InsertPlan, SaveSeeds
<1>2. \A i \in DOMAIN plans : i \in DOMAIN plans' /\ plans'[i] = plans[i]
    BY CallType, AppendKeeps, SeedsType DEF InsertPlan
<1>3. \A u \in DOMAIN uses' : Served(u)' BY <1>2, MorePlans DEF InsertPlan, SaveSeeds
<1> QED BY <1>1, <1>3, Ends DEF InsertPlan, SaveSeeds

LEMMA Checks ==
    ASSUME CatalogueTypeOK, Careful, NEW d \in Desks, AssertUnique(d)
    PROVE  Careful'
<1>1. deskCall[d] # NoDeskCall BY InFlight DEF AssertUnique
<1>2. \A u \in DOMAIN uses' : Served(u)' BY SamePlans DEF AssertUnique
<1>3. CASE DeskDone(d) BY <1>1, <1>2, <1>3, Ends
<1>4. CASE DeskGoto(d, "count")
    <2>1. deskCall' = [deskCall EXCEPT ![d] = deskCall'[d]] BY <1>4 DEF DeskGoto, CatalogueTypeOK
    <2>2. deskCall'[d].pc = "count" /\ deskCall'[d].plan = deskCall[d].plan /\ deskCall'[d].row = deskCall[d].row
        BY <1>4 DEF DeskGoto, CatalogueTypeOK, DeskCall
    <2>3. deskCall[d].plan \in Stored /\ plans[deskCall[d].plan] = deskCall[d].row
        BY DEF AssertUnique, DeskAt, Careful, UpToDate
    <2>4. UpToDate(d)' BY <2>2, <2>3 DEF AssertUnique, UpToDate, Stored
    <2> QED BY <1>1, <1>2, <2>1, <2>4, Continues
<1> QED BY <1>3, <1>4 DEF AssertUnique

\* A plan that is used is edited only when its terms stay.
LEMMA Counts ==
    ASSUME CatalogueTypeOK, Careful, NEW d \in Desks, CountUses(d)
    PROVE  Careful'
<1> DEFINE c == deskCall[d]
<1>1. deskCall[d] # NoDeskCall BY InFlight DEF CountUses
<1>2. \A u \in DOMAIN uses' : Served(u)' BY SamePlans DEF CountUses
<1>3. c.plan \in Stored /\ plans[c.plan] = c.row
    BY DEF CountUses, DeskAt, Careful, UpToDate
<1>4. ASSUME NEW row, DeskHolds(d, "version", c.plan, row, NoChange) PROVE Careful'
    BY <1>1, <1>2, <1>4, HoldsIs, NothingToKeep, Continues
<1>5. ASSUME UsesOf(c.plan) = {} \/ Or(c.change.terms, c.row.terms) = c.row.terms,
             DeskHolds(d, "write", c.plan, BlankPlan, c.change)
      PROVE  Careful'
    <2>1. /\ deskCall' = [deskCall EXCEPT ![d] = deskCall'[d]]
          /\ deskCall'[d].pc = "write" /\ deskCall'[d].plan = c.plan /\ deskCall'[d].change = c.change
        BY <1>5, HoldsIs
    <2>2. UpToDate(d)' BY <1>3, <1>5, <2>1 DEF CountUses, UpToDate, UsesOf, Or
    <2> QED BY <1>1, <1>2, <2>1, <2>2, Continues
<1> QED BY <1>4, <1>5 DEF CountUses, Used

LEMMA Writes ==
    ASSUME CatalogueTypeOK, Careful, NEW d \in Desks, WritePlan(d)
    PROVE  Careful'
<1> DEFINE c == deskCall[d]
<1>1. deskCall[d] # NoDeskCall BY InFlight DEF WritePlan
<1>2. \A u \in DOMAIN uses' : Served(u)'
    <2>1. CASE c.plan \notin Stored BY <2>1, SamePlans DEF WritePlan
    <2>2. CASE c.plan \in Stored
        <3>1. plans' = [plans EXCEPT ![c.plan] = Changed(plans[c.plan], c.change)]
            BY <2>2 DEF WritePlan
        <3>2. /\ plans[c.plan] \in Plan /\ Changed(plans[c.plan], c.change) \in Plan
              /\ Changed(plans[c.plan], c.change).terms = Or(c.change.terms, plans[c.plan].terms)
            BY <2>2, StoredType, CallType, ChangedType
        <3>3. Changed(plans[c.plan], c.change) # Deleted BY <3>2, NotDeleted
        <3>4. UsesOf(c.plan) = {} \/ Or(c.change.terms, plans[c.plan].terms) = plans[c.plan].terms
            BY <2>2 DEF WritePlan, DeskAt, Careful, UpToDate
        <3>5. ASSUME NEW u \in DOMAIN uses, uses[u] # NoUse, uses[u].plan \in Stored
              PROVE  /\ uses[u].plan \in Stored'
                     /\ plans'[uses[u].plan].terms = plans[uses[u].plan].terms
            <4>1. CASE uses[u].plan # c.plan BY <3>1, <3>5, <4>1 DEF Stored
            <4>2. CASE uses[u].plan = c.plan
                <5>1. u \in UsesOf(c.plan) BY <3>5, <4>2 DEF UsesOf
                <5>2. plans'[c.plan] = Changed(plans[c.plan], c.change) BY <2>2, <3>1 DEF Stored
                <5>3. c.plan \in Stored' BY <2>2, <3>1, <3>3 DEF Stored
                <5> QED BY <3>2, <3>4, <4>2, <5>1, <5>2, <5>3
            <4> QED BY <4>1, <4>2
        <3> QED BY <3>5, StillServed DEF WritePlan
    <2> QED BY <2>1, <2>2
<1> QED BY <1>1, <1>2, Ends DEF WritePlan

LEMMA Versions ==
    ASSUME CatalogueTypeOK, Careful, NEW d \in Desks, InsertVersion(d)
    PROVE  Careful'
<1>1. deskCall[d] # NoDeskCall BY InFlight DEF InsertVersion
<1>2. \A i \in DOMAIN plans : i \in DOMAIN plans' /\ plans'[i] = plans[i]
    BY CallType, AppendKeeps DEF InsertVersion
<1>3. \A u \in DOMAIN uses' : Served(u)' BY <1>2, MorePlans DEF InsertVersion
<1>4. DeskHolds(d, "retire", deskCall[d].plan, BlankPlan, NoChange) BY DEF InsertVersion
<1> QED BY <1>1, <1>3, <1>4, HoldsIs, NothingToKeep, Continues

LEMMA Retires ==
    ASSUME CatalogueTypeOK, Careful, NEW d \in Desks, RetirePlan(d)
    PROVE  Careful'
<1> DEFINE i == deskCall[d].plan
<1>1. deskCall[d] # NoDeskCall BY InFlight DEF RetirePlan
<1>2. \A u \in DOMAIN uses' : Served(u)'
    <2>1. CASE i \notin Stored BY <2>1, SamePlans DEF RetirePlan
    <2>2. CASE i \in Stored
        <3>1. plans' = [plans EXCEPT ![i] = [plans[i] EXCEPT !.active = FALSE]]
            BY <2>2 DEF RetirePlan
        <3>2. plans[i] \in Plan BY <2>2, StoredType
        <3>3. [plans[i] EXCEPT !.active = FALSE] \in Plan BY <3>2 DEF Plan
        <3>4. [plans[i] EXCEPT !.active = FALSE].terms = plans[i].terms BY <3>2 DEF Plan
        <3>5. [plans[i] EXCEPT !.active = FALSE] # Deleted BY <3>3, NotDeleted
        <3>6. \A j \in Stored : j \in Stored' /\ plans'[j].terms = plans[j].terms
            BY <2>2, <3>1, <3>4, <3>5 DEF Stored
        <3> QED BY <3>6, StillServed DEF RetirePlan
    <2> QED BY <2>1, <2>2
<1> QED BY <1>1, <1>2, Ends DEF RetirePlan

\* Nobody uses the plan that goes.
LEMMA Removes ==
    ASSUME CatalogueTypeOK, Careful, NEW d \in Desks, RemovePlan(d)
    PROVE  Careful'
<1> DEFINE i == deskCall[d].plan
<1>1. deskCall[d] # NoDeskCall BY InFlight DEF RemovePlan
<1>2. \A u \in UsesOf(i) : ~uses[u].live BY DEF RemovePlan, DeskAt, Careful, UpToDate
<1>3. plans' = [plans EXCEPT ![i] = Deleted] BY DEF RemovePlan
<1>4. \A j \in Stored : j # i => j \in Stored' /\ plans'[j].terms = plans[j].terms
    BY <1>3 DEF Stored
<1>5. \A u \in DOMAIN uses' : Served(u)'
    BY <1>2, <1>4, StillServed DEF RemovePlan, UsesOf
<1> QED BY <1>1, <1>5, Ends DEF RemovePlan

\* What a group is given is the plan it was shown.
LEMMA Binds ==
    ASSUME CatalogueTypeOK, Careful, NEW d \in Desks, Bind(d)
    PROVE  Careful'
<1> DEFINE c == deskCall[d]
<1>1. deskCall[d] # NoDeskCall BY InFlight DEF Bind
<1>2. c.plan \in Stored /\ plans[c.plan].terms = c.row.terms
    BY DEF Bind, DeskAt, Careful, UpToDate
<1>3. PICK u \in DOMAIN uses :
          uses' = [uses EXCEPT ![u] = [plan |-> c.plan, live |-> TRUE, bought |-> c.row.terms]]
    BY DEF Bind
<1>4. plans' = plans BY DEF Bind
<1>5. ASSUME NEW v \in DOMAIN uses' PROVE Served(v)'
    <2>1. v \in DOMAIN uses BY <1>3, <1>5
    <2>2. CASE v = u
        <3>1. uses'[u].plan = c.plan /\ uses'[u].bought = c.row.terms BY <1>3
        <3> QED BY <1>2, <1>4, <2>2, <3>1 DEF Served, Stored
    <2>3. CASE v # u
        <3>1. uses'[v] = uses[v] BY <1>3, <2>1, <2>3
        <3>2. Served(v) BY <2>1 DEF Careful
        <3> QED BY <1>4, <3>1, <3>2 DEF Served, Stored
    <2> QED BY <2>2, <2>3
<1> QED BY <1>1, <1>5, Ends DEF Bind

\* A use that ends concerns no one.
LEMMA UsesEnd ==
    ASSUME CatalogueTypeOK, Careful, UseEnds
    PROVE  Careful'
<1>1. PICK u \in DOMAIN uses : uses[u] # NoUse /\ uses' = [uses EXCEPT ![u].live = FALSE]
    BY DEF UseEnds
<1>2. uses[u] \in Use BY <1>1 DEF CatalogueTypeOK
<1>3. plans' = plans /\ deskCall' = deskCall BY DEF UseEnds
<1>4. DOMAIN uses' = DOMAIN uses BY <1>1
<1>5. uses'[u].live = FALSE /\ uses'[u].plan = uses[u].plan BY <1>1, <1>2 DEF Use
<1>6. \A v \in DOMAIN uses : v # u => uses'[v] = uses[v] BY <1>1
<1>7. \A i : {v \in DOMAIN uses' : uses'[v] # NoUse /\ uses'[v].plan = i} \subseteq UsesOf(i)
    BY <1>1, <1>4, <1>5, <1>6 DEF UsesOf
<1>8. \A v \in DOMAIN uses' : Served(v)'
    BY <1>3, <1>4, <1>5, <1>6 DEF Careful, Served, Stored
<1>9. \A v \in DOMAIN uses : ~uses[v].live => ~uses'[v].live BY <1>5, <1>6
<1>10. ASSUME NEW d \in Desks PROVE UpToDate(d)'
    <2> DEFINE i == deskCall[d].plan
               after == {v \in DOMAIN uses' : uses'[v] # NoUse /\ uses'[v].plan = i}
    <2>0. UpToDate(d) BY DEF Careful
    <2>a. after \subseteq UsesOf(i) BY <1>7
    <2>b. UsesOf(deskCall[d].plan)' = after BY <1>3 DEF UsesOf
    <2> HIDE DEF after
    <2>1. deskCall[d].pc = "delete" => \A v \in after : ~uses'[v].live
        <3>1. \A v \in UsesOf(i) : v \in DOMAIN uses BY DEF UsesOf
        <3> QED BY <1>9, <2>0, <2>a, <3>1 DEF UpToDate
    <2>2. UsesOf(i) = {} => after = {} BY <2>a
    <2>3. Stored' = Stored BY <1>3 DEF Stored
    <2> QED BY <1>3, <2>0, <2>b, <2>1, <2>2, <2>3 DEF UpToDate
<1>11. OneDeskCall' BY <1>3 DEF Careful, OneDeskCall
<1> QED BY <1>8, <1>10, <1>11 DEF Careful

\* An admin's statement on a use, between calls.
LEMMA AdminOnUses ==
    ASSUME CatalogueTypeOK, Careful, WriteUse \/ DeleteUse, desksApart'
    PROVE  Careful'
<1>1. deskCall' = deskCall /\ plans' = plans BY DEF WriteUse, DeleteUse
<1>2. \A d \in Desks : deskCall[d] = NoDeskCall BY DEF WriteUse, DeleteUse
<1>3. OneDeskCall' BY <1>1, <1>2 DEF OneDeskCall
<1>4. \A d \in Desks : UpToDate(d)' BY <1>1, <1>2 DEF UpToDate, NoDeskCall
<1>5. PICK u \in DOMAIN uses,
           written \in {NoUse} \cup [plan : DOMAIN plans, live : BOOLEAN, bought : {NoTerms}] :
          uses' = [uses EXCEPT ![u] = written] /\ (written = NoUse \/ written.bought = NoTerms)
    <2>1. CASE WriteUse
        <3>1. PICK u \in DOMAIN uses, i \in DOMAIN plans, b \in BOOLEAN :
                  uses' = [uses EXCEPT ![u] = [plan |-> i, live |-> b, bought |-> NoTerms]]
            BY <2>1 DEF WriteUse
        <3>2. [plan |-> i, live |-> b, bought |-> NoTerms].bought = NoTerms OBVIOUS
        <3> QED BY <3>1, <3>2
    <2>2. CASE DeleteUse BY <2>2 DEF DeleteUse
    <2> QED BY <2>1, <2>2
<1>6. ASSUME NEW v \in DOMAIN uses' PROVE Served(v)'
    <2>1. v \in DOMAIN uses BY <1>5, <1>6
    <2>2. CASE v = u
        <3>1. uses'[u] = written BY <1>5
        <3> QED BY <1>5, <2>2, <3>1 DEF Served
    <2>3. CASE v # u
        <3>1. uses'[v] = uses[v] BY <1>5, <2>1, <2>3
        <3>2. Served(v) BY <2>1 DEF Careful
        <3> QED BY <1>1, <3>1, <3>2 DEF Served, Stored
    <2> QED BY <2>2, <2>3
<1> QED BY <1>3, <1>4, <1>6 DEF Careful

-----------------------------------------------------------------------------
(* The invariant *)

LEMMA CatalogueKeepsCareful == CatalogueInv /\ [CatalogueNext]_catalogueVars => (desksApart' => Careful')
<1> SUFFICES ASSUME CatalogueInv, [CatalogueNext]_catalogueVars, desksApart' PROVE Careful'
    OBVIOUS
<1>t. CatalogueTypeOK BY DEF CatalogueInv
<1>1. ASSUME NEW d \in Desks,
             CreatePlan(d) \/ DuplicatePlan(d) \/ UpdatePlan(d) \/ DeletePlan(d) \/ SeedPlans(d)
                 \/ ReadPurchased(d) \/ ReadFree(d)
      PROVE  Careful'
    BY <1>1, DeskStartsFacts
<1>2. ASSUME NEW d \in Desks,
             InsertPlan(d) \/ AssertUnique(d) \/ CountUses(d) \/ WritePlan(d) \/ InsertVersion(d)
                 \/ RetirePlan(d) \/ RemovePlan(d) \/ SaveSeeds(d) \/ Bind(d) \/ DeskDies(d)
      PROVE  Careful'
    <2>1. SameDesks
        BY <1>2 DEF InsertPlan, AssertUnique, CountUses, WritePlan, InsertVersion, RetirePlan,
                    RemovePlan, SaveSeeds, Bind, DeskDies
    <2>2. Careful BY <2>1 DEF SameDesks, CatalogueInv
    <2>3. ASSUME DeskDies(d) PROVE Careful'
        BY <1>t, <2>2, <2>3, SamePlans, Ends DEF DeskDies
    <2> QED BY <1>t, <1>2, <2>2, <2>3, Inserts, Checks, Counts, Writes, Versions, Retires, Removes, Binds
<1>3. CASE UseEnds
    <2>1. Careful BY <1>3 DEF UseEnds, CatalogueInv
    <2> QED BY <1>t, <1>3, <2>1, UsesEnd
<1>4. CASE WriteUse \/ DeleteUse
    <2>1. desksApart BY <1>t, <1>4 DEF WriteUse, DeleteUse, CatalogueTypeOK
    <2>2. Careful BY <2>1 DEF CatalogueInv
    <2> QED BY <1>t, <1>4, <2>2, AdminOnUses
<1>5. CASE UNCHANGED catalogueVars
    BY <1>5 DEF catalogueVars, CatalogueInv, Careful, OneDeskCall, UpToDate, Served, Stored, UsesOf
<1> QED BY <1>1, <1>2, <1>3, <1>4, <1>5 DEF CatalogueNext

\* Only the reading of a stored plan leads to its binding.
LEMMA CatalogueKeepsBindable == CatalogueInv /\ [CatalogueNext]_catalogueVars => Bindable'
<1> SUFFICES ASSUME CatalogueTypeOK, Bindable, [CatalogueNext]_catalogueVars PROVE Bindable'
    BY DEF CatalogueInv
<1>1. ASSUME NEW d \in Desks, NEW c, deskCall' = [deskCall EXCEPT ![d] = c],
             c.pc # "bind" \/ c.plan # 0
      PROVE  Bindable'
    BY <1>1 DEF Bindable, DeskAt, CatalogueTypeOK
<1>2. ASSUME NEW d \in Desks, NEW pc, NEW i, NEW row, NEW ch, DeskHolds(d, pc, i, row, ch),
             pc # "bind" \/ i # 0
      PROVE  Bindable'
    BY <1>1, <1>2 DEF DeskHolds
<1>3. ASSUME NEW d \in Desks, DeskDone(d) PROVE Bindable'
    BY <1>1, <1>3 DEF DeskDone, NoDeskCall
<1>4. ASSUME NEW d \in Desks, NEW pc, DeskGoto(d, pc), pc # "bind" PROVE Bindable'
    BY <1>4 DEF DeskGoto, Bindable, DeskAt, CatalogueTypeOK, DeskCall
<1>5. ASSUME deskCall' = deskCall PROVE Bindable'
    BY <1>5 DEF Bindable, DeskAt
<1>6. ASSUME NEW d \in Desks, CreatePlan(d) \/ DuplicatePlan(d) PROVE Bindable'
    <2>1. PICK row : DeskHolds(d, "insert", 0, row, NoChange) BY <1>6 DEF CreatePlan, DuplicatePlan
    <2> QED BY <1>2, <2>1
<1>7. ASSUME NEW d \in Desks, UpdatePlan(d) PROVE Bindable'
    <2>1. PICK i \in Stored, ch \in Change, pc \in {"count", "unique"} :
              DeskHolds(d, pc, i, plans[i], ch)
        BY <1>7 DEF UpdatePlan
    <2> QED BY <1>2, <2>1
<1>8. ASSUME NEW d \in Desks, AssertUnique(d) PROVE Bindable'
    BY <1>3, <1>4, <1>8 DEF AssertUnique
<1>9. ASSUME NEW d \in Desks, CountUses(d) PROVE Bindable'
    <2>1. \/ \E row : DeskHolds(d, "version", deskCall[d].plan, row, NoChange)
          \/ DeskHolds(d, "write", deskCall[d].plan, BlankPlan, deskCall[d].change)
        BY <1>9 DEF CountUses
    <2> QED BY <1>2, <2>1
<1>10. ASSUME NEW d \in Desks, InsertVersion(d) PROVE Bindable'
    BY <1>2, <1>10 DEF InsertVersion
<1>11. ASSUME NEW d \in Desks, DeletePlan(d) PROVE Bindable'
    <2>1. PICK i \in DOMAIN plans : DeskHolds(d, "delete", i, BlankPlan, NoChange)
        BY <1>11 DEF DeletePlan
    <2> QED BY <1>2, <2>1
<1>12. ASSUME NEW d \in Desks, SeedPlans(d) PROVE Bindable'
    <2>1. \/ deskCall' = deskCall
          \/ \E S : deskCall' = [deskCall EXCEPT ![d].pc = "seed", ![d].seeds = S]
        BY <1>12 DEF SeedPlans
    <2> QED BY <2>1 DEF Bindable, DeskAt, CatalogueTypeOK, DeskCall
<1>13. ASSUME NEW d \in Desks, ReadPurchased(d) \/ ReadFree(d) PROVE Bindable'
    <2>1. PICK i \in Stored : DeskHolds(d, "bind", i, plans[i], NoChange)
        BY <1>13 DEF ReadPurchased, ReadFree
    <2>2. i # 0 BY StoredType
    <2> QED BY <1>2, <2>1, <2>2
<1>14. ASSUME NEW d \in Desks, InsertPlan(d) \/ WritePlan(d) \/ RetirePlan(d) \/ RemovePlan(d)
                   \/ SaveSeeds(d) \/ Bind(d) \/ DeskDies(d)
       PROVE  Bindable'
    BY <1>3, <1>14 DEF InsertPlan, WritePlan, RetirePlan, RemovePlan, SaveSeeds, Bind, DeskDies
<1>15. CASE UseEnds \/ WriteUse \/ DeleteUse
    BY <1>5, <1>15 DEF UseEnds, WriteUse, DeleteUse
<1>16. CASE UNCHANGED catalogueVars
    BY <1>5, <1>16 DEF catalogueVars
<1> QED BY <1>6, <1>7, <1>8, <1>9, <1>10, <1>11, <1>12, <1>13, <1>14, <1>15, <1>16 DEF CatalogueNext

LEMMA CatalogueStarts == CatalogueInit => CatalogueInv
<1> SUFFICES ASSUME CatalogueInit PROVE CatalogueInv
    OBVIOUS
<1>1. plans \in Seq(Plan \cup {Deleted}) /\ Len(plans) <= MaxPlans
    BY SmallNumbers DEF CatalogueInit
<1>2. CatalogueTypeOK BY <1>1, NoDeskCallType DEF CatalogueInit, CatalogueTypeOK
<1>3. \A d \in Desks : deskCall[d].pc = "idle" BY DEF CatalogueInit, NoDeskCall
<1>4. Bindable BY <1>3 DEF Bindable, DeskAt
<1>5. OneDeskCall BY DEF CatalogueInit, OneDeskCall
<1>6. \A d \in Desks : UpToDate(d) BY <1>3 DEF UpToDate
<1>7. \A u \in DOMAIN uses : Served(u) BY DEF CatalogueInit, Served
<1> QED BY <1>2, <1>4, <1>5, <1>6, <1>7 DEF CatalogueInv, Careful

\* What a group that has bought a plan relies on is kept by every step.
THEOREM CatalogueInductive == CatalogueSpec => []CatalogueInv
<1>1. CatalogueInv /\ [CatalogueNext]_catalogueVars => CatalogueInv'
    BY CatalogueKeepsTypes, CatalogueKeepsBindable, CatalogueKeepsCareful DEF CatalogueInv
<1> QED BY CatalogueStarts, <1>1, PTL DEF CatalogueSpec

\* The catalogue, the uses of its plans and the calls in flight keep their
\* types, whatever calls overlap.
THEOREM CatalogueTypes == CatalogueSpec => []CatalogueTypeOK
<1>1. CatalogueInv => CatalogueTypeOK BY DEF CatalogueInv
<1> QED BY CatalogueInductive, <1>1, PTL

\* For any catalogue: while calls do not overlap, a group keeps the plan it
\* bought, with the terms it bought it with, until its tier ends.
THEOREM KeptAsBought == CatalogueSpec => []AsBought
<1>1. CatalogueInv => AsBought BY DEF CatalogueInv, Careful, Served, AsBought
<1> QED BY CatalogueInductive, <1>1, PTL

-----------------------------------------------------------------------------
(* Board: the inductive invariant *)

\* A call knows its task, and the rows it owes are about it.
CallHolds(c) ==
    /\ c.pc \in {"update", "validate", "remove", "history"} => c.task \in DOMAIN tasks
    /\ c.pc # "history" => c.owed = <<>>
    /\ c.pc = "history" => \A k \in DOMAIN c.owed : c.owed[k].task = c.task
    /\ c.pc = "insert" => c.new \in Statuses
    /\ c.pc = "idle" => c = NoTaskCall

BoardTypeInv == BoardTypeOK /\ \A e \in Editors : CallHolds(taskCall[e])

\* The rows of a task before a row, and those there are now.
Earlier(i, n) == {j \in GetTaskHistory(i) : j < n}

\* A task's deletion is on record.
DeletionTold(i) == \E k \in GetTaskHistory(i) : history[k].action = "delete"

\* The row that a call has yet to write about the task i.
Owes(e, i) == TaskAt(e, "history") /\ taskCall[e].owed # <<>> /\ taskCall[e].task = i

\* A call on its own knows the status of its task until it writes it, and then
\* owes the one row that leads there.
CallKnows(e) ==
    LET c == taskCall[e] IN
    /\ c.pc \in {"update", "validate"} =>
          c.old = tasks[c.task].status /\ Recorded(GetTaskHistory(c.task)) = c.old
    /\ c.pc = "remove" => DeletionTold(c.task)
    /\ c.pc = "history" =>
          IF c.owed = <<>> THEN c.removes => DeletionTold(c.task)
          ELSE LET r == c.owed[1] IN
               /\ Len(c.owed) = 1
               /\ r.old = Recorded(GetTaskHistory(c.task))
               /\ tasks[c.task].status = IF r.new = Unset THEN r.old ELSE r.new
               /\ c.removes => r.action = "delete"

RowsReplay ==
    \A k \in DOMAIN history :
        /\ history[k].task \in DOMAIN tasks
        /\ history[k].old = Recorded(Earlier(history[k].task, k))

TasksRecorded ==
    \A i \in DOMAIN tasks :
        /\ Recorded(GetTaskHistory(i)) = tasks[i].status \/ \E e \in Editors : Owes(e, i)
        /\ tasks[i].active \/ DeletionTold(i)

\* No call but that of e is in flight.
TasksOf(e) == \A f \in Editors \ {e} : taskCall[f].pc = "idle"

BoardInOrder ==
    /\ \A e \in Editors : TaskAt(e, "idle") \/ TasksOf(e)
    /\ \A e \in Editors : CallKnows(e)
    /\ RowsReplay /\ TasksRecorded

BoardInv == BoardTypeInv /\ (tasksApart => BoardInOrder)

-----------------------------------------------------------------------------
(* Board: what the rows of a task lead to *)

\* The rows that set the field, and what is recorded by the rows ks of a history h.
Setting(h, ks) == {k \in ks : h[k].new # Unset}
Replay(h, ks) == IF Setting(h, ks) = {} THEN Unset ELSE h[Latest(Setting(h, ks))].new

LEMMA RecordedIs == \A ks : Recorded(ks) = Replay(history, ks)
    BY DEF Recorded, Replay, Setting

LEMMA LatestIn ==
    ASSUME NEW S, NEW n \in S, \A k \in S : k \in Int /\ k <= n
    PROVE  Latest(S) = n
<1>1. Latest(S) \in S /\ \A j \in S : j <= Latest(S)
    BY DEF Latest
<1>2. Latest(S) \in Int /\ n <= Latest(S) /\ Latest(S) <= n
    BY <1>1
<1>3. QED
    BY <1>2

HasGreatest(s) == \E n \in s : \A k \in s : k <= n

LEMMA Greatest ==
    ASSUME NEW S, IsFiniteSet(S), \A k \in S : k \in Int, S # {}
    PROVE  HasGreatest(S)
<1> DEFINE B == {s \in SUBSET S : s # {} /\ ~HasGreatest(s)}
<1>1. SUFFICES ASSUME B # {} PROVE FALSE
    OBVIOUS
<1>a. B \subseteq SUBSET S
    OBVIOUS
<1> HIDE DEF B
<1>2. PICK t \in B : \A u \in B : u \subseteq t => u = t
    BY <1>1, <1>a, LeastSet
<1> USE DEF B
<1>3. PICK x \in t : TRUE
    OBVIOUS
<1>4. t # {x}
    BY DEF HasGreatest
<1>5. t \ {x} # {} /\ HasGreatest(t \ {x})
    BY <1>2, <1>3, <1>4
<1>6. PICK n \in t \ {x} : \A k \in t \ {x} : k <= n
    BY <1>5 DEF HasGreatest
<1>7. x \in Int /\ n \in Int /\ \A k \in t : k \in Int
    OBVIOUS
<1>8. CASE x <= n
    BY <1>6, <1>7, <1>8 DEF HasGreatest
<1>9. CASE n <= x
    BY <1>6, <1>7, <1>9 DEF HasGreatest
<1>10. QED
    BY <1>7, <1>8, <1>9

LEMMA LatestOf ==
    ASSUME NEW S \in SUBSET Int, IsFiniteSet(S), S # {}
    PROVE  Latest(S) \in S /\ \A k \in S : k <= Latest(S)
<1>1. PICK n \in S : \A k \in S : k <= n
    BY Greatest DEF HasGreatest
<1>2. QED
    BY <1>1, LatestIn

LEMMA ReplaySame ==
    ASSUME NEW h, NEW g, NEW ks \in SUBSET Int, IsFiniteSet(ks), \A k \in ks : g[k] = h[k]
    PROVE  Replay(g, ks) = Replay(h, ks)
<1>1. Setting(g, ks) = Setting(h, ks)
    BY DEF Setting
<1>2. CASE Setting(h, ks) = {}
    BY <1>1, <1>2 DEF Replay
<1>3. CASE Setting(h, ks) # {}
  <2>1. PICK S : S = Setting(h, ks)
    OBVIOUS
  <2>2. S \subseteq ks
    BY <2>1 DEF Setting
  <2>3. IsFiniteSet(S)
    BY <2>2, FS_Subset
  <2>4. Latest(S) \in ks
    BY <1>3, <2>1, <2>2, <2>3, LatestOf
  <2>5. QED
    BY <1>1, <1>3, <2>1, <2>4 DEF Replay
<1>4. QED
    BY <1>2, <1>3

LEMMA ReplayLast ==
    ASSUME NEW h, NEW ks \in SUBSET Int, NEW n \in Int, \A k \in ks : k < n
    PROVE  Replay(h, ks \cup {n}) = IF h[n].new = Unset THEN Replay(h, ks) ELSE h[n].new
<1>1. CASE h[n].new = Unset
  <2>1. Setting(h, ks \cup {n}) = Setting(h, ks)
    BY <1>1 DEF Setting
  <2>2. QED
    BY <1>1, <2>1 DEF Replay
<1>2. CASE h[n].new # Unset
  <2>1. n \in Setting(h, ks \cup {n}) /\ \A k \in Setting(h, ks \cup {n}) : k \in Int /\ k <= n
    BY <1>2 DEF Setting
  <2>2. Latest(Setting(h, ks \cup {n})) = n
    BY <2>1, LatestIn
  <2>3. QED
    BY <1>2, <2>1, <2>2 DEF Replay
<1>3. QED
    BY <1>1, <1>2

\* The rows of a task are finitely many numbers.
LEMMA RowsFinite ==
    ASSUME BoardTypeOK, NEW i, NEW n
    PROVE  /\ GetTaskHistory(i) \in SUBSET (1 .. Len(history)) /\ IsFiniteSet(GetTaskHistory(i))
           /\ Earlier(i, n) \in SUBSET (1 .. Len(history)) /\ IsFiniteSet(Earlier(i, n))
<1>1. GetTaskHistory(i) \subseteq 1 .. Len(history) /\ Earlier(i, n) \subseteq 1 .. Len(history)
    BY DEF GetTaskHistory, Earlier, BoardTypeOK
<1>2. IsFiniteSet(1 .. Len(history))
    BY FS_Interval DEF BoardTypeOK
<1>3. QED
    BY <1>1, <1>2, FS_Subset

LEMMA SameHistory ==
    ASSUME history' = history
    PROVE  /\ \A i : GetTaskHistory(i)' = GetTaskHistory(i) /\ (DeletionTold(i) <=> DeletionTold(i)')
           /\ \A i : Recorded(GetTaskHistory(i))' = Recorded(GetTaskHistory(i))
           /\ \A i, n : Recorded(Earlier(i, n))' = Recorded(Earlier(i, n))
    BY DEF GetTaskHistory, DeletionTold, Earlier, Recorded

\* What one more row r changes.
LEMMA RowAdded ==
    ASSUME BoardTypeOK, NEW r \in HistoryRow, history' = Append(history, r)
    PROVE  /\ \A i \in Nat : i # r.task => Recorded(GetTaskHistory(i))' = Recorded(GetTaskHistory(i))
           /\ Recorded(GetTaskHistory(r.task))' =
                 IF r.new = Unset THEN Recorded(GetTaskHistory(r.task)) ELSE r.new
           /\ \A k \in DOMAIN history :
                 Recorded(Earlier(history[k].task, k))' = Recorded(Earlier(history[k].task, k))
           /\ Recorded(Earlier(r.task, Len(history)))' = Recorded(GetTaskHistory(r.task))
           /\ \A i \in Nat : DeletionTold(i) => DeletionTold(i)'
           /\ r.action = "delete" => DeletionTold(r.task)'
<1> DEFINE n == Len(history) + 1
<1>1. /\ history \in Seq(HistoryRow) /\ n \in Int /\ DOMAIN history = 1 .. n - 1
      /\ DOMAIN history' = 1 .. n /\ history'[n] = r
      /\ \A k \in 1 .. n - 1 : history'[k] = history[k]
    BY DEF BoardTypeOK
<1> PICK h, g : h = history /\ g = history'
    OBVIOUS
<1>2. \A i : /\ GetTaskHistory(i) = {k \in 1 .. n - 1 : h[k].task = i}
             /\ GetTaskHistory(i)' = {k \in 1 .. n : g[k].task = i}
    BY <1>1 DEF GetTaskHistory
<1>3. \A i : i # r.task => GetTaskHistory(i)' = GetTaskHistory(i)
  <2>1. h = history /\ g = history' /\ \A k \in 1 .. n : k = n \/ k \in 1 .. n - 1
    BY <1>1
  <2> HIDE DEF n
  <2>2. \A i : \A k \in 1 .. n : g[k].task = i /\ i # r.task => k \in 1 .. n - 1 /\ h[k].task = i
    BY <1>1, <2>1
  <2>3. \A i : \A k \in 1 .. n - 1 : k \in 1 .. n /\ g[k].task = h[k].task
    BY <1>1, <2>1
  <2>4. QED
    BY <1>2, <2>2, <2>3
<1>4. GetTaskHistory(r.task)' = GetTaskHistory(r.task) \cup {n}
    BY <1>1, <1>2
<1>5. \A i, k : k \in 1 .. n => Earlier(i, k)' = Earlier(i, k)
    BY <1>1, <1>2 DEF Earlier
<1>6. Earlier(r.task, n) = GetTaskHistory(r.task)
    BY <1>1, <1>2 DEF Earlier
<1>7. \A ks \in SUBSET (1 .. n - 1) : IsFiniteSet(ks) => Replay(g, ks) = Replay(h, ks)
  <2> SUFFICES ASSUME NEW ks \in SUBSET (1 .. n - 1), IsFiniteSet(ks)
               PROVE  Replay(g, ks) = Replay(h, ks)
    OBVIOUS
  <2>1. ks \in SUBSET Int /\ \A k \in ks : g[k] = h[k]
    BY <1>1
  <2>2. QED
    BY <2>1, ReplaySame
<1>8. /\ \A ks : Recorded(ks) = Replay(h, ks)
      /\ \A ks : Recorded(ks)' = Replay(g, ks)
    BY DEF Recorded, Replay, Setting
<1>9. \A i, k : /\ GetTaskHistory(i) \in SUBSET (1 .. n - 1) /\ IsFiniteSet(GetTaskHistory(i))
                /\ Earlier(i, k) \in SUBSET (1 .. n - 1) /\ IsFiniteSet(Earlier(i, k))
    BY <1>1, RowsFinite
<1> PICK of, before : of = GetTaskHistory(r.task) /\ before = Earlier(r.task, n)
    OBVIOUS
<1>10. \A i \in Nat : i # r.task => Recorded(GetTaskHistory(i))' = Recorded(GetTaskHistory(i))
  <2> SUFFICES ASSUME NEW i \in Nat, i # r.task
               PROVE  Recorded(GetTaskHistory(i))' = Recorded(GetTaskHistory(i))
    OBVIOUS
  <2> PICK ks : ks = GetTaskHistory(i)
    OBVIOUS
  <2>1. Recorded(GetTaskHistory(i)) = Replay(h, ks) /\ Replay(g, ks) = Replay(h, ks)
    BY <1>7, <1>8, <1>9
  <2>2. Recorded(GetTaskHistory(i))' = Replay(g, ks)
    BY <1>3, <1>8
  <2>3. QED
    BY <2>1, <2>2
<1>11. Recorded(GetTaskHistory(r.task))' = IF r.new = Unset THEN Recorded(GetTaskHistory(r.task)) ELSE r.new
  <2>1. of \in SUBSET Int /\ \A k \in of : k < n
    BY <1>1, <1>9
  <2>2. Replay(g, of \cup {n}) = IF r.new = Unset THEN Replay(g, of) ELSE r.new
  <3>1. n \in Int /\ g[n] = r
    BY <1>1
  <3> HIDE DEF n
  <3>2. Replay(g, of \cup {n}) = IF g[n].new = Unset THEN Replay(g, of) ELSE g[n].new
    BY <2>1, <3>1, ReplayLast
  <3>3. QED
    BY <3>1, <3>2
  <2>3. Recorded(GetTaskHistory(r.task))' = Replay(g, of \cup {n})
    BY <1>4, <1>8
  <2>4. Recorded(GetTaskHistory(r.task)) = Replay(h, of) /\ Replay(g, of) = Replay(h, of)
    BY <1>7, <1>8, <1>9
  <2>5. QED
    BY <2>2, <2>3, <2>4
<1>12. \A k \in DOMAIN history : Recorded(Earlier(history[k].task, k))' = Recorded(Earlier(history[k].task, k))
  <2> SUFFICES ASSUME NEW k \in DOMAIN history
               PROVE  Recorded(Earlier(history[k].task, k))' = Recorded(Earlier(history[k].task, k))
    OBVIOUS
  <2> PICK i, ks : i = history[k].task /\ ks = Earlier(i, k)
    OBVIOUS
  <2>1. Recorded(Earlier(history[k].task, k)) = Replay(h, ks) /\ Replay(g, ks) = Replay(h, ks)
    BY <1>7, <1>8, <1>9
  <2>2. history'[k].task = i /\ Earlier(i, k)' = ks
    BY <1>1, <1>5
  <2>3. QED
    BY <1>8, <2>1, <2>2
<1>13. Recorded(Earlier(r.task, Len(history)))' = Recorded(GetTaskHistory(r.task))
  <2>1. Recorded(GetTaskHistory(r.task)) = Replay(h, of) /\ Replay(g, of) = Replay(h, of)
    BY <1>7, <1>8, <1>9
  <2>2. Len(history') = n
    BY <1>1
  <2>3. Earlier(r.task, Len(history))' = {j \in GetTaskHistory(r.task)' : j < n}
    BY <2>2 DEF Earlier
  <2>4. GetTaskHistory(r.task)' = of \cup {n} /\ \A j \in of : j < n
    BY <1>1, <1>4, <1>9
  <2>5. Earlier(r.task, Len(history))' = of
    BY <1>1, <2>3, <2>4
  <2>6. QED
    BY <1>8, <2>1, <2>5
<1>14. \A i \in Nat : DeletionTold(i) => DeletionTold(i)'
    BY <1>1, <1>2 DEF DeletionTold
<1>15. r.action = "delete" => DeletionTold(r.task)'
    BY <1>1, <1>2 DEF DeletionTold
<1>16. QED
    BY <1>10, <1>11, <1>12, <1>13, <1>14, <1>15

-----------------------------------------------------------------------------
(* Board: the calls *)

LEMMA NoTaskCallTyped == NoTaskCall \in TaskCall /\ NoTaskCall.pc = "idle" /\ NoTaskCall.owed = <<>>
<1>1. 0 \in 0 .. MaxTasks /\ Unset \in Values
    BY BoardBounds DEF Values
<1>2. <<>> \in Seq(HistoryRow)
    OBVIOUS
<1>3. QED
    BY <1>1, <1>2 DEF NoTaskCall, TaskCall

\* One call moves and the tasks it may name are still there.
LEMMA CallMoves ==
    ASSUME BoardTypeInv, NEW e \in Editors, NEW c \in TaskCall,
           taskCall' = [taskCall EXCEPT ![e] = c], CallHolds(c)', DOMAIN tasks \subseteq DOMAIN tasks'
    PROVE  /\ taskCall' \in [Editors -> TaskCall] /\ taskCall'[e] = c
           /\ \A f \in Editors \ {e} : taskCall'[f] = taskCall[f]
           /\ \A f \in Editors : CallHolds(taskCall[f])'
<1>1. taskCall \in [Editors -> TaskCall]
    BY DEF BoardTypeInv, BoardTypeOK
<1>2. /\ taskCall' \in [Editors -> TaskCall] /\ taskCall'[e] = c
      /\ \A f \in Editors \ {e} : taskCall'[f] = taskCall[f]
    BY <1>1
<1>3. \A f \in Editors \ {e} : CallHolds(taskCall[f])'
    BY <1>2 DEF BoardTypeInv, CallHolds
<1>4. QED
    BY <1>2, <1>3

\* Calls that are over know nothing that could be wrong.
LEMMA OrderOfTasks ==
    ASSUME NEW e \in Editors, TasksOf(e)', CallKnows(e)', RowsReplay', TasksRecorded'
    PROVE  BoardInOrder'
<1>1. \A f \in Editors \ {e} : CallKnows(f)'
    BY DEF TasksOf, CallKnows
<1>2. \A f \in Editors : TaskAt(f, "idle")' \/ TasksOf(f)'
    BY DEF TasksOf, TaskAt
<1>3. QED
    BY <1>1, <1>2 DEF BoardInOrder

\* A call that begins alone finds every task as recorded.
LEMMA TaskStartsAlone ==
    ASSUME BoardInv, NEW e \in Editors, TaskStarts(e)
    PROVE  /\ tasksApart' \in BOOLEAN /\ taskCall[e].pc = "idle"
           /\ tasksApart' => /\ tasksApart /\ TasksOf(e) /\ BoardInOrder
                             /\ \A i \in DOMAIN tasks : Recorded(GetTaskHistory(i)) = tasks[i].status
<1>1. tasksApart' \in BOOLEAN /\ taskCall[e].pc = "idle"
    BY NoTaskCallTyped DEF TaskStarts, BoardInv, BoardTypeInv, BoardTypeOK
<1>2. ASSUME tasksApart' PROVE tasksApart /\ \A o \in Editors : taskCall[o].pc = "idle"
    BY <1>2, NoTaskCallTyped DEF TaskStarts
<1>3. QED
    BY <1>1, <1>2 DEF TasksOf, BoardInv, BoardInOrder, TasksRecorded, Owes, TaskAt

\* Where history and tasks stay, so does what is recorded, but for what the
\* call of e owes.
LEMMA RecordsStay ==
    ASSUME UNCHANGED <<tasks, history>>, RowsReplay,
           \A i \in DOMAIN tasks : tasks[i].active \/ DeletionTold(i),
           \A i \in DOMAIN tasks : Recorded(GetTaskHistory(i)) = tasks[i].status
    PROVE  RowsReplay' /\ TasksRecorded'
    BY SameHistory DEF RowsReplay, TasksRecorded

\* A call that has read the task i starts on it.
LEMMA TaskHeld ==
    ASSUME BoardInv, NEW e \in Editors, TaskStarts(e), UNCHANGED <<tasks, history>>,
           NEW i \in DOMAIN tasks, NEW s \in Values, NEW pc \in {"update", "validate"},
           TaskHolds(e, pc, i, tasks[i].status, s)
    PROVE  BoardInv'
<1> PICK c : c = [NoTaskCall EXCEPT !.pc = pc, !.task = i, !.old = tasks[i].status, !.new = s]
    OBVIOUS
<1>1. tasks \in Seq(Task) /\ Len(tasks) <= MaxTasks /\ MaxTasks \in Nat
    BY BoardBounds DEF BoardInv, BoardTypeInv, BoardTypeOK
<1>2. tasks[i].status \in Values /\ i \in 0 .. MaxTasks
  <2>1. i \in 1 .. Len(tasks) /\ Len(tasks) \in Nat /\ tasks[i] \in Task
    BY <1>1
  <2>2. QED
    BY <1>1, <2>1 DEF Task, Values
<1>3. /\ c \in TaskCall /\ c.pc = pc /\ c.task = i /\ c.old = tasks[i].status /\ c.owed = <<>>
    BY <1>2, NoTaskCallTyped DEF NoTaskCall, TaskCall
<1>4. taskCall' = [taskCall EXCEPT ![e] = c]
    BY DEF TaskHolds
<1>5. CallHolds(c)'
    BY <1>3 DEF CallHolds
<1>6. /\ taskCall' \in [Editors -> TaskCall] /\ taskCall'[e] = c
      /\ \A f \in Editors \ {e} : taskCall'[f] = taskCall[f]
      /\ \A f \in Editors : CallHolds(taskCall[f])'
    BY <1>3, <1>4, <1>5, CallMoves DEF BoardInv
<1>7. BoardTypeInv'
    BY <1>6, TaskStartsAlone DEF BoardTypeInv, BoardTypeOK, BoardInv
<1>8. ASSUME tasksApart' PROVE BoardInOrder'
  <2>1. /\ TasksOf(e) /\ BoardInOrder
        /\ \A j \in DOMAIN tasks : Recorded(GetTaskHistory(j)) = tasks[j].status
    BY <1>8, TaskStartsAlone
  <2>2. RowsReplay' /\ TasksRecorded'
    BY <2>1, RecordsStay DEF BoardInOrder, TasksRecorded
  <2>3. CallKnows(e)'
    BY <1>3, <1>6, <2>1, SameHistory DEF CallKnows
  <2>4. TasksOf(e)'
    BY <1>6, <2>1 DEF TasksOf
  <2>5. QED
    BY <2>2, <2>3, <2>4, OrderOfTasks
<1>9. QED
    BY <1>7, <1>8 DEF BoardInv

\* The call that owes a row about the task i.
TaskOwing(i, action, old, new) ==
    [NoTaskCall EXCEPT !.pc = "history", !.task = i,
                       !.owed = ChangedFields(i, action, old, new), !.removes = action = "delete"]

LEMMA OwingTyped ==
    ASSUME NEW i \in 1 .. MaxTasks, NEW action \in {"create", "update", "delete"},
           NEW old \in Values, NEW new \in Values, NEW c, c = TaskOwing(i, action, old, new)
    PROVE  /\ c \in TaskCall /\ c.pc = "history" /\ c.task = i /\ c.removes = (action = "delete")
           /\ \A k \in DOMAIN c.owed : c.owed[k].task = i
           /\ old = new => c.owed = <<>>
           /\ old # new => /\ c.owed # <<>> /\ Len(c.owed) = 1
                           /\ c.owed[1].old = old /\ c.owed[1].new = new /\ c.owed[1].action = action
<1> DEFINE r == Row(i, action, old, new)
<1>1. r \in HistoryRow /\ r.task = i /\ r.old = old /\ r.new = new /\ r.action = action
    BY DEF Row, HistoryRow
<1>2. i \in 0 .. MaxTasks
    BY BoardBounds
<1> HIDE DEF r
<1>3. ChangedFields(i, action, old, new) = IF old = new THEN <<>> ELSE <<r>>
    BY DEF ChangedFields, r
<1>4. ChangedFields(i, action, old, new) \in Seq(HistoryRow)
    BY <1>1, <1>3
<1>5. /\ c \in TaskCall /\ c.pc = "history" /\ c.task = i /\ c.removes = (action = "delete")
      /\ c.owed = IF old = new THEN <<>> ELSE <<r>>
    BY <1>2, <1>3, <1>4, NoTaskCallTyped DEF TaskOwing, NoTaskCall, TaskCall
<1>6. QED
    BY <1>1, <1>5

LEMMA CreateKept ==
    ASSUME BoardInv, NEW e \in Editors, CreateTask(e)
    PROVE  BoardInv'
<1>1. PICK s \in Statuses : TaskHolds(e, "insert", 0, Unset, s)
    BY DEF CreateTask
<1> PICK c : c = [NoTaskCall EXCEPT !.pc = "insert", !.task = 0, !.old = Unset, !.new = s]
    OBVIOUS
<1>2. TaskStarts(e) /\ UNCHANGED <<tasks, history>>
    BY DEF CreateTask
<1>3. c \in TaskCall /\ c.pc = "insert" /\ c.new = s /\ c.owed = <<>>
    BY NoTaskCallTyped DEF NoTaskCall, TaskCall, Values
<1>4. taskCall' = [taskCall EXCEPT ![e] = c]
    BY <1>1 DEF TaskHolds
<1>5. CallHolds(c)'
    BY <1>3 DEF CallHolds
<1>6. /\ taskCall' \in [Editors -> TaskCall] /\ taskCall'[e] = c
      /\ \A f \in Editors \ {e} : taskCall'[f] = taskCall[f]
      /\ \A f \in Editors : CallHolds(taskCall[f])'
    BY <1>2, <1>3, <1>4, <1>5, CallMoves DEF BoardInv
<1>7. BoardTypeInv'
    BY <1>2, <1>6, TaskStartsAlone DEF BoardTypeInv, BoardTypeOK, BoardInv
<1>8. ASSUME tasksApart' PROVE BoardInOrder'
  <2>1. /\ TasksOf(e) /\ BoardInOrder
        /\ \A j \in DOMAIN tasks : Recorded(GetTaskHistory(j)) = tasks[j].status
    BY <1>2, <1>8, TaskStartsAlone
  <2>2. RowsReplay' /\ TasksRecorded'
    BY <1>2, <2>1, RecordsStay DEF BoardInOrder, TasksRecorded
  <2>3. CallKnows(e)' /\ TasksOf(e)'
    BY <1>3, <1>6, <2>1 DEF CallKnows, TasksOf
  <2>4. QED
    BY <2>2, <2>3, OrderOfTasks
<1>9. QED
    BY <1>7, <1>8 DEF BoardInv

LEMMA TaskStatusTyped ==
    ASSUME BoardInv, NEW i \in DOMAIN tasks
    PROVE  tasks[i].status \in Statuses /\ tasks[i].status \in Values /\ i \in 1 .. MaxTasks
<1>1. tasks \in Seq(Task) /\ Len(tasks) <= MaxTasks /\ MaxTasks \in Nat
    BY BoardBounds DEF BoardInv, BoardTypeInv, BoardTypeOK
<1>2. i \in 1 .. Len(tasks) /\ Len(tasks) \in Nat /\ tasks[i] \in Task
    BY <1>1
<1>3. QED
    BY <1>1, <1>2 DEF Task, Values

LEMMA UpdateTaskKept ==
    ASSUME BoardInv, NEW e \in Editors, UpdateTask(e) \/ UpdateTaskStatus(e)
    PROVE  BoardInv'
<1>1. PICK i \in Editable, s \in Values, pc \in {"update", "validate"} :
          TaskHolds(e, pc, i, tasks[i].status, s)
    BY DEF UpdateTask, UpdateTaskStatus, Values
<1>2. i \in DOMAIN tasks
    BY DEF Editable
<1>3. QED
    BY <1>1, <1>2, TaskHeld DEF UpdateTask, UpdateTaskStatus

LEMMA DeleteTaskKept ==
    ASSUME BoardInv, NEW e \in Editors, DeleteTask(e)
    PROVE  BoardInv'
<1>1. PICK i \in Editable : TaskOwes(e, i, "delete", tasks[i].status, Unset)
    BY DEF DeleteTask
<1> PICK c, s : c = TaskOwing(i, "delete", s, Unset) /\ s = tasks[i].status
    OBVIOUS
<1>2. TaskStarts(e) /\ UNCHANGED <<tasks, history>>
    BY DEF DeleteTask
<1>3. i \in DOMAIN tasks /\ s \in Statuses /\ s \in Values /\ i \in 1 .. MaxTasks /\ s # Unset
    BY TaskStatusTyped, UnsetAssumption DEF Editable, Statuses, ToDo, InProgress, Done
<1>4. /\ c \in TaskCall /\ c.pc = "history" /\ c.task = i /\ c.removes
      /\ \A k \in DOMAIN c.owed : c.owed[k].task = i
      /\ c.owed # <<>> /\ Len(c.owed) = 1
      /\ c.owed[1].old = s /\ c.owed[1].new = Unset /\ c.owed[1].action = "delete"
  <2>1. Unset \in Values
    BY DEF Values
  <2>2. /\ c \in TaskCall /\ c.pc = "history" /\ c.task = i /\ c.removes = ("delete" = "delete")
        /\ \A k \in DOMAIN c.owed : c.owed[k].task = i
        /\ s # Unset => /\ c.owed # <<>> /\ Len(c.owed) = 1
                        /\ c.owed[1].old = s /\ c.owed[1].new = Unset /\ c.owed[1].action = "delete"
    BY <1>3, <2>1, OwingTyped
  <2>3. QED
    BY <1>3, <2>2
<1>5. taskCall' = [taskCall EXCEPT ![e] = c]
    BY <1>1 DEF TaskOwes, TaskOwing
<1>6. CallHolds(c)'
    BY <1>2, <1>3, <1>4 DEF CallHolds
<1>7. /\ taskCall' \in [Editors -> TaskCall] /\ taskCall'[e] = c
      /\ \A f \in Editors \ {e} : taskCall'[f] = taskCall[f]
      /\ \A f \in Editors : CallHolds(taskCall[f])'
    BY <1>2, <1>4, <1>5, <1>6, CallMoves DEF BoardInv
<1>8. BoardTypeInv'
    BY <1>2, <1>7, TaskStartsAlone DEF BoardTypeInv, BoardTypeOK, BoardInv
<1>9. ASSUME tasksApart' PROVE BoardInOrder'
  <2>1. /\ TasksOf(e) /\ BoardInOrder
        /\ \A j \in DOMAIN tasks : Recorded(GetTaskHistory(j)) = tasks[j].status
    BY <1>2, <1>9, TaskStartsAlone
  <2>2. RowsReplay' /\ TasksRecorded'
    BY <1>2, <2>1, RecordsStay DEF BoardInOrder, TasksRecorded
  <2>3. CallKnows(e)' /\ TasksOf(e)'
    BY <1>2, <1>3, <1>4, <1>7, <2>1, SameHistory DEF CallKnows, TasksOf
  <2>4. QED
    BY <2>2, <2>3, OrderOfTasks
<1>10. QED
    BY <1>8, <1>9 DEF BoardInv

\* A statement of a call that is in flight.
LEMMA TaskInFlight ==
    ASSUME BoardInv, NEW e \in Editors, ~TaskAt(e, "idle")
    PROVE  /\ taskCall \in [Editors -> TaskCall] /\ taskCall[e] \in TaskCall /\ CallHolds(taskCall[e])
           /\ tasksApart => TasksOf(e) /\ BoardInOrder /\ CallKnows(e)
    BY DEF BoardInv, BoardTypeInv, BoardTypeOK, BoardInOrder

LEMMA InsertTaskKept ==
    ASSUME BoardInv, NEW e \in Editors, InsertTask(e)
    PROVE  BoardInv'
<1> PICK s, n, c : s = taskCall[e].new /\ n = Len(tasks) + 1 /\ c = TaskOwing(n, "create", Unset, s)
    OBVIOUS
<1> DEFINE t == [status |-> s, active |-> TRUE, age |-> 0]
<1>1. TaskAt(e, "insert") /\ Len(tasks) < MaxTasks /\ tasks' = Append(tasks, t) /\ history' = history
      /\ tasksApart' = tasksApart /\ taskCall' = [taskCall EXCEPT ![e] = c]
    BY DEF InsertTask, TaskOwes, TaskOwing, SameTasks
<1>2. /\ taskCall \in [Editors -> TaskCall] /\ taskCall[e] \in TaskCall /\ CallHolds(taskCall[e])
      /\ tasksApart => TasksOf(e) /\ BoardInOrder /\ CallKnows(e)
    BY <1>1, TaskInFlight DEF TaskAt
<1>3. s \in Statuses /\ s \in Values /\ s # Unset
    BY <1>1, <1>2, UnsetAssumption DEF CallHolds, TaskAt, Statuses, Values, ToDo, InProgress, Done
<1>4. tasks \in Seq(Task) /\ MaxTasks \in Nat /\ history \in Seq(HistoryRow) /\ Len(history) <= MaxHistory
    BY BoardBounds DEF BoardInv, BoardTypeInv, BoardTypeOK
<1>5. t \in Task /\ t.status = s /\ t.active
    BY <1>3, LockAssumption DEF Task
<1> HIDE DEF t
<1>6. /\ tasks' \in Seq(Task) /\ Len(tasks') <= MaxTasks /\ n \in 1 .. MaxTasks
      /\ DOMAIN tasks = 1 .. n - 1 /\ DOMAIN tasks' = 1 .. n /\ tasks'[n] = t /\ n \in Nat
      /\ \A i \in 1 .. n - 1 : tasks'[i] = tasks[i]
    BY <1>1, <1>4, <1>5
<1>7. /\ c \in TaskCall /\ c.pc = "history" /\ c.task = n /\ ~c.removes
      /\ \A k \in DOMAIN c.owed : c.owed[k].task = n
      /\ c.owed # <<>> /\ Len(c.owed) = 1
      /\ c.owed[1].old = Unset /\ c.owed[1].new = s
  <2>1. Unset \in Values
    BY DEF Values
  <2>2. /\ c \in TaskCall /\ c.pc = "history" /\ c.task = n /\ c.removes = ("create" = "delete")
        /\ \A k \in DOMAIN c.owed : c.owed[k].task = n
        /\ Unset # s => /\ c.owed # <<>> /\ Len(c.owed) = 1
                        /\ c.owed[1].old = Unset /\ c.owed[1].new = s
    BY <1>3, <1>6, <2>1, OwingTyped
  <2>3. QED
    BY <1>3, <2>2
<1>8. CallHolds(c)'
    BY <1>6, <1>7 DEF CallHolds
<1>9. /\ taskCall' \in [Editors -> TaskCall] /\ taskCall'[e] = c
      /\ \A f \in Editors \ {e} : taskCall'[f] = taskCall[f]
      /\ \A f \in Editors : CallHolds(taskCall[f])'
  <2>1. DOMAIN tasks \subseteq DOMAIN tasks'
    BY <1>6
  <2>2. QED
    BY <1>1, <1>7, <1>8, <2>1, CallMoves DEF BoardInv
<1>10. BoardTypeInv'
    BY <1>1, <1>4, <1>6, <1>9 DEF BoardInv, BoardTypeInv, BoardTypeOK
<1>11. ASSUME tasksApart' PROVE BoardInOrder'
  <2>1. TasksOf(e) /\ RowsReplay /\ TasksRecorded
    BY <1>1, <1>2, <1>11 DEF BoardInOrder
  <2>2. TasksOf(e)'
    BY <1>9, <2>1 DEF TasksOf
  <2>3. RowsReplay'
    BY <1>1, <1>6, <2>1, SameHistory DEF RowsReplay
  <2>4. Owes(e, n)'
    BY <1>7, <1>9 DEF Owes, TaskAt
  <2>5. \A f \in Editors : \A i : ~Owes(f, i)
    BY <1>1, <2>1 DEF TasksOf, Owes, TaskAt
  <2>6. TasksRecorded'
    <3>1. \A i \in 1 .. n - 1 : /\ Recorded(GetTaskHistory(i)) = tasks[i].status
                                /\ tasks[i].active \/ DeletionTold(i)
      BY <1>6, <2>1, <2>5 DEF TasksRecorded
    <3>2. \A i \in 1 .. n - 1 : /\ Recorded(GetTaskHistory(i))' = tasks'[i].status
                                /\ tasks'[i].active \/ DeletionTold(i)'
      BY <1>1, <1>6, <3>1, SameHistory
    <3>3. \A i \in 1 .. n : i = n \/ i \in 1 .. n - 1
      BY <1>6
    <3>4. QED
      BY <1>5, <1>6, <2>4, <3>2, <3>3 DEF TasksRecorded
  <2>7. Recorded(GetTaskHistory(n)) = Unset
    <3>1. GetTaskHistory(n) = {}
      BY <1>6, <2>1 DEF RowsReplay, GetTaskHistory
    <3>2. QED
      BY <3>1 DEF Recorded
  <2>8. CallKnows(e)'
    <3>1. Recorded(GetTaskHistory(n))' = Unset
      BY <1>1, <2>7, SameHistory
    <3>2. QED
      BY <1>3, <1>5, <1>6, <1>7, <1>9, <3>1 DEF CallKnows
  <2>9. QED
    BY <2>2, <2>3, <2>6, <2>8, OrderOfTasks
<1>12. QED
    BY <1>10, <1>11 DEF BoardInv

\* A call that ends, or goes on with what it holds, while the rows stay.
LEMMA TaskCallGoesOn ==
    ASSUME BoardInv, NEW e \in Editors, ~TaskAt(e, "idle"), UNCHANGED <<tasks, history>>,
           NEW c \in TaskCall, taskCall' = [taskCall EXCEPT ![e] = c], CallHolds(c)',
           tasksApart' \in BOOLEAN, tasksApart' => tasksApart,
           \A i : tasksApart' /\ Owes(e, i) => Owes(e, i)', tasksApart' => CallKnows(e)'
    PROVE  BoardInv'
<1>1. /\ taskCall' \in [Editors -> TaskCall] /\ taskCall'[e] = c
      /\ \A f \in Editors \ {e} : taskCall'[f] = taskCall[f]
      /\ \A f \in Editors : CallHolds(taskCall[f])'
    BY CallMoves DEF BoardInv
<1>2. BoardTypeInv'
    BY <1>1 DEF BoardInv, BoardTypeInv, BoardTypeOK
<1>3. ASSUME tasksApart' PROVE BoardInOrder'
  <2>1. TasksOf(e) /\ RowsReplay /\ TasksRecorded
    BY <1>3, TaskInFlight DEF BoardInOrder
  <2>2. TasksOf(e)'
    BY <1>1, <2>1 DEF TasksOf
  <2>3. RowsReplay'
    BY <2>1, SameHistory DEF RowsReplay
  <2>4. \A f \in Editors : \A i : Owes(f, i) => Owes(f, i)'
    BY <1>1, <1>3 DEF Owes, TaskAt
  <2>5. TasksRecorded'
    BY <2>1, <2>4, SameHistory DEF TasksRecorded
  <2>6. QED
    BY <1>3, <2>2, <2>3, <2>5, OrderOfTasks
<1>4. QED
    BY <1>2, <1>3 DEF BoardInv

LEMMA ValidateTaskKept ==
    ASSUME BoardInv, NEW e \in Editors, ValidateAssignee(e)
    PROVE  BoardInv'
<1>1. /\ TaskAt(e, "validate") /\ UNCHANGED <<tasks, history, tasksApart>>
      /\ TaskGoto(e, "update") \/ TaskDone(e)
    BY DEF ValidateAssignee, SameTasks
<1>2. /\ taskCall \in [Editors -> TaskCall] /\ taskCall[e] \in TaskCall /\ CallHolds(taskCall[e])
      /\ tasksApart => TasksOf(e) /\ BoardInOrder /\ CallKnows(e)
    BY <1>1, TaskInFlight DEF TaskAt
<1> PICK c : c = taskCall'[e]
    OBVIOUS
<1>3. tasksApart \in BOOLEAN
    BY DEF BoardInv, BoardTypeInv, BoardTypeOK
<1>4. CASE TaskGoto(e, "update")
  <2>1. /\ c \in TaskCall /\ taskCall' = [taskCall EXCEPT ![e] = c]
        /\ c.pc = "update" /\ c.task = taskCall[e].task /\ c.old = taskCall[e].old
        /\ c.owed = taskCall[e].owed
    BY <1>2, <1>4 DEF TaskGoto, TaskCall
  <2>2. CallHolds(c)'
    BY <1>1, <1>2, <2>1 DEF CallHolds, TaskAt
  <2>3. tasksApart' => CallKnows(e)'
    BY <1>1, <1>2, <2>1, SameHistory DEF CallKnows, TaskAt
  <2>4. \A i : ~Owes(e, i)
    BY <1>1 DEF Owes, TaskAt
  <2>5. QED
    BY <1>1, <1>3, <2>1, <2>2, <2>3, <2>4, TaskCallGoesOn DEF TaskAt
<1>5. CASE TaskDone(e)
  <2>1. c = NoTaskCall /\ taskCall' = [taskCall EXCEPT ![e] = c]
    BY <1>2, <1>5 DEF TaskDone
  <2>2. c \in TaskCall /\ CallHolds(c)'
    BY <2>1, NoTaskCallTyped DEF CallHolds
  <2>3. CallKnows(e)'
    BY <2>1, NoTaskCallTyped DEF CallKnows
  <2>4. \A i : ~Owes(e, i)
    BY <1>1 DEF Owes, TaskAt
  <2>5. QED
    BY <1>1, <1>3, <2>1, <2>2, <2>3, <2>4, TaskCallGoesOn DEF TaskAt
<1>6. QED
    BY <1>1, <1>4, <1>5

LEMMA WriteTaskKept ==
    ASSUME BoardInv, NEW e \in Editors, WriteTask(e)
    PROVE  BoardInv'
<1> PICK c, i, old, new : c = TaskOwing(i, "update", old, new)
                          /\ i = taskCall[e].task /\ old = taskCall[e].old /\ new = taskCall[e].new
    OBVIOUS
<1>1. /\ TaskAt(e, "update") /\ history' = history /\ tasksApart' = tasksApart
      /\ taskCall' = [taskCall EXCEPT ![e] = c]
      /\ tasks' = [tasks EXCEPT ![i].status = IF new = Unset THEN @ ELSE new, ![i].age = 0]
    BY DEF WriteTask, TaskOwes, TaskOwing, SameTasks, OldValue
<1>2. /\ taskCall \in [Editors -> TaskCall] /\ taskCall[e] \in TaskCall /\ CallHolds(taskCall[e])
      /\ tasksApart => TasksOf(e) /\ BoardInOrder /\ CallKnows(e)
    BY <1>1, TaskInFlight DEF TaskAt
<1>3. old \in Values /\ new \in Values /\ i \in DOMAIN tasks /\ i \in 1 .. MaxTasks
    BY <1>1, <1>2, TaskStatusTyped DEF TaskCall, CallHolds, TaskAt
<1>4. tasks \in Seq(Task) /\ Len(tasks) <= MaxTasks /\ history \in Seq(HistoryRow)
    BY DEF BoardInv, BoardTypeInv, BoardTypeOK
<1> PICK t : t = tasks[i]
    OBVIOUS
<1> DEFINE u == [t EXCEPT !.status = IF new = Unset THEN t.status ELSE new, !.age = 0]
<1>5. t \in Task /\ (new # Unset => new \in Statuses) /\ 0 \in 0 .. LockDays
    BY <1>3, <1>4, LockAssumption DEF Values
<1>6. /\ u \in Task /\ u.active = t.active
      /\ u.status = IF new = Unset THEN t.status ELSE new
    BY <1>5 DEF Task
<1>7. tasks' = [tasks EXCEPT ![i] = u]
    BY <1>1, <1>3, <1>4
<1> HIDE DEF u
<1>8. /\ tasks' \in Seq(Task) /\ Len(tasks') = Len(tasks) /\ DOMAIN tasks' = DOMAIN tasks
      /\ tasks'[i] = u /\ \A j \in DOMAIN tasks \ {i} : tasks'[j] = tasks[j]
    BY <1>3, <1>4, <1>6, <1>7
<1>9. /\ c \in TaskCall /\ c.pc = "history" /\ c.task = i /\ ~c.removes
      /\ \A k \in DOMAIN c.owed : c.owed[k].task = i
      /\ old = new => c.owed = <<>>
      /\ old # new => /\ c.owed # <<>> /\ Len(c.owed) = 1
                      /\ c.owed[1].old = old /\ c.owed[1].new = new
  <2>1. /\ c \in TaskCall /\ c.pc = "history" /\ c.task = i /\ c.removes = ("update" = "delete")
        /\ \A k \in DOMAIN c.owed : c.owed[k].task = i
        /\ old = new => c.owed = <<>>
        /\ old # new => /\ c.owed # <<>> /\ Len(c.owed) = 1
                        /\ c.owed[1].old = old /\ c.owed[1].new = new
    BY <1>3, OwingTyped
  <2>2. QED
    BY <2>1
<1>10. CallHolds(c)'
    BY SMTT(30), <1>3, <1>8, <1>9 DEF CallHolds
<1>11. /\ taskCall' \in [Editors -> TaskCall] /\ taskCall'[e] = c
       /\ \A f \in Editors \ {e} : taskCall'[f] = taskCall[f]
       /\ \A f \in Editors : CallHolds(taskCall[f])'
    BY <1>1, <1>8, <1>9, <1>10, CallMoves DEF BoardInv
<1>12. BoardTypeInv'
    BY <1>1, <1>4, <1>8, <1>11 DEF BoardInv, BoardTypeInv, BoardTypeOK
<1>13. ASSUME tasksApart' PROVE BoardInOrder'
  <2>1. TasksOf(e) /\ RowsReplay /\ TasksRecorded /\ CallKnows(e)
    BY <1>1, <1>2, <1>13 DEF BoardInOrder
  <2>2. TasksOf(e)'
    BY <1>11, <2>1 DEF TasksOf
  <2>3. RowsReplay'
    BY <1>1, <1>8, <2>1, SameHistory DEF RowsReplay
  <2>4. \A f \in Editors : \A j : ~Owes(f, j)
    BY <1>1, <2>1 DEF TasksOf, Owes, TaskAt
  <2>5. old = t.status /\ Recorded(GetTaskHistory(i)) = old
    BY SMTT(30), <1>1, <2>1 DEF CallKnows, TaskAt
  <2>6. Owes(e, i)' \/ u.status = old
    BY <1>6, <1>9, <1>11, <2>5 DEF Owes, TaskAt
  <2>7. Recorded(GetTaskHistory(i))' = old
    BY <1>1, <2>5, SameHistory
  <2>8. TasksRecorded'
    <3>1. \A j \in DOMAIN tasks : /\ Recorded(GetTaskHistory(j)) = tasks[j].status
                                  /\ tasks[j].active \/ DeletionTold(j)
      BY <2>1, <2>4 DEF TasksRecorded
    <3>2. \A j \in DOMAIN tasks \ {i} : /\ Recorded(GetTaskHistory(j))' = tasks'[j].status
                                        /\ tasks'[j].active \/ DeletionTold(j)'
      BY <1>1, <1>8, <3>1, SameHistory
    <3>3. u.active \/ DeletionTold(i)'
      BY <1>1, <1>3, <1>6, <3>1, SameHistory
    <3>4. /\ Recorded(GetTaskHistory(i))' = tasks'[i].status \/ \E f \in Editors : Owes(f, i)'
          /\ tasks'[i].active \/ DeletionTold(i)'
      BY <1>8, <2>6, <2>7, <3>3
    <3>5. \A j \in DOMAIN tasks :
              /\ Recorded(GetTaskHistory(j))' = tasks'[j].status \/ \E f \in Editors : Owes(f, j)'
              /\ tasks'[j].active \/ DeletionTold(j)'
      BY SMTT(30), <3>2, <3>4
    <3>6. QED
      BY <1>8, <3>5 DEF TasksRecorded
  <2>9. CallKnows(e)'
    BY <1>6, <1>8, <1>9, <1>11, <2>5, <2>7 DEF CallKnows
  <2>10. QED
    BY <2>2, <2>3, <2>8, <2>9, OrderOfTasks
<1>14. QED
    BY <1>12, <1>13 DEF BoardInv

\* A row of the history is written.
LEMMA RowWritten ==
    ASSUME BoardInv, NEW e \in Editors, TaskAt(e, "history"), taskCall[e].owed # <<>>,
           history' = Append(history, Head(taskCall[e].owed)), Len(history) < MaxHistory,
           taskCall' = [taskCall EXCEPT ![e].owed = Tail(@)], UNCHANGED <<tasks, tasksApart>>
    PROVE  BoardInv'
<1> PICK c, d, i, r, n : /\ c = taskCall[e] /\ d = taskCall'[e] /\ i = c.task /\ r = Head(c.owed)
                         /\ n = Len(history) + 1
    OBVIOUS
<1>1. /\ taskCall \in [Editors -> TaskCall] /\ c \in TaskCall /\ CallHolds(c)
      /\ tasksApart => TasksOf(e) /\ BoardInOrder /\ CallKnows(e)
    BY TaskInFlight DEF TaskAt
<1>2. c.pc = "history" /\ c.owed \in Seq(HistoryRow) /\ c.owed # <<>>
    BY <1>1 DEF TaskAt, TaskCall
<1>3. r \in HistoryRow /\ r = c.owed[1] /\ Tail(c.owed) \in Seq(HistoryRow)
      /\ \A k \in DOMAIN Tail(c.owed) : k + 1 \in DOMAIN c.owed /\ Tail(c.owed)[k] = c.owed[k + 1]
    BY <1>2
<1>4. /\ d \in TaskCall /\ taskCall' = [taskCall EXCEPT ![e] = d]
      /\ d.pc = "history" /\ d.task = i /\ d.removes = c.removes /\ d.owed = Tail(c.owed)
  <2>1. d = [c EXCEPT !.owed = Tail(c.owed)] /\ taskCall' = [taskCall EXCEPT ![e] = d]
    BY <1>1
  <2>2. QED
    BY <1>1, <1>2, <1>3, <2>1 DEF TaskCall
<1>5. i \in DOMAIN tasks /\ r.task = i /\ \A k \in DOMAIN d.owed : d.owed[k].task = i
    BY <1>1, <1>2, <1>3, <1>4 DEF CallHolds
<1>6. CallHolds(d)'
    BY <1>4, <1>5 DEF CallHolds
<1>7. /\ taskCall' \in [Editors -> TaskCall] /\ taskCall'[e] = d
      /\ \A f \in Editors \ {e} : taskCall'[f] = taskCall[f]
      /\ \A f \in Editors : CallHolds(taskCall[f])'
    BY <1>4, <1>6, CallMoves DEF BoardInv
<1>8. /\ history \in Seq(HistoryRow) /\ history' \in Seq(HistoryRow) /\ Len(history') <= MaxHistory
      /\ DOMAIN history = 1 .. n - 1 /\ DOMAIN history' = 1 .. n /\ history'[n] = r /\ n \in Nat
      /\ \A k \in 1 .. n - 1 : history'[k] = history[k]
  <2>1. history \in Seq(HistoryRow) /\ MaxHistory \in Nat
    BY BoardBounds DEF BoardInv, BoardTypeInv, BoardTypeOK
  <2>2. QED
    BY <1>3, <2>1
<1>9. BoardTypeInv'
    BY <1>7, <1>8 DEF BoardInv, BoardTypeInv, BoardTypeOK
<1>10. ASSUME tasksApart' PROVE BoardInOrder'
  <2>1. TasksOf(e) /\ RowsReplay /\ TasksRecorded /\ CallKnows(e)
    BY <1>1, <1>10 DEF BoardInOrder
  <2>2. TasksOf(e)'
    BY <1>7, <2>1 DEF TasksOf
  <2>3. /\ Len(c.owed) = 1 /\ r.old = Recorded(GetTaskHistory(i))
        /\ tasks[i].status = IF r.new = Unset THEN r.old ELSE r.new
        /\ c.removes => r.action = "delete"
    BY <1>2, <1>3, <2>1 DEF CallKnows
  <2>4. d.owed = <<>>
    <3>1. PICK q : q = c.owed
      OBVIOUS
    <3>2. q \in Seq(HistoryRow) /\ Len(q) = 1
      BY <1>2, <2>3, <3>1
    <3>3. Tail(q) = <<>>
      <4>1. Tail(q) \in Seq(HistoryRow) /\ Len(Tail(q)) = 0
        BY SMTT(30), <3>2
      <4>2. QED
        BY <4>1, EmptySeq
    <3>4. QED
      BY <1>4, <3>1, <3>3
  <2>5. /\ \A j \in Nat : j # r.task => Recorded(GetTaskHistory(j))' = Recorded(GetTaskHistory(j))
        /\ Recorded(GetTaskHistory(r.task))' =
              IF r.new = Unset THEN Recorded(GetTaskHistory(r.task)) ELSE r.new
        /\ \A k \in DOMAIN history :
              Recorded(Earlier(history[k].task, k))' = Recorded(Earlier(history[k].task, k))
        /\ Recorded(Earlier(r.task, Len(history)))' = Recorded(GetTaskHistory(r.task))
        /\ \A j \in Nat : DeletionTold(j) => DeletionTold(j)'
        /\ r.action = "delete" => DeletionTold(r.task)'
    BY <1>3, RowAdded DEF BoardInv, BoardTypeInv
  <2>6. RowsReplay'
    <3>1. ASSUME NEW k \in 1 .. n - 1
          PROVE  history'[k].task \in DOMAIN tasks /\ history'[k].old = Recorded(Earlier(history[k].task, k))'
      BY <1>8, <2>1, <2>5 DEF RowsReplay
    <3>2. history'[n].task \in DOMAIN tasks /\ history'[n].old = Recorded(Earlier(history[n].task, n))'
      <4>1. Len(history') = n
        BY <1>8
      <4>2. Earlier(history[n].task, n)' = Earlier(r.task, Len(history))'
        BY <1>8, <4>1 DEF Earlier
      <4>3. Recorded(Earlier(history[n].task, n))' = Recorded(Earlier(r.task, Len(history)))'
        BY <4>2 DEF Recorded
      <4>4. QED
        BY <1>5, <1>8, <2>3, <2>5, <4>3
    <3>3. \A k \in 1 .. n : k = n \/ k \in 1 .. n - 1
      BY <1>8
    <3>4. QED
      BY <1>8, <3>1, <3>2, <3>3 DEF RowsReplay
  <2>7. \A f \in Editors : \A j : j # i => ~Owes(f, j)
    BY <2>1 DEF TasksOf, Owes, TaskAt
  <2>8. TasksRecorded'
    <3>1. Recorded(GetTaskHistory(i))' = tasks[i].status
      BY <1>5, <2>3, <2>5
    <3>2. DOMAIN tasks \subseteq Nat
      BY DEF BoardInv, BoardTypeInv, BoardTypeOK
    <3>3. \A j \in DOMAIN tasks : tasks[j].active \/ DeletionTold(j)'
      BY <2>1, <2>5, <3>2 DEF TasksRecorded
    <3>4. \A j \in DOMAIN tasks \ {i} : Recorded(GetTaskHistory(j))' = tasks[j].status
      BY <1>5, <2>1, <2>5, <2>7, <3>2 DEF TasksRecorded
    <3>5. QED
      BY <3>1, <3>3, <3>4 DEF TasksRecorded
  <2>9. CallKnows(e)'
    BY <1>4, <1>5, <1>7, <2>3, <2>4, <2>5 DEF CallKnows
  <2>10. QED
    BY <2>2, <2>6, <2>8, <2>9, OrderOfTasks
<1>11. QED
    BY <1>9, <1>10 DEF BoardInv

\* A call that ends.
LEMMA TaskCallEnds ==
    ASSUME BoardInv, NEW e \in Editors, ~TaskAt(e, "idle"), UNCHANGED <<tasks, history>>,
           TaskDone(e), tasksApart' \in BOOLEAN, tasksApart' => tasksApart,
           \A i : tasksApart' => ~Owes(e, i)
    PROVE  BoardInv'
<1>1. taskCall' = [taskCall EXCEPT ![e] = NoTaskCall] /\ taskCall \in [Editors -> TaskCall]
    BY DEF TaskDone, BoardInv, BoardTypeInv, BoardTypeOK
<1> PICK c : c = NoTaskCall
    OBVIOUS
<1>2. c \in TaskCall /\ CallHolds(c)' /\ taskCall'[e] = c
    BY <1>1, NoTaskCallTyped DEF CallHolds
<1>3. CallKnows(e)'
    BY <1>2, NoTaskCallTyped DEF CallKnows
<1>4. QED
    BY <1>1, <1>2, <1>3, TaskCallGoesOn

LEMMA SaveHistoryKept ==
    ASSUME BoardInv, NEW e \in Editors, SaveTaskHistory(e)
    PROVE  BoardInv'
<1>1. TaskAt(e, "history") /\ UNCHANGED <<tasks, tasksApart>> /\ ~TaskAt(e, "idle")
    BY DEF SaveTaskHistory, SameTasks, TaskAt
<1>2. tasksApart \in BOOLEAN
    BY DEF BoardInv, BoardTypeInv, BoardTypeOK
<1>3. CASE taskCall[e].owed # <<>>
    BY <1>1, <1>3, RowWritten DEF SaveTaskHistory
<1>4. CASE taskCall[e].owed = <<>> /\ ~taskCall[e].removes
  <2>1. TaskDone(e) /\ history' = history
    BY <1>4 DEF SaveTaskHistory
  <2>2. \A i : ~Owes(e, i)
    BY <1>4 DEF Owes
  <2>3. QED
    BY <1>1, <1>2, <2>1, <2>2, TaskCallEnds
<1>5. CASE taskCall[e].owed = <<>> /\ taskCall[e].removes
  <2>1. TaskGoto(e, "remove") /\ history' = history
    BY <1>5 DEF SaveTaskHistory
  <2>2. /\ taskCall \in [Editors -> TaskCall] /\ taskCall[e] \in TaskCall /\ CallHolds(taskCall[e])
        /\ tasksApart => TasksOf(e) /\ BoardInOrder /\ CallKnows(e)
    BY <1>1, TaskInFlight
  <2> PICK c : c = taskCall'[e]
    OBVIOUS
  <2>3. /\ c \in TaskCall /\ taskCall' = [taskCall EXCEPT ![e] = c]
        /\ c.pc = "remove" /\ c.task = taskCall[e].task /\ c.owed = <<>>
    BY <1>5, <2>1, <2>2 DEF TaskGoto, TaskCall
  <2>4. CallHolds(c)'
    BY <1>1, <2>2, <2>3 DEF CallHolds, TaskAt
  <2>5. tasksApart' => CallKnows(e)'
    BY <1>1, <1>5, <2>1, <2>2, <2>3, SameHistory DEF CallKnows, TaskAt
  <2>6. \A i : ~Owes(e, i)
    BY <1>5 DEF Owes
  <2>7. QED
    BY <1>1, <1>2, <2>1, <2>3, <2>4, <2>5, <2>6, TaskCallGoesOn
<1>6. QED
    BY <1>3, <1>4, <1>5

LEMMA TaskDies ==
    ASSUME BoardInv, NEW e \in Editors, TaskCallDies(e)
    PROVE  BoardInv'
<1>1. /\ taskCall[e] # NoTaskCall /\ TaskDone(e) /\ UNCHANGED <<tasks, history>>
      /\ tasksApart' = (tasksApart /\ ~TaskAt(e, "history"))
    BY DEF TaskCallDies
<1>2. ~TaskAt(e, "idle") /\ tasksApart \in BOOLEAN
    BY <1>1 DEF BoardInv, BoardTypeInv, BoardTypeOK, CallHolds, TaskAt
<1>3. tasksApart' \in BOOLEAN /\ (tasksApart' => tasksApart) /\ \A i : tasksApart' => ~Owes(e, i)
    BY <1>1, <1>2 DEF Owes
<1>4. QED
    BY <1>1, <1>2, <1>3, TaskCallEnds

LEMMA RemoveTaskKept ==
    ASSUME BoardInv, NEW e \in Editors, RemoveTask(e)
    PROVE  BoardInv'
<1> PICK i, t : i = taskCall[e].task /\ t = tasks[i]
    OBVIOUS
<1>1. /\ TaskAt(e, "remove") /\ history' = history /\ tasksApart' = tasksApart
      /\ taskCall' = [taskCall EXCEPT ![e] = NoTaskCall]
      /\ tasks' = [tasks EXCEPT ![i].active = FALSE, ![i].age = 0]
    BY DEF RemoveTask, TaskDone, SameTasks
<1>2. /\ taskCall \in [Editors -> TaskCall] /\ taskCall[e] \in TaskCall /\ CallHolds(taskCall[e])
      /\ tasksApart => TasksOf(e) /\ BoardInOrder /\ CallKnows(e)
    BY <1>1, TaskInFlight DEF TaskAt
<1>3. i \in DOMAIN tasks
    BY <1>1, <1>2 DEF CallHolds, TaskAt
<1>4. tasks \in Seq(Task) /\ Len(tasks) <= MaxTasks /\ history \in Seq(HistoryRow)
    BY DEF BoardInv, BoardTypeInv, BoardTypeOK
<1>5. t \in Task /\ 0 \in 0 .. LockDays
    BY <1>3, <1>4, LockAssumption
<1> DEFINE u == [t EXCEPT !.active = FALSE, !.age = 0]
<1>6. u \in Task /\ u.status = t.status
    BY <1>5 DEF Task
<1>7. tasks' = [tasks EXCEPT ![i] = u]
    BY <1>1, <1>3, <1>4
<1> HIDE DEF u
<1>8. /\ tasks' \in Seq(Task) /\ Len(tasks') = Len(tasks) /\ DOMAIN tasks' = DOMAIN tasks
      /\ tasks'[i] = u /\ \A j \in DOMAIN tasks \ {i} : tasks'[j] = tasks[j]
    BY <1>3, <1>4, <1>6, <1>7
<1> PICK c : c = NoTaskCall
    OBVIOUS
<1>9. CallHolds(c)' /\ c \in TaskCall /\ c.pc = "idle"
    BY NoTaskCallTyped DEF CallHolds
<1>10. /\ taskCall' \in [Editors -> TaskCall] /\ taskCall'[e] = c
       /\ \A f \in Editors \ {e} : taskCall'[f] = taskCall[f]
       /\ \A f \in Editors : CallHolds(taskCall[f])'
    BY <1>1, <1>8, <1>9, CallMoves DEF BoardInv
<1>11. BoardTypeInv'
    BY <1>1, <1>4, <1>8, <1>10 DEF BoardInv, BoardTypeInv, BoardTypeOK
<1>12. ASSUME tasksApart' PROVE BoardInOrder'
  <2>1. TasksOf(e) /\ RowsReplay /\ TasksRecorded /\ DeletionTold(i)
    BY <1>1, <1>2, <1>12 DEF BoardInOrder, CallKnows, TaskAt
  <2>2. TasksOf(e)' /\ CallKnows(e)'
    BY <1>9, <1>10, <2>1 DEF TasksOf, CallKnows
  <2>3. RowsReplay'
    BY <1>1, <1>8, <2>1, SameHistory DEF RowsReplay
  <2>4. \A f \in Editors : \A j : ~Owes(f, j)
    BY <1>1, <2>1 DEF TasksOf, Owes, TaskAt
  <2>5. \A j \in DOMAIN tasks : /\ Recorded(GetTaskHistory(j)) = tasks[j].status
                                /\ tasks[j].active \/ DeletionTold(j)
    BY <2>1, <2>4 DEF TasksRecorded
  <2>6. \A j \in DOMAIN tasks \ {i} : /\ Recorded(GetTaskHistory(j))' = tasks'[j].status
                                      /\ tasks'[j].active \/ DeletionTold(j)'
    BY <1>1, <1>8, <2>5, SameHistory
  <2>7. Recorded(GetTaskHistory(i))' = tasks'[i].status /\ DeletionTold(i)'
    BY <1>1, <1>3, <1>6, <1>8, <2>1, <2>5, SameHistory
  <2>8. TasksRecorded'
    BY <1>8, <2>6, <2>7 DEF TasksRecorded
  <2>9. QED
    BY <2>2, <2>3, <2>8, OrderOfTasks
<1>13. QED
    BY <1>11, <1>12 DEF BoardInv

LEMMA DayPassesKept ==
    ASSUME BoardInv, DayPasses
    PROVE  BoardInv'
<1>1. PICK i \in DOMAIN tasks : /\ tasks[i].age < LockDays
                                /\ tasks' = [tasks EXCEPT ![i].age = @ + 1]
    BY DEF DayPasses
<1> PICK t : t = tasks[i]
    OBVIOUS
<1>2. history' = history /\ taskCall' = taskCall /\ tasksApart' = tasksApart
    BY DEF DayPasses
<1>3. tasks \in Seq(Task) /\ Len(tasks) <= MaxTasks /\ history \in Seq(HistoryRow)
    BY DEF BoardInv, BoardTypeInv, BoardTypeOK
<1>4. t \in Task /\ t.age + 1 \in 0 .. LockDays
  <2>1. t \in Task /\ t.age < LockDays /\ LockDays \in Nat
    BY <1>1, <1>3, LockAssumption
  <2>2. t.age \in 0 .. LockDays
    BY <2>1 DEF Task
  <2>3. QED
    BY <2>1, <2>2
<1> DEFINE u == [t EXCEPT !.age = t.age + 1]
<1>5. u \in Task /\ u.status = t.status /\ u.active = t.active
    BY <1>4 DEF Task
<1>6. tasks' = [tasks EXCEPT ![i] = u]
    BY <1>1, <1>3
<1> HIDE DEF u
<1>7. /\ tasks' \in Seq(Task) /\ Len(tasks') = Len(tasks) /\ DOMAIN tasks' = DOMAIN tasks
      /\ \A j \in DOMAIN tasks : tasks'[j].status = tasks[j].status /\ tasks'[j].active = tasks[j].active
    BY <1>3, <1>5, <1>6
<1>8. \A e \in Editors : CallHolds(taskCall[e])'
    BY <1>2, <1>7 DEF BoardInv, BoardTypeInv, CallHolds
<1>9. BoardTypeInv'
    BY <1>2, <1>3, <1>7, <1>8 DEF BoardInv, BoardTypeInv, BoardTypeOK
<1>10. ASSUME tasksApart' PROVE BoardInOrder'
  <2>1. BoardInOrder /\ \A e \in Editors : CallHolds(taskCall[e])
    BY <1>2, <1>10 DEF BoardInv, BoardTypeInv
  <2>2. \A e \in Editors : CallKnows(e)'
    BY <1>2, <1>7, <2>1, SameHistory DEF BoardInOrder, CallKnows, CallHolds
  <2>3. \A e \in Editors : TaskAt(e, "idle")' \/ TasksOf(e)'
    BY <1>2, <2>1 DEF BoardInOrder, TaskAt, TasksOf
  <2>4. RowsReplay'
    BY <1>2, <1>7, <2>1, SameHistory DEF BoardInOrder, RowsReplay
  <2>5. \A e \in Editors : \A j : Owes(e, j)' <=> Owes(e, j)
    BY <1>2 DEF Owes, TaskAt
  <2>6. TasksRecorded'
    BY <1>2, <1>7, <2>1, <2>5, SameHistory DEF BoardInOrder, TasksRecorded
  <2>7. QED
    BY <2>2, <2>3, <2>4, <2>6 DEF BoardInOrder
<1>11. QED
    BY <1>9, <1>10 DEF BoardInv

LEMMA BoardStutters ==
    ASSUME BoardInv, UNCHANGED boardVars
    PROVE  BoardInv'
<1>1. tasks' = tasks /\ history' = history /\ taskCall' = taskCall /\ tasksApart' = tasksApart
    BY DEF boardVars
<1>2. BoardTypeInv'
    BY <1>1 DEF BoardInv, BoardTypeInv, BoardTypeOK, CallHolds
<1>3. BoardInOrder <=> BoardInOrder'
    BY <1>1, SameHistory DEF BoardInOrder, CallKnows, RowsReplay, TasksRecorded, Owes, TaskAt, TasksOf
<1>4. QED
    BY <1>1, <1>2, <1>3 DEF BoardInv

LEMMA BoardBegins == BoardInit => BoardInv
<1> SUFFICES ASSUME BoardInit PROVE BoardInv
    OBVIOUS
<1>1. /\ tasks = <<>> /\ history = <<>> /\ tasksApart = TRUE
      /\ \A e \in Editors : taskCall[e] = NoTaskCall
      /\ taskCall \in [Editors -> TaskCall]
    BY NoTaskCallTyped DEF BoardInit
<1>2. /\ tasks \in Seq(Task) /\ Len(tasks) = 0 /\ history \in Seq(HistoryRow) /\ Len(history) = 0
      /\ MaxTasks \in Nat /\ MaxHistory \in Nat /\ DOMAIN tasks = {} /\ DOMAIN history = {}
    BY <1>1, BoardBounds
<1>3. BoardTypeInv
    BY <1>1, <1>2, NoTaskCallTyped DEF BoardTypeInv, BoardTypeOK, CallHolds
<1>4. BoardInOrder
    BY <1>1, <1>2, NoTaskCallTyped DEF BoardInOrder, CallKnows, RowsReplay, TasksRecorded, TasksOf, TaskAt
<1>5. QED
    BY <1>3, <1>4 DEF BoardInv

-----------------------------------------------------------------------------
(* Board: the theorems *)

\* Whatever interleaves or dies, a call names a task that is there and owes rows
\* about that one; calls that do not overlap owe exactly the row that leads from
\* what is recorded to the status written (TaskService).
THEOREM BoardInductive == BoardSpec => []BoardInv
<1>1. BoardInv /\ [BoardNext]_boardVars => BoardInv'
  <2> SUFFICES ASSUME BoardInv, [BoardNext]_boardVars PROVE BoardInv'
    OBVIOUS
  <2>1. CASE UNCHANGED boardVars
    BY <2>1, BoardStutters
  <2>2. CASE DayPasses
    BY <2>2, DayPassesKept
  <2>3. ASSUME NEW e \in Editors,
               \/ CreateTask(e) \/ InsertTask(e) \/ UpdateTask(e) \/ ValidateAssignee(e)
               \/ UpdateTaskStatus(e) \/ WriteTask(e) \/ SaveTaskHistory(e)
               \/ DeleteTask(e) \/ RemoveTask(e) \/ TaskCallDies(e)
        PROVE  BoardInv'
    BY <2>3, CreateKept, InsertTaskKept, UpdateTaskKept, ValidateTaskKept, WriteTaskKept,
       SaveHistoryKept, DeleteTaskKept, RemoveTaskKept, TaskDies
  <2>4. QED
    BY <2>1, <2>2, <2>3 DEF BoardNext
<1>2. QED
    BY BoardBegins, <1>1, PTL DEF BoardSpec

\* Tasks, history rows and calls keep their types.
THEOREM BoardTypes == BoardSpec => []BoardTypeOK
<1>1. BoardInv => BoardTypeOK
    BY DEF BoardInv, BoardTypeInv
<1>2. QED
    BY <1>1, BoardInductive, PTL

\* While calls do not overlap, and none died before its history was written,
\* each row of a history starts from the value the rows before it lead to, they
\* lead to the value the task has, and the statistics miss no task whose history
\* has no deletion (saveTaskHistory, getStatistics), for any number of tasks,
\* rows and callers.
THEOREM HistoryTells == BoardSpec => []HistoryReplays
<1>1. BoardInv => HistoryReplays
  <2> SUFFICES ASSUME BoardInv, tasksApart
               PROVE  /\ \A i \in DOMAIN tasks : \A k \in GetTaskHistory(i) :
                            history[k].old = Recorded({j \in GetTaskHistory(i) : j < k})
                      /\ (\A e \in Editors : taskCall[e] = NoTaskCall) =>
                            /\ \A i \in DOMAIN tasks : Recorded(GetTaskHistory(i)) = tasks[i].status
                            /\ \A s \in Statuses : Cardinality(RecordedAs(s)) <= GetStatistics[s]
    BY DEF HistoryReplays
  <2>1. RowsReplay /\ TasksRecorded
    BY DEF BoardInv, BoardInOrder
  <2>2. \A i \in DOMAIN tasks : \A k \in GetTaskHistory(i) :
            history[k].old = Recorded({j \in GetTaskHistory(i) : j < k})
    BY <2>1 DEF RowsReplay, GetTaskHistory, Earlier
  <2>3. ASSUME \A e \in Editors : taskCall[e] = NoTaskCall
        PROVE  /\ \A i \in DOMAIN tasks : Recorded(GetTaskHistory(i)) = tasks[i].status
               /\ \A s \in Statuses : Cardinality(RecordedAs(s)) <= GetStatistics[s]
    <3>1. \A e \in Editors : \A i : ~Owes(e, i)
      BY <2>3, NoTaskCallTyped DEF Owes, TaskAt
    <3>2. \A i \in DOMAIN tasks : Recorded(GetTaskHistory(i)) = tasks[i].status
      BY <2>1, <3>1 DEF TasksRecorded
    <3>3. ASSUME NEW s \in Statuses
          PROVE  Cardinality(RecordedAs(s)) <= GetStatistics[s]
      <4>1. RecordedAs(s) \subseteq FindByGroup({s})
        BY <2>1, <3>2 DEF RecordedAs, FindByGroup, TasksRecorded, DeletionTold
      <4>2. IsFiniteSet(FindByGroup({s}))
        <5>1. tasks \in Seq(Task)
          BY DEF BoardInv, BoardTypeInv, BoardTypeOK
        <5>2. FindByGroup({s}) \subseteq 1 .. Len(tasks) /\ IsFiniteSet(1 .. Len(tasks))
          BY <5>1, FS_Interval DEF FindByGroup
        <5>3. QED
          BY <5>2, FS_Subset
      <4>3. GetStatistics[s] = Cardinality(FindByGroup({s}))
        BY <3>3 DEF GetStatistics
      <4>4. QED
        BY <4>1, <4>2, <4>3, FS_Subset
    <3>4. QED
      BY <3>2, <3>3
  <2>4. QED
    BY <2>2, <2>3
<1>2. QED
    BY <1>1, BoardInductive, PTL

-----------------------------------------------------------------------------
(* Languages: the inductive invariant *)

\* What a call holds, by the statement it is at.
EntryCallTyped(e) ==
    /\ e.pc \in {"last", "insert", "duplicate", "siblings"} => e.tongue \in Tongues
    /\ e.pc = "insert" => e.place \in Nat \ {0}
    /\ e.pc \in {"duplicate", "siblings", "save"} => e.entry \in EntryIds
    /\ \A i \in Named(e.rows) : e.rows[i] \in Entry
    /\ e.pc = "idle" => e = NoEntryCall

LanguagesTypeInv == LanguagesTypeOK /\ \A c \in Profilers : EntryCallTyped(edit[c])

\* No two of the rows have one language or one place.
Distinct(rows) ==
    \A i, j \in Named(rows) :
        i # j => rows[i].tongue # rows[j].tongue /\ rows[i].place # rows[j].place

\* So do the rows to save and the new ones, together.
Numbered(rows, new) ==
    /\ Distinct(rows) /\ Distinct(new)
    /\ \A i \in Named(rows), k \in DOMAIN new :
          rows[i].tongue # new[k].tongue /\ rows[i].place # new[k].place

\* What a call on its own has found in the table.
EditKnows(e) ==
    /\ e.pc \in {"last", "insert"} => ~Has(e.tongue)
    /\ e.pc = "insert" => \A i \in Held : entries[i].place < e.place
    /\ e.pc \in {"duplicate", "siblings"} => e.entry \in Held
    /\ e.pc = "duplicate" =>
          e.rows = [NoRows EXCEPT ![e.entry] = [entries[e.entry] EXCEPT !.tongue = e.tongue]]
    /\ e.pc = "siblings" => \A i \in Held \ {e.entry} : entries[i].tongue # e.tongue
    /\ e.pc = "save" => Distinct(WithSaved(e.rows))
    /\ e.pc \in {"clear", "leave", "saveUser"} => Numbered(e.rows, e.new)

\* No call but c is in flight.
EditsOf(c) == \A d \in Profilers \ {c} : edit[d].pc = "idle"

EditsInOrder ==
    /\ Distinct(entries)
    /\ \A c \in Profilers : EditAt(c, "idle") \/ EditsOf(c)
    /\ \A c \in Profilers : EditKnows(edit[c])

LanguagesInv == LanguagesTypeInv /\ (languagesApart => EditsInOrder)

-----------------------------------------------------------------------------
(* Languages: the calls *)

LEMMA NoEntryCallTyped ==
    /\ NoEntryCall \in EntryCall /\ EntryCallTyped(NoEntryCall) /\ EditKnows(NoEntryCall)
    /\ NoEntryCall.pc = "idle" /\ NoEntryCall.rows = NoRows /\ NoEntryCall.new = <<>>
    /\ Named(NoRows) = {} /\ NoRows \in [EntryIds -> EntryRow]
<1>1. NoRows \in [EntryIds -> EntryRow] /\ Named(NoRows) = {}
    BY DEF NoRows, EntryRow, GoneEntry, Named
<1>2. <<>> \in Lists
  <2>1. Cardinality(Tongues) \in Nat
    BY TonguesAssumption, FS_CardinalityType
  <2>2. <<>> \in [1 .. 0 -> Tongues] /\ 0 \in 0 .. Cardinality(Tongues) /\ DOMAIN <<>> = {}
    BY <2>1
  <2>3. QED
    BY <2>2 DEF Lists
<1>3. 0 \in 0 .. MaxEntries /\ <<>> \in Seq(Entry)
    BY LanguageBounds
<1>4. NoEntryCall \in EntryCall
    BY <1>1, <1>2, <1>3 DEF NoEntryCall, EntryCall, SameTongue, SamePlace
<1>5. QED
    BY <1>1, <1>4 DEF NoEntryCall, EntryCallTyped, EditKnows

LEMMA EntryNotGone ==
    ASSUME NEW r \in Entry
    PROVE  r # GoneEntry /\ r \in EntryRow
<1>1. r.place # 0 /\ GoneEntry.place = 0
    BY DEF Entry, GoneEntry
<1>2. r \in EntryRow
    BY DEF Entry, EntryRow
<1>3. QED
    BY <1>1, <1>2

\* The rows of the table: entries, or gone.
LEMMA EntriesTyped ==
    ASSUME LanguagesInv
    PROVE  /\ entries \in Seq(EntryRow) /\ Len(entries) \in Nat /\ DOMAIN entries = 1 .. Len(entries)
           /\ Held \subseteq DOMAIN entries /\ DOMAIN entries \subseteq EntryIds /\ IsFiniteSet(Held)
           /\ \A i \in Held : entries[i] \in Entry
           /\ \A i \in DOMAIN entries \ Held : entries[i] = GoneEntry
<1>1. /\ entries \in Seq(EntryRow) /\ Len(entries) <= MaxEntries /\ MaxEntries \in Nat
      /\ \A i \in Held : entries[i] \in Entry
    BY LanguageBounds DEF LanguagesInv, LanguagesTypeInv, LanguagesTypeOK
<1>2. DOMAIN entries = 1 .. Len(entries) /\ Len(entries) \in Nat
    BY <1>1
<1>3. DOMAIN entries \subseteq EntryIds
    BY <1>1, <1>2 DEF EntryIds
<1>4. Held \subseteq DOMAIN entries /\ \A i \in DOMAIN entries \ Held : entries[i] = GoneEntry
    BY DEF Held, Named
<1>5. IsFiniteSet(Held)
  <2>1. IsFiniteSet(1 .. Len(entries)) /\ Held \subseteq 1 .. Len(entries)
    BY <1>2, <1>4, FS_Interval
  <2>2. QED
    BY <2>1, FS_Subset
<1>6. QED
    BY <1>1, <1>2, <1>3, <1>4, <1>5

\* One call moves.
LEMMA EditMoves ==
    ASSUME LanguagesTypeInv, NEW c \in Profilers, NEW e \in EntryCall,
           edit' = [edit EXCEPT ![c] = e], EntryCallTyped(e)
    PROVE  /\ edit' \in [Profilers -> EntryCall] /\ edit'[c] = e
           /\ \A d \in Profilers \ {c} : edit'[d] = edit[d]
           /\ \A d \in Profilers : EntryCallTyped(edit'[d])
    BY DEF LanguagesTypeInv, LanguagesTypeOK

LEMMA OrderOfEdits ==
    ASSUME LanguagesTypeInv', NEW c \in Profilers, EditsOf(c)', Distinct(entries)', EditKnows(edit[c])'
    PROVE  EditsInOrder'
<1>1. ASSUME NEW d \in Profilers \ {c} PROVE EditKnows(edit[d])'
    BY DEF EditsOf, EditKnows
<1>2. \A d \in Profilers : EditAt(d, "idle")' \/ EditsOf(d)'
    BY DEF EditsOf, EditAt
<1>3. QED
    BY <1>1, <1>2 DEF EditsInOrder

\* What a step of one call that leaves the table has to establish.
LEMMA EditOnly ==
    ASSUME LanguagesInv, NEW c \in Profilers, NEW e \in EntryCall, entries' = entries,
           edit' = [edit EXCEPT ![c] = e], EntryCallTyped(e), languagesApart' \in BOOLEAN,
           languagesApart' => languagesApart /\ EditsOf(c) /\ EditKnows(e)
    PROVE  LanguagesInv'
<1>1. /\ edit' \in [Profilers -> EntryCall] /\ edit'[c] = e
      /\ \A d \in Profilers \ {c} : edit'[d] = edit[d]
      /\ \A d \in Profilers : EntryCallTyped(edit'[d])
    BY EditMoves DEF LanguagesInv
<1>2. Held' = Held
    BY DEF Held
<1>3. LanguagesTypeInv'
    BY <1>1, <1>2 DEF LanguagesInv, LanguagesTypeInv, LanguagesTypeOK
<1>4. ASSUME languagesApart' PROVE EditsInOrder'
  <2>1. EditsOf(c)' /\ Distinct(entries)'
    BY <1>1, <1>4 DEF EditsOf, LanguagesInv, EditsInOrder
  <2>2. EditKnows(edit[c])'
    <3>1. EditKnows(e)
      BY <1>4
    <3>2. WithSaved(e.rows)' = WithSaved(e.rows) /\ Has(e.tongue)' = Has(e.tongue)
      BY <1>2 DEF WithSaved, Has
    <3>3. QED
      BY <1>1, <1>2, <3>1, <3>2 DEF EditKnows
  <2>3. QED
    BY <1>3, <2>1, <2>2, OrderOfEdits
<1>5. QED
    BY <1>3, <1>4 DEF LanguagesInv

\* A call that writes the table, and what it holds then.
LEMMA EditWrites ==
    ASSUME LanguagesInv, NEW c \in Profilers, NEW e \in EntryCall,
           edit' = [edit EXCEPT ![c] = e], EntryCallTyped(e), languagesApart' = languagesApart,
           entries' \in Seq(EntryRow), Len(entries') <= MaxEntries,
           \A i \in DOMAIN entries' : entries'[i] \in Entry \/ entries'[i] = GoneEntry,
           languagesApart => EditsOf(c) /\ Distinct(entries') /\ EditKnows(e)'
    PROVE  LanguagesInv'
<1>1. /\ edit' \in [Profilers -> EntryCall] /\ edit'[c] = e
      /\ \A d \in Profilers \ {c} : edit'[d] = edit[d]
      /\ \A d \in Profilers : EntryCallTyped(edit'[d])
    BY EditMoves DEF LanguagesInv
<1>2. \A i \in Held' : entries'[i] \in Entry
    BY DEF Held, Named
<1>3. LanguagesTypeInv'
    BY <1>1, <1>2 DEF LanguagesInv, LanguagesTypeInv, LanguagesTypeOK
<1>4. ASSUME languagesApart' PROVE EditsInOrder'
  <2>1. EditsOf(c)' /\ Distinct(entries)'
    BY <1>1, <1>4 DEF EditsOf
  <2>2. EditKnows(edit[c])'
    BY <1>1, <1>4
  <2>3. QED
    BY <1>3, <2>1, <2>2, OrderOfEdits
<1>5. QED
    BY <1>3, <1>4 DEF LanguagesInv

\* A call that begins alone, and one that is in flight.
LEMMA EditStartsAlone ==
    ASSUME LanguagesInv, NEW c \in Profilers, EditStarts(c)
    PROVE  /\ languagesApart' \in BOOLEAN
           /\ languagesApart' => languagesApart /\ EditsOf(c) /\ Distinct(entries)
<1>1. languagesApart' = (languagesApart /\ \A o \in Profilers : edit[o] = NoEntryCall)
    BY DEF EditStarts
<1>2. QED
    BY <1>1, NoEntryCallTyped DEF EditsOf, LanguagesInv, LanguagesTypeInv, LanguagesTypeOK, EditsInOrder

LEMMA EditInFlight ==
    ASSUME LanguagesInv, NEW c \in Profilers, ~EditAt(c, "idle")
    PROVE  /\ edit[c] \in EntryCall /\ EntryCallTyped(edit[c]) /\ languagesApart \in BOOLEAN
           /\ languagesApart => EditsOf(c) /\ Distinct(entries) /\ EditKnows(edit[c])
    BY DEF LanguagesInv, LanguagesTypeInv, LanguagesTypeOK, EditsInOrder

\* A call that ends and leaves the table.
LEMMA EditEnds ==
    ASSUME LanguagesInv, NEW c \in Profilers, ~EditAt(c, "idle"), EntryCallDone(c),
           UNCHANGED <<entries, languagesApart>>
    PROVE  LanguagesInv'
<1>1. edit' = [edit EXCEPT ![c] = NoEntryCall]
    BY DEF EntryCallDone
<1>2. languagesApart' \in BOOLEAN /\ (languagesApart' => languagesApart /\ EditsOf(c))
    BY EditInFlight
<1>3. QED
    BY <1>1, <1>2, NoEntryCallTyped, EditOnly

-----------------------------------------------------------------------------
(* Languages: UserLanguageCollectionService *)

LEMMA CreateEntryKept ==
    ASSUME LanguagesInv, NEW c \in Profilers, CreateEntry(c)
    PROVE  LanguagesInv'
<1>1. PICK t \in Tongues :
          /\ ~Has(t)
          /\ edit' = [edit EXCEPT ![c] = [NoEntryCall EXCEPT !.pc = "last", !.tongue = t]]
    BY DEF CreateEntry
<1> DEFINE e == [NoEntryCall EXCEPT !.pc = "last", !.tongue = t]
<1>2. e \in EntryCall /\ e.pc = "last" /\ e.tongue = t /\ e.rows = NoRows
    BY NoEntryCallTyped DEF EntryCall
<1>3. edit' = [edit EXCEPT ![c] = e] /\ EditStarts(c) /\ entries' = entries
    BY <1>1 DEF CreateEntry
<1> HIDE DEF e
<1>4. EntryCallTyped(e) /\ EditKnows(e)
    BY <1>1, <1>2, NoEntryCallTyped DEF EntryCallTyped, EditKnows
<1>5. QED
    BY <1>2, <1>3, <1>4, EditStartsAlone, EditOnly

LEMMA LastPlaceBounds ==
    ASSUME LanguagesInv
    PROVE  NextPlace \in Nat \ {0} /\ \A i \in Held : entries[i].place < NextPlace
<1> DEFINE S == {entries[i].place : i \in Held} \cup {0}
<1>1. \A k \in S : k \in Nat
    BY EntriesTyped DEF Entry
<1>2. IsFiniteSet({entries[i].place : i \in Held})
  <2> DEFINE T == {entries[i].place : i \in Held}
             f == [i \in Held |-> entries[i].place]
  <2>1. f \in Surjection(Held, T)
    BY DEF Surjection
  <2>2. QED
    BY <2>1, EntriesTyped, FS_Surjection
<1>3. IsFiniteSet(S)
    BY <1>2, FS_AddElement
<1> HIDE DEF S
<1>4. S # {} /\ \A k \in S : k \in Int
    BY <1>1 DEF S
<1>5. PICK n \in S : \A k \in S : k <= n
    BY <1>3, <1>4, Greatest DEF HasGreatest
<1>6. \A i \in Held : entries[i].place <= n
    BY <1>5 DEF S
<1>7. LastPlace \in S /\ \A i \in Held : entries[i].place <= LastPlace
    BY <1>5, <1>6 DEF LastPlace, S
<1>8. QED
    BY <1>1, <1>7, EntriesTyped DEF NextPlace, Entry

LEMMA LastEntryKept ==
    ASSUME LanguagesInv, NEW c \in Profilers, LastEntry(c)
    PROVE  LanguagesInv'
<1> PICK n, f, e : n = NextPlace /\ f = edit[c] /\ e = [f EXCEPT !.pc = "insert", !.place = n]
    OBVIOUS
<1>1. /\ EditAt(c, "last") /\ ~EditAt(c, "idle") /\ entries' = entries /\ languagesApart' = languagesApart
      /\ edit' = [edit EXCEPT ![c].pc = "insert", ![c].place = n]
    BY DEF LastEntry, SameEdits, EditAt
<1>2. /\ f \in EntryCall /\ EntryCallTyped(f) /\ languagesApart \in BOOLEAN
      /\ languagesApart => EditsOf(c) /\ Distinct(entries) /\ EditKnows(f)
    BY <1>1, EditInFlight
<1>3. n \in Nat \ {0} /\ \A i \in Held : entries[i].place < n
    BY LastPlaceBounds
<1>4. /\ e \in EntryCall /\ e.pc = "insert" /\ e.place = n /\ e.tongue = f.tongue /\ e.rows = f.rows
    BY <1>2, <1>3 DEF EntryCall
<1>5. edit' = [edit EXCEPT ![c] = e]
    BY <1>1, <1>2 DEF LanguagesInv, LanguagesTypeInv, LanguagesTypeOK, EntryCall
<1>6. EntryCallTyped(e) /\ (languagesApart => EditKnows(e))
    BY <1>1, <1>2, <1>3, <1>4 DEF EntryCallTyped, EditKnows, EditAt
<1>7. QED
    BY <1>1, <1>2, <1>4, <1>5, <1>6, EditOnly

LEMMA InsertEntryKept ==
    ASSUME LanguagesInv, NEW c \in Profilers, InsertEntry(c)
    PROVE  LanguagesInv'
<1> PICK f, n, r : f = edit[c] /\ n = Len(entries) + 1 /\ r = [tongue |-> f.tongue, place |-> f.place]
    OBVIOUS
<1>1. /\ EditAt(c, "insert") /\ ~EditAt(c, "idle") /\ Len(entries) < MaxEntries
      /\ entries' = Append(entries, r) /\ languagesApart' = languagesApart
      /\ edit' = [edit EXCEPT ![c] = NoEntryCall]
    BY DEF InsertEntry, SameEdits, EditAt, EntryCallDone
<1>2. /\ f \in EntryCall /\ EntryCallTyped(f) /\ languagesApart \in BOOLEAN
      /\ languagesApart => EditsOf(c) /\ Distinct(entries) /\ EditKnows(f)
    BY <1>1, EditInFlight
<1>3. r \in Entry
    BY <1>1, <1>2 DEF EntryCallTyped, EditAt, Entry
<1>4. r \in EntryRow /\ r # GoneEntry
    BY <1>3, EntryNotGone
<1>5. /\ entries' \in Seq(EntryRow) /\ Len(entries') <= MaxEntries
      /\ DOMAIN entries' = 1 .. n /\ entries'[n] = r /\ DOMAIN entries = 1 .. n - 1 /\ n \in Nat
      /\ \A i \in 1 .. n - 1 : entries'[i] = entries[i]
    BY <1>1, <1>4, EntriesTyped, LanguageBounds
<1>6. \A i \in DOMAIN entries' : entries'[i] \in Entry \/ entries'[i] = GoneEntry
    BY <1>3, <1>5, EntriesTyped
<1>7. ASSUME languagesApart PROVE Distinct(entries')
  <2>1. Named(entries') = Held \cup {n}
    BY <1>4, <1>5 DEF Held, Named
  <2>2. \A i \in Held : entries'[i] = entries[i] /\ entries[i].tongue # r.tongue /\ entries[i].place < r.place
    BY <1>1, <1>2, <1>5, <1>7, EntriesTyped DEF EditKnows, EditAt, Has
  <2>3. \A i \in Held : entries'[i].place # r.place
    BY <1>3, <2>2, EntriesTyped DEF Entry
  <2>4. Distinct(entries)
    BY <1>2, <1>7
  <2>5. QED
    BY <1>5, <2>1, <2>2, <2>3, <2>4 DEF Distinct, Held
<1>8. EditKnows(NoEntryCall)'
    BY NoEntryCallTyped DEF EditKnows
<1>9. QED
    BY <1>1, <1>2, <1>5, <1>6, <1>7, <1>8, NoEntryCallTyped, EditWrites

\* Writing rows of entries leaves a table of entries.
LEMMA SavedTyped ==
    ASSUME LanguagesInv, NEW rows \in [EntryIds -> EntryRow], \A i \in Named(rows) : rows[i] \in Entry
    PROVE  /\ WithSaved(rows) \in Seq(EntryRow) /\ Len(WithSaved(rows)) = Len(entries)
           /\ DOMAIN WithSaved(rows) = DOMAIN entries
           /\ \A i \in DOMAIN entries : /\ i \in Named(rows) => WithSaved(rows)[i] = rows[i]
                                        /\ i \notin Named(rows) => WithSaved(rows)[i] = entries[i]
           /\ \A i \in DOMAIN entries : WithSaved(rows)[i] \in Entry \/ WithSaved(rows)[i] = GoneEntry
           /\ Named(WithSaved(rows)) = Held \cup (Named(rows) \cap DOMAIN entries)
<1> DEFINE w == WithSaved(rows)
           n == Len(entries)
<1>1. /\ entries \in Seq(EntryRow) /\ n \in Nat /\ DOMAIN entries = 1 .. n
      /\ \A i \in Held : entries[i] \in Entry
      /\ \A i \in DOMAIN entries \ Held : entries[i] = GoneEntry
    BY EntriesTyped
<1>2. w = [i \in 1 .. n |-> IF i \in Named(rows) THEN rows[i] ELSE entries[i]]
    BY <1>1 DEF WithSaved
<1>3. \A i \in 1 .. n : entries[i] \in EntryRow
    BY <1>1
<1>4. \A i \in Named(rows) : rows[i] \in EntryRow /\ rows[i] # GoneEntry
    BY EntryNotGone
<1> HIDE DEF w
<1>5. w \in [1 .. n -> EntryRow]
    BY <1>2, <1>3, <1>4
<1>6. w \in Seq(EntryRow) /\ Len(w) = n
    BY <1>1, <1>5
<1>7. \A i \in 1 .. n : w[i] \in Entry \/ w[i] = GoneEntry
    BY <1>1, <1>2
<1>8. Named(w) = Held \cup (Named(rows) \cap 1 .. n)
    BY <1>1, <1>2, <1>4 DEF Named, Held
<1>9. QED
    BY <1>1, <1>2, <1>6, <1>7, <1>8 DEF w

LEMMA UpdateEntryKept ==
    ASSUME LanguagesInv, NEW c \in Profilers, UpdateEntry(c)
    PROVE  LanguagesInv'
<1>1. PICK i \in Held, t \in Tongues \cup {SameTongue}, p \in SamePlace .. MaxEntries + 1 :
        LET e == entries[i]
            renamed == [e EXCEPT !.tongue = IF t = SameTongue THEN @ ELSE t]
            next == IF p \in {SamePlace, e.place} THEN "save" ELSE "siblings"
        IN edit' = [edit EXCEPT ![c] =
               [NoEntryCall EXCEPT !.pc = IF renamed = e THEN next ELSE "duplicate",
                              !.entry = i, !.tongue = renamed.tongue, !.place = p,
                              !.rows[i] = renamed]]
    BY DEF UpdateEntry
<1> PICK r : r = entries[i]
    OBVIOUS
<1> DEFINE renamed == [r EXCEPT !.tongue = IF t = SameTongue THEN r.tongue ELSE t]
           pc == IF renamed = r THEN IF p \in {SamePlace, r.place} THEN "save" ELSE "siblings" ELSE "duplicate"
           rows == [NoRows EXCEPT ![i] = renamed]
           e == [NoEntryCall EXCEPT !.pc = pc, !.entry = i, !.tongue = renamed.tongue, !.place = p,
                                    !.rows = rows]
<1>2. EditStarts(c) /\ entries' = entries
    BY DEF UpdateEntry
<1>3. r \in Entry /\ i \in EntryIds /\ i \in DOMAIN entries /\ i \in 0 .. MaxEntries /\ p \in Nat \cup {SamePlace}
    BY EntriesTyped, LanguageBounds DEF EntryIds, SamePlace
<1>4. /\ renamed \in Entry /\ renamed.place = r.place /\ renamed.tongue \in Tongues
      /\ renamed = [r EXCEPT !.tongue = renamed.tongue]
    BY <1>3 DEF Entry, SameTongue
<1>5. renamed \in EntryRow /\ renamed # GoneEntry
    BY <1>4, EntryNotGone
<1>6. edit' = [edit EXCEPT ![c] = e]
    BY <1>1, NoEntryCallTyped DEF NoEntryCall
<1> HIDE DEF renamed
<1>7. rows \in [EntryIds -> EntryRow] /\ rows[i] = renamed /\ Named(rows) = {i}
      /\ \A k \in EntryIds \ {i} : rows[k] = GoneEntry
    BY <1>3, <1>5, NoEntryCallTyped DEF Named, NoRows
<1> HIDE DEF rows
<1>8. pc \in {"save", "siblings", "duplicate"}
    OBVIOUS
<1>9. /\ e \in EntryCall /\ e.pc = pc /\ e.entry = i /\ e.tongue = renamed.tongue /\ e.place = p
      /\ e.rows = rows
    BY <1>3, <1>4, <1>7, <1>8, NoEntryCallTyped DEF EntryCall
<1> HIDE DEF e
<1>10. EntryCallTyped(e)
    BY <1>3, <1>4, <1>7, <1>8, <1>9 DEF EntryCallTyped
<1>11. ASSUME Distinct(entries) PROVE EditKnows(e)
  <2>1. CASE pc = "duplicate"
    BY <1>4, <1>9, <2>1 DEF EditKnows, rows
  <2>2. CASE pc = "siblings"
    <3>1. e.tongue = r.tongue
      BY <1>9, <2>2 DEF pc
    <3>2. QED
      BY <1>9, <1>11, <2>2, <3>1 DEF EditKnows, Distinct, Held
  <2>3. CASE pc = "save"
    <3>1. renamed = r
      BY <2>3
    <3>2. \A k \in DOMAIN entries : WithSaved(rows)[k] = entries[k]
      BY <1>3, <1>7, <3>1 DEF WithSaved
    <3>3. Named(WithSaved(rows)) = Held
      BY <3>2 DEF Named, Held, WithSaved
    <3>4. Distinct(WithSaved(rows))
      BY <1>11, <3>2, <3>3 DEF Distinct, Held, Named
    <3>5. QED
      BY <1>9, <2>3, <3>4 DEF EditKnows
  <2>4. QED
    BY <1>8, <2>1, <2>2, <2>3
<1>12. QED
    BY <1>2, <1>6, <1>9, <1>10, <1>11, EditStartsAlone, EditOnly

\* The entry with another language, if nobody has that.
LEMMA RenamedDistinct ==
    ASSUME LanguagesInv, Distinct(entries), NEW i \in Held, NEW t \in Tongues, ~Has(t), NEW rows,
           rows = [NoRows EXCEPT ![i] = [entries[i] EXCEPT !.tongue = t]]
    PROVE  Distinct(WithSaved(rows))
<1> PICK r : r = [entries[i] EXCEPT !.tongue = t]
    OBVIOUS
<1>1. i \in EntryIds /\ i \in DOMAIN entries /\ entries[i] \in Entry
    BY EntriesTyped
<1>2. r \in Entry /\ r.tongue = t /\ r.place = entries[i].place
    BY <1>1 DEF Entry
<1>3. r \in EntryRow /\ r # GoneEntry
    BY <1>2, EntryNotGone
<1>4. rows \in [EntryIds -> EntryRow] /\ rows[i] = r /\ Named(rows) = {i}
    BY <1>1, <1>3, NoEntryCallTyped DEF Named, NoRows
<1>5. /\ \A k \in DOMAIN entries : /\ k \in Named(rows) => WithSaved(rows)[k] = rows[k]
                                   /\ k \notin Named(rows) => WithSaved(rows)[k] = entries[k]
      /\ Named(WithSaved(rows)) = Held \cup (Named(rows) \cap DOMAIN entries)
  <2>1. \A k \in Named(rows) : rows[k] \in Entry
    BY <1>2, <1>4
  <2>2. QED
    BY <1>4, <2>1, SavedTyped
<1> PICK w : w = WithSaved(rows)
    OBVIOUS
<1>6. Named(w) = Held
  <2>1. Held \cup ({i} \cap DOMAIN entries) = Held
    BY <1>1
  <2>2. QED
    BY <1>4, <1>5, <2>1
<1>7. w[i] = r /\ \A k \in Held \ {i} : w[k] = entries[k]
    BY <1>1, <1>4, <1>5, EntriesTyped
<1>8. \A k \in Held : entries[k].tongue # t
    BY DEF Has
<1>9. ASSUME NEW j \in Held, NEW k \in Held, j # k
      PROVE  w[j].tongue # w[k].tongue /\ w[j].place # w[k].place
  <2>1. entries[j].tongue # entries[k].tongue /\ entries[j].place # entries[k].place
    BY <1>9 DEF Distinct, Held
  <2>2. CASE j = i
    BY ZenonT(40), <1>2, <1>7, <1>8, <1>9, <2>1, <2>2
  <2>3. CASE k = i
    BY ZenonT(40), <1>2, <1>7, <1>8, <1>9, <2>1, <2>3
  <2>4. CASE j # i /\ k # i
    BY <1>7, <2>1, <2>4
  <2>5. QED
    BY <2>2, <2>3, <2>4
<1>10. QED
    BY ZenonT(40), <1>6, <1>9 DEF Distinct

LEMMA FindDuplicateKept ==
    ASSUME LanguagesInv, NEW c \in Profilers, FindDuplicate(c)
    PROVE  LanguagesInv'
<1> PICK f, e, pc : /\ f = edit[c] /\ e = [f EXCEPT !.pc = pc]
                    /\ pc = IF f.place \in {SamePlace, f.rows[f.entry].place} THEN "save" ELSE "siblings"
    OBVIOUS
<1>1. EditAt(c, "duplicate") /\ ~EditAt(c, "idle") /\ entries' = entries /\ languagesApart' = languagesApart
    BY DEF FindDuplicate, SameEdits, EditAt
<1>2. /\ f \in EntryCall /\ EntryCallTyped(f) /\ languagesApart \in BOOLEAN /\ f.pc = "duplicate"
      /\ languagesApart => EditsOf(c) /\ Distinct(entries) /\ EditKnows(f)
    BY <1>1, EditInFlight DEF EditAt
<1>3. CASE Has(f.tongue)
    BY <1>1, <1>3, EditEnds DEF FindDuplicate
<1>4. CASE ~Has(f.tongue)
  <2>1. edit' = [edit EXCEPT ![c] = e]
    BY <1>2, <1>4 DEF FindDuplicate, EditGoto
  <2>2. /\ e \in EntryCall /\ e.pc = pc /\ e.entry = f.entry /\ e.tongue = f.tongue /\ e.rows = f.rows
        /\ pc \in {"save", "siblings"}
    BY <1>2 DEF EntryCall
  <2>3. EntryCallTyped(e)
    BY <1>2, <2>2 DEF EntryCallTyped
  <2>4. ASSUME languagesApart PROVE EditKnows(e)
    <3>1. /\ f.entry \in Held
          /\ f.rows = [NoRows EXCEPT ![f.entry] = [entries[f.entry] EXCEPT !.tongue = f.tongue]]
      BY <1>2, <2>4 DEF EditKnows
    <3>2. f.tongue \in Tongues
      BY <1>2 DEF EntryCallTyped
    <3>3. Distinct(WithSaved(f.rows))
      BY <1>2, <1>4, <2>4, <3>1, <3>2, RenamedDistinct
    <3>4. QED
      BY <1>4, <2>2, <3>1, <3>3 DEF EditKnows, Has
  <2>5. QED
    BY <1>1, <1>2, <2>1, <2>2, <2>3, <2>4, EditOnly
<1>5. QED
    BY <1>3, <1>4

LEMMA SaveEntriesKept ==
    ASSUME LanguagesInv, NEW c \in Profilers, SaveEntries(c)
    PROVE  LanguagesInv'
<1> PICK f, w : f = edit[c] /\ w = WithSaved(f.rows)
    OBVIOUS
<1>1. /\ EditAt(c, "save") /\ ~EditAt(c, "idle") /\ entries' = w /\ languagesApart' = languagesApart
      /\ edit' = [edit EXCEPT ![c] = NoEntryCall]
    BY DEF SaveEntries, SameEdits, EditAt, EntryCallDone
<1>2. /\ f \in EntryCall /\ EntryCallTyped(f) /\ f.pc = "save"
      /\ languagesApart => EditsOf(c) /\ EditKnows(f)
    BY <1>1, EditInFlight DEF EditAt
<1>3. f.rows \in [EntryIds -> EntryRow] /\ \A i \in Named(f.rows) : f.rows[i] \in Entry
    BY <1>2 DEF EntryCall, EntryCallTyped
<1>4. /\ w \in Seq(EntryRow) /\ Len(w) = Len(entries) /\ DOMAIN w = DOMAIN entries
      /\ \A i \in DOMAIN entries : w[i] \in Entry \/ w[i] = GoneEntry
    BY <1>3, SavedTyped
<1>5. Len(entries) <= MaxEntries
    BY DEF LanguagesInv, LanguagesTypeInv, LanguagesTypeOK
<1>6. languagesApart => Distinct(w)
    BY <1>2 DEF EditKnows
<1>7. EditKnows(NoEntryCall)'
    BY NoEntryCallTyped DEF EditKnows
<1>8. QED
    BY <1>1, <1>2, <1>4, <1>5, <1>6, <1>7, NoEntryCallTyped, EditWrites

LEMMA DeleteEntryKept ==
    ASSUME LanguagesInv, NEW c \in Profilers, DeleteEntry(c)
    PROVE  LanguagesInv'
<1>1. PICK i \in Held : edit' = [edit EXCEPT ![c] = [NoEntryCall EXCEPT !.pc = "remove", !.leaving = {i}]]
    BY DEF DeleteEntry
<1> DEFINE e == [NoEntryCall EXCEPT !.pc = "remove", !.leaving = {i}]
<1>2. e \in EntryCall /\ e.pc = "remove" /\ e.rows = NoRows
    BY NoEntryCallTyped, EntriesTyped DEF EntryCall
<1>3. edit' = [edit EXCEPT ![c] = e] /\ EditStarts(c) /\ entries' = entries
    BY <1>1 DEF DeleteEntry
<1> HIDE DEF e
<1>4. EntryCallTyped(e) /\ EditKnows(e)
    BY <1>2, NoEntryCallTyped DEF EntryCallTyped, EditKnows
<1>5. QED
    BY <1>2, <1>3, <1>4, EditStartsAlone, EditOnly

\* Removing rows leaves a table of entries, and no two that clash.
LEMMA WithoutTyped ==
    ASSUME LanguagesInv, NEW ids
    PROVE  /\ Without(ids) \in Seq(EntryRow) /\ Len(Without(ids)) = Len(entries)
           /\ DOMAIN Without(ids) = DOMAIN entries
           /\ \A i \in DOMAIN entries : Without(ids)[i] \in Entry \/ Without(ids)[i] = GoneEntry
           /\ Distinct(entries) => Distinct(Without(ids))
<1> PICK n, w : n = Len(entries) /\ w = Without(ids)
    OBVIOUS
<1>1. /\ entries \in Seq(EntryRow) /\ n \in Nat /\ DOMAIN entries = 1 .. n
      /\ \A i \in Held : entries[i] \in Entry
      /\ \A i \in DOMAIN entries \ Held : entries[i] = GoneEntry
    BY EntriesTyped
<1>2. w = [i \in 1 .. n |-> IF i \in ids THEN GoneEntry ELSE entries[i]]
    BY <1>1 DEF Without
<1>3. GoneEntry \in EntryRow /\ \A i \in 1 .. n : entries[i] \in EntryRow
  <2>1. GoneEntry \in EntryRow
    BY DEF EntryRow, GoneEntry
  <2>2. QED
    BY <1>1, <2>1
<1>4. w \in [1 .. n -> EntryRow]
    BY <1>2, <1>3
<1>5. w \in Seq(EntryRow) /\ Len(w) = n /\ DOMAIN w = 1 .. n
    BY <1>1, <1>4
<1>6. \A i \in 1 .. n : w[i] \in Entry \/ w[i] = GoneEntry
    BY <1>1, <1>2
<1>7. \A i \in Named(w) : i \in Held /\ w[i] = entries[i]
    BY <1>1, <1>2 DEF Named, Held
<1>8. Distinct(entries) => Distinct(w)
    BY <1>7 DEF Distinct, Held
<1>9. QED
    BY <1>1, <1>5, <1>6, <1>8

LEMMA RemoveEntryKept ==
    ASSUME LanguagesInv, NEW c \in Profilers, RemoveEntry(c)
    PROVE  LanguagesInv'
<1> PICK w : w = Without(edit[c].leaving)
    OBVIOUS
<1>1. /\ EditAt(c, "remove") /\ ~EditAt(c, "idle") /\ entries' = w /\ languagesApart' = languagesApart
      /\ edit' = [edit EXCEPT ![c] = NoEntryCall]
    BY DEF RemoveEntry, SameEdits, EditAt, EntryCallDone
<1>2. languagesApart => EditsOf(c) /\ Distinct(entries)
    BY <1>1, EditInFlight
<1>3. /\ w \in Seq(EntryRow) /\ Len(w) = Len(entries) /\ DOMAIN w = DOMAIN entries
      /\ \A i \in DOMAIN entries : w[i] \in Entry \/ w[i] = GoneEntry
      /\ Distinct(entries) => Distinct(w)
    BY WithoutTyped
<1>4. Len(entries) <= MaxEntries
    BY DEF LanguagesInv, LanguagesTypeInv, LanguagesTypeOK
<1>5. EditKnows(NoEntryCall)'
    BY NoEntryCallTyped DEF EditKnows
<1>6. QED
    BY <1>1, <1>2, <1>3, <1>4, <1>5, NoEntryCallTyped, EditWrites

\* The entry that is moved and the others, in some order, numbered from 1.
LEMMA FindSiblingsKept ==
    ASSUME LanguagesInv, NEW c \in Profilers, FindSiblings(c)
    PROVE  LanguagesInv'
<1> PICK f, others, last :
        f = edit[c] /\ others = Held \ {f.entry} /\ last = Cardinality(others) + 1
    OBVIOUS
<1>1. /\ EditAt(c, "siblings") /\ ~EditAt(c, "idle") /\ entries' = entries /\ languagesApart' = languagesApart
    BY DEF FindSiblings, SameEdits, EditAt
<1>2. /\ f \in EntryCall /\ EntryCallTyped(f) /\ languagesApart \in BOOLEAN /\ f.pc = "siblings"
      /\ languagesApart => EditsOf(c) /\ Distinct(entries) /\ EditKnows(f)
    BY <1>1, EditInFlight DEF EditAt
<1>3. f.entry \in EntryIds /\ f.tongue \in Tongues
    BY <1>2 DEF EntryCallTyped
<1>4. PICK number \in [(Held \ {edit[c].entry}) \cup {edit[c].entry} ->
                              1 .. Cardinality(Held \ {edit[c].entry}) + 1] :
        /\ \A j, k \in DOMAIN number : number[j] = number[k] => j = k
        /\ edit' = [edit EXCEPT ![c].pc = "save",
                ![c].rows = [i \in EntryIds |->
                    IF i \notin DOMAIN number THEN GoneEntry
                    ELSE [tongue |-> IF i = edit[c].entry THEN edit[c].tongue ELSE entries[i].tongue,
                          place |-> number[i]]]]
    BY Zenon DEF FindSiblings
<1>n. number \in [others \cup {f.entry} -> 1 .. last]
    BY <1>4
<1> DEFINE row(i) == [tongue |-> IF i = f.entry THEN f.tongue ELSE entries[i].tongue, place |-> number[i]]
           rows == [i \in EntryIds |-> IF i \notin DOMAIN number THEN GoneEntry ELSE row(i)]
           e == [f EXCEPT !.pc = "save", !.rows = rows]
<1>5. edit' = [edit EXCEPT ![c] = e]
    BY <1>2, <1>4 DEF LanguagesInv, LanguagesTypeInv, LanguagesTypeOK, EntryCall
<1>6. IsFiniteSet(others) /\ last \in Nat
    BY EntriesTyped, FS_Subset, FS_CardinalityType
<1>7. DOMAIN number = others \cup {f.entry} /\ DOMAIN number \subseteq EntryIds
    BY <1>3, <1>n, EntriesTyped
<1>8. ASSUME NEW i \in DOMAIN number PROVE row(i) \in Entry
  <2>1. number[i] \in Nat \ {0}
    BY <1>6, <1>7, <1>8, <1>n
  <2>2. i # f.entry => entries[i].tongue \in Tongues
    BY <1>7, <1>8, EntriesTyped DEF Entry
  <2>3. QED
    BY <1>3, <2>1, <2>2 DEF Entry
<1>9. \A i \in DOMAIN number : row(i) \in EntryRow /\ row(i) # GoneEntry
    BY <1>8, EntryNotGone
<1>10. \A i \in DOMAIN number : rows[i] = row(i) /\ rows[i].place = number[i]
    BY <1>7
<1>11. rows \in [EntryIds -> EntryRow] /\ Named(rows) = DOMAIN number
  <2>1. GoneEntry \in EntryRow
    BY DEF GoneEntry, EntryRow
  <2>2. rows \in [EntryIds -> EntryRow]
    BY <1>9, <2>1
  <2>3. Named(rows) = DOMAIN number
    BY <1>7, <1>9 DEF Named
  <2>4. QED
    BY <2>2, <2>3
<1>12. \A i \in Named(rows) : rows[i] \in Entry
    BY <1>8, <1>10, <1>11
<1>13. ASSUME NEW i \in DOMAIN number
       PROVE  rows[i].tongue = IF i = f.entry THEN f.tongue ELSE entries[i].tongue
  <2>1. rows[i] = row(i)
    BY <1>10
  <2>2. QED
    BY <2>1
<1> HIDE DEF rows, row
<1>14. e \in EntryCall /\ e.pc = "save" /\ e.entry = f.entry /\ e.tongue = f.tongue /\ e.rows = rows
    BY <1>2, <1>11 DEF EntryCall
<1> HIDE DEF e
<1>15. EntryCallTyped(e)
    BY <1>3, <1>12, <1>14 DEF EntryCallTyped
<1>16. ASSUME languagesApart PROVE EditKnows(e)
  <2>1. f.entry \in Held /\ \A i \in others : entries[i].tongue # f.tongue
    BY <1>2, <1>16 DEF EditKnows
  <2>2. DOMAIN number = Held
    BY <1>7, <2>1
  <2>3. PICK w : w = WithSaved(rows)
    OBVIOUS
  <2>4. /\ \A i \in DOMAIN entries : i \in Named(rows) => w[i] = rows[i]
        /\ Named(w) = Held \cup (Named(rows) \cap DOMAIN entries)
    BY <1>11, <1>12, <2>3, SavedTyped
  <2>5. Held \cup (Held \cap DOMAIN entries) = Held
    OBVIOUS
  <2>6. Named(w) = Held /\ \A i \in Held : w[i] = rows[i]
    BY <1>11, <2>2, <2>4, <2>5, EntriesTyped
  <2>7. ASSUME NEW i \in Held, NEW j \in Held, i # j
        PROVE  w[i].tongue # w[j].tongue /\ w[i].place # w[j].place
    <3>1. rows[i].place # rows[j].place
      BY <1>4, <1>10, <2>2, <2>7
    <3>2. entries[i].tongue # entries[j].tongue
      BY <1>2, <1>16, <2>7 DEF Distinct, Held
    <3>3. rows[i].tongue # rows[j].tongue
      BY <1>13, <2>1, <2>2, <2>7, <3>2
    <3>4. QED
      BY <2>6, <3>1, <3>3
  <2>8. Distinct(WithSaved(rows))
    BY <2>3, <2>6, <2>7 DEF Distinct
  <2>9. QED
    BY <1>14, <2>8 DEF EditKnows
<1>17. QED
    BY <1>1, <1>2, <1>5, <1>14, <1>15, <1>16, EditOnly

-----------------------------------------------------------------------------
(* Languages: UserService.update *)

\* The entries as read.
LEMMA RowsAreEntries ==
    ASSUME LanguagesInv
    PROVE  /\ Rows \in [EntryIds -> EntryRow] /\ Named(Rows) = Held /\ \A i \in Held : Rows[i] = entries[i]
           /\ Distinct(entries) => Distinct(Rows)
<1>1. /\ Held \subseteq EntryIds /\ \A i \in Held : entries[i] \in Entry
    BY EntriesTyped
<1>2. GoneEntry \in EntryRow
    BY DEF EntryRow, GoneEntry
<1>3. \A i \in Held : entries[i] \in EntryRow /\ entries[i] # GoneEntry
    BY <1>1, EntryNotGone
<1>4. Rows \in [EntryIds -> EntryRow]
    BY <1>2, <1>3 DEF Rows
<1>5. Named(Rows) = {i \in EntryIds : Rows[i] # GoneEntry}
    BY <1>4 DEF Named
<1>6. \A i \in Held : Rows[i] = entries[i]
    BY <1>1 DEF Rows
<1>7. \A i \in EntryIds \ Held : Rows[i] = GoneEntry
    BY DEF Rows
<1>8. Named(Rows) = Held
    BY <1>1, <1>3, <1>5, <1>6, <1>7
<1>9. Distinct(entries) => Distinct(Rows)
    BY <1>6, <1>8 DEF Distinct, Held
<1>10. QED
    BY <1>4, <1>6, <1>8, <1>9

LEMMA NothingNew ==
    ASSUME NEW rows, Distinct(rows)
    PROVE  Numbered(rows, <<>>)
    BY DEF Numbered, Distinct, Named

LEMMA UpdateProfileKept ==
    ASSUME LanguagesInv, NEW c \in Profilers, UpdateProfile(c)
    PROVE  LanguagesInv'
<1> PICK rows : rows = Rows
    OBVIOUS
<1>1. EditStarts(c) /\ entries' = entries
    BY DEF UpdateProfile
<1>2. /\ rows \in [EntryIds -> EntryRow] /\ \A i \in Named(rows) : rows[i] \in Entry
      /\ Distinct(entries) => Distinct(rows)
    BY RowsAreEntries, EntriesTyped
<1>3. Distinct(NoRows)
    BY NoEntryCallTyped DEF Distinct
<1>4. CASE edit' = [edit EXCEPT ![c] = [NoEntryCall EXCEPT !.rows = rows, !.pc = "saveUser"]]
  <2> PICK e : e = [NoEntryCall EXCEPT !.rows = rows, !.pc = "saveUser"]
    OBVIOUS
  <2>1. e \in EntryCall /\ e.pc = "saveUser" /\ e.rows = rows /\ e.new = <<>>
    BY <1>2, NoEntryCallTyped DEF EntryCall
  <2>2. EntryCallTyped(e) /\ (Distinct(entries) => EditKnows(e))
    BY <1>2, <2>1, NothingNew DEF EntryCallTyped, EditKnows
  <2>3. QED
    BY <1>1, <1>4, <2>1, <2>2, EditStartsAlone, EditOnly
<1>5. ASSUME NEW pc \in {"saveUser", "clear"}, edit' = [edit EXCEPT ![c] = [NoEntryCall EXCEPT !.pc = pc]]
      PROVE  LanguagesInv'
  <2> PICK e : e = [NoEntryCall EXCEPT !.pc = pc]
    OBVIOUS
  <2>1. e \in EntryCall /\ e.pc = pc /\ e.rows = NoRows /\ e.new = <<>>
    BY <1>5, NoEntryCallTyped DEF EntryCall
  <2>2. EntryCallTyped(e) /\ EditKnows(e)
    BY <1>3, <1>5, <2>1, NothingNew, NoEntryCallTyped DEF EntryCallTyped, EditKnows
  <2>3. QED
    BY <1>1, <1>5, <2>1, <2>2, EditStartsAlone, EditOnly
<1>6. ASSUME NEW list \in Lists,
             edit' = [edit EXCEPT ![c] = [NoEntryCall EXCEPT !.rows = rows, !.pc = "validate", !.list = list]]
      PROVE  LanguagesInv'
  <2> PICK e : e = [NoEntryCall EXCEPT !.rows = rows, !.pc = "validate", !.list = list]
    OBVIOUS
  <2>1. e \in EntryCall /\ e.pc = "validate" /\ e.rows = rows
    BY <1>2, NoEntryCallTyped DEF EntryCall
  <2>2. EntryCallTyped(e) /\ EditKnows(e)
    BY <1>2, <2>1 DEF EntryCallTyped, EditKnows
  <2>3. QED
    BY <1>1, <1>6, <2>1, <2>2, EditStartsAlone, EditOnly
<1>7. \/ edit' = [edit EXCEPT ![c] = [NoEntryCall EXCEPT !.rows = rows, !.pc = "saveUser"]]
      \/ \E pc \in {"saveUser", "clear"} : edit' = [edit EXCEPT ![c] = [NoEntryCall EXCEPT !.pc = pc]]
      \/ \E list \in Lists : edit' = [edit EXCEPT ![c] =
              [NoEntryCall EXCEPT !.rows = rows, !.pc = "validate", !.list = list]]
    BY DEF UpdateProfile
<1>8. QED
    BY <1>4, <1>5, <1>6, <1>7

\* A call that removes rows, and goes on to save the user.
LEMMA EntriesRemovedKept ==
    ASSUME LanguagesInv, NEW c \in Profilers, EditAt(c, "clear") \/ EditAt(c, "leave"), NEW ids,
           entries' = Without(ids), EditGoto(c, "saveUser"), SameEdits
    PROVE  LanguagesInv'
<1> PICK f, e, w : f = edit[c] /\ e = [f EXCEPT !.pc = "saveUser"] /\ w = Without(ids)
    OBVIOUS
<1>1. /\ ~EditAt(c, "idle") /\ entries' = w /\ languagesApart' = languagesApart
      /\ edit' = [edit EXCEPT ![c].pc = "saveUser"]
    BY DEF SameEdits, EditAt, EditGoto
<1>2. /\ f \in EntryCall /\ EntryCallTyped(f) /\ f.pc \in {"clear", "leave"}
      /\ languagesApart => EditsOf(c) /\ Distinct(entries) /\ EditKnows(f)
    BY <1>1, EditInFlight DEF EditAt
<1>3. edit' = [edit EXCEPT ![c] = e]
    BY <1>1
<1>4. e \in EntryCall /\ e.pc = "saveUser" /\ e.rows = f.rows /\ e.new = f.new
    BY <1>2 DEF EntryCall
<1>5. /\ w \in Seq(EntryRow) /\ Len(w) = Len(entries) /\ DOMAIN w = DOMAIN entries
      /\ \A i \in DOMAIN entries : w[i] \in Entry \/ w[i] = GoneEntry
      /\ Distinct(entries) => Distinct(w)
    BY WithoutTyped
<1>6. Len(entries) <= MaxEntries
    BY DEF LanguagesInv, LanguagesTypeInv, LanguagesTypeOK
<1>7. EntryCallTyped(e)
    BY <1>2, <1>4 DEF EntryCallTyped
<1>8. languagesApart => EditKnows(e)'
    BY <1>2, <1>4 DEF EditKnows
<1>9. /\ entries' \in Seq(EntryRow) /\ Len(entries') <= MaxEntries
      /\ \A i \in DOMAIN entries' : entries'[i] \in Entry \/ entries'[i] = GoneEntry
      /\ Distinct(entries) => Distinct(entries')
    BY <1>1, <1>5, <1>6
<1>10. QED
    BY <1>1, <1>2, <1>3, <1>4, <1>7, <1>8, <1>9, EditWrites

LEMMA ListIs ==
    ASSUME NEW list \in Lists
    PROVE  /\ \E n \in Nat : DOMAIN list = 1 .. n
           /\ IsFiniteSet(DOMAIN list) /\ DOMAIN list \subseteq Nat \ {0}
           /\ \A k \in DOMAIN list : list[k] \in Tongues
           /\ \A j, k \in DOMAIN list : list[j] = list[k] => j = k
<1>1. Cardinality(Tongues) \in Nat
    BY TonguesAssumption, FS_CardinalityType
<1>2. PICK n \in 0 .. Cardinality(Tongues) : list \in [1 .. n -> Tongues]
    BY DEF Lists
<1>3. n \in Nat /\ DOMAIN list = 1 .. n
    BY <1>1, <1>2
<1>4. IsFiniteSet(1 .. n)
    BY <1>3, FS_Interval
<1>5. \A j, k \in DOMAIN list : list[j] = list[k] => j = k
    BY DEF Lists
<1>6. QED
    BY <1>2, <1>3, <1>4, <1>5

\* The place a language has in a list that names it, and no other.
LEMMA PlaceInIs ==
    ASSUME NEW list \in Lists, NEW k \in DOMAIN list
    PROVE  PlaceIn(list, list[k]) = k
<1>1. PlaceIn(list, list[k]) \in DOMAIN list /\ list[PlaceIn(list, list[k])] = list[k]
    BY DEF PlaceIn
<1>2. QED
    BY <1>1, ListIs

\* ids: the rows that stay; nth: the places of the list that are new.
ListApplied(rows, list, ids, n, nth, new) ==
    /\ \A i \in ids : \E k \in DOMAIN list : list[k] = rows[i].tongue
    /\ \A i, j \in ids : rows[i].tongue = rows[j].tongue => i = j
    /\ \A j, k \in 1 .. n : j < k => nth[j] < nth[k]
    /\ \A k \in 1 .. n, i \in ids : list[nth[k]] # rows[i].tongue
    /\ new = [k \in 1 .. n |-> [tongue |-> list[nth[k]], place |-> nth[k]]]

\* The rows that stay, as the list numbers them, and those of the languages
\* that are new: no two clash.
LEMMA ListNumbers ==
    ASSUME NEW rows \in [EntryIds -> EntryRow], \A i \in Named(rows) : rows[i] \in Entry,
           NEW list \in Lists, NEW ids \in SUBSET Named(rows),
           NEW n \in Nat, NEW nth \in [1 .. n -> DOMAIN list], NEW new,
           ListApplied(rows, list, ids, n, nth, new)
    PROVE  /\ Renumbered(rows, list, ids) \in [EntryIds -> EntryRow]
           /\ \A i \in Named(Renumbered(rows, list, ids)) : Renumbered(rows, list, ids)[i] \in Entry
           /\ new \in Seq(Entry)
           /\ Numbered(Renumbered(rows, list, ids), new)
<1> DEFINE row(i) == [tongue |-> rows[i].tongue, place |-> PlaceIn(list, rows[i].tongue)]
<1> PICK r : r = Renumbered(rows, list, ids)
    OBVIOUS
<1> USE DEF ListApplied
<1>1. /\ DOMAIN list \subseteq Nat \ {0}
      /\ \A k \in DOMAIN list : list[k] \in Tongues
      /\ \A j, k \in DOMAIN list : list[j] = list[k] => j = k
    BY ListIs
<1>2. ASSUME NEW i \in ids
      PROVE  PlaceIn(list, rows[i].tongue) \in DOMAIN list /\ list[PlaceIn(list, rows[i].tongue)] = rows[i].tongue
    BY <1>2, PlaceInIs
<1>3. ASSUME NEW i \in ids PROVE row(i) \in Entry
  <2>1. rows[i].tongue \in Tongues
    BY <1>3 DEF Entry
  <2>2. QED
    BY <1>1, <1>2, <1>3, <2>1 DEF Entry
<1>4. \A i \in ids : row(i) \in EntryRow /\ row(i) # GoneEntry
    BY <1>3, EntryNotGone
<1>5. ids \subseteq EntryIds
    BY DEF Named
<1>6. r = [i \in EntryIds |-> IF i \notin ids THEN GoneEntry ELSE row(i)]
    BY DEF Renumbered
<1>7. GoneEntry \in EntryRow
    BY DEF EntryRow, GoneEntry
<1>8. \A i \in ids : row(i).tongue = rows[i].tongue /\ row(i).place = PlaceIn(list, rows[i].tongue)
    OBVIOUS
<1> HIDE DEF row
<1>9. r \in [EntryIds -> EntryRow] /\ Named(r) = ids /\ \A i \in ids : r[i] = row(i)
  <2>1. r \in [EntryIds -> EntryRow]
    BY <1>4, <1>6, <1>7
  <2>2. \A i \in ids : r[i] = row(i)
    BY <1>5, <1>6
  <2>3. \A i \in EntryIds \ ids : r[i] = GoneEntry
    BY <1>6
  <2>4. Named(r) = {i \in EntryIds : r[i] # GoneEntry}
    BY <2>1 DEF Named
  <2>5. Named(r) = ids
    BY <1>4, <1>5, <2>2, <2>3, <2>4
  <2>6. QED
    BY <2>1, <2>2, <2>5
<1>10. \A i \in Named(r) : r[i] \in Entry
    BY <1>3, <1>9
<1>11. ASSUME NEW k \in 1 .. n
       PROVE  new[k] \in Entry /\ new[k].tongue = list[nth[k]] /\ new[k].place = nth[k]
  <2>1. nth[k] \in DOMAIN list /\ new[k] = [tongue |-> list[nth[k]], place |-> nth[k]]
    BY <1>11
  <2>2. list[nth[k]] \in Tongues /\ nth[k] \in Nat \ {0}
    BY <1>1, <2>1
  <2>3. QED
    BY <2>1, <2>2 DEF Entry
<1>12. new \in Seq(Entry) /\ DOMAIN new = 1 .. n
    BY <1>11
<1>13. Distinct(r)
  <2>1. ASSUME NEW i \in ids, NEW j \in ids, i # j
        PROVE  r[i].tongue # r[j].tongue /\ r[i].place # r[j].place
    <3>1. rows[i].tongue # rows[j].tongue
      BY <2>1
    <3>2. PlaceIn(list, rows[i].tongue) # PlaceIn(list, rows[j].tongue)
      BY <1>2, <3>1
    <3>3. QED
      BY <1>8, <1>9, <3>1, <3>2
  <2>2. QED
    BY <1>9, <2>1 DEF Distinct
<1>14. Distinct(new)
  <2>1. ASSUME NEW j \in 1 .. n, NEW k \in 1 .. n, j # k
        PROVE  new[j].tongue # new[k].tongue /\ new[j].place # new[k].place
    <3>1. nth[j] \in Nat /\ nth[k] \in Nat /\ nth[j] \in DOMAIN list /\ nth[k] \in DOMAIN list
      BY <1>1, <2>1
    <3>2. j < k \/ k < j
      BY <2>1
    <3>3. nth[j] # nth[k]
      BY <2>1, <3>1, <3>2
    <3>4. QED
      BY <1>1, <1>11, <2>1, <3>1, <3>3
  <2>2. QED
    BY <1>12, <2>1 DEF Distinct, Named
<1>15. ASSUME NEW i \in ids, NEW k \in 1 .. n
       PROVE  r[i].tongue # new[k].tongue /\ r[i].place # new[k].place
  <2>1. nth[k] \in DOMAIN list /\ list[nth[k]] # rows[i].tongue
    BY <1>15
  <2>2. PlaceIn(list, rows[i].tongue) # nth[k]
    BY <1>2, <1>15, <2>1
  <2>3. QED
    BY <1>8, <1>9, <1>11, <1>15, <2>1, <2>2
<1>16. Numbered(r, new)
    BY SMTT(30), <1>9, <1>12, <1>13, <1>14, <1>15 DEF Numbered
<1>17. QED
    BY <1>9, <1>10, <1>12, <1>16

LEMMA ApplyUpdatesKept ==
    ASSUME LanguagesInv, NEW c \in Profilers, ApplyUserLanguageUpdates(c)
    PROVE  LanguagesInv'
<1> DEFINE f == edit[c]
           spoken(ids) == {f.rows[i].tongue : i \in ids}
           known == spoken(Named(f.rows))
           fresh == {k \in DOMAIN f.list : f.list[k] \notin known}
           staying(ids) == {i \in ids : \E k \in DOMAIN f.list : f.list[k] = f.rows[i].tongue}
           call(ids, nth) == [NoEntryCall EXCEPT
                  !.pc = IF ids = staying(ids) THEN "saveUser" ELSE "leave",
                  !.rows = Renumbered(f.rows, f.list, staying(ids)),
                  !.new = [n \in DOMAIN nth |-> [tongue |-> f.list[nth[n]], place |-> nth[n]]],
                  !.leaving = ids \ staying(ids)]
<1>1. /\ EditAt(c, "validate") /\ ~EditAt(c, "idle") /\ entries' = entries /\ languagesApart' = languagesApart
    BY DEF ApplyUserLanguageUpdates, SameEdits, EditAt
<1>2. /\ f \in EntryCall /\ EntryCallTyped(f) /\ languagesApart \in BOOLEAN
      /\ languagesApart => EditsOf(c)
    BY <1>1, EditInFlight
<1>3. CASE EntryCallDone(c)
    BY <1>1, <1>3, EditEnds
<1>4. ASSUME NEW ids \in SUBSET Named(f.rows), NEW nth \in [1 .. Cardinality(fresh) -> fresh],
             \A i, j \in ids : f.rows[i].tongue = f.rows[j].tongue => i = j,
             \A j, k \in DOMAIN nth : j < k => nth[j] < nth[k],
             edit' = [edit EXCEPT ![c] = call(ids, nth)]
      PROVE  LanguagesInv'
  <2> PICK n, stay, rows, new, e :
          /\ n = Cardinality(fresh) /\ stay = staying(ids) /\ rows = Renumbered(f.rows, f.list, stay)
          /\ new = [k \in DOMAIN nth |-> [tongue |-> f.list[nth[k]], place |-> nth[k]]]
          /\ e = call(ids, nth)
    OBVIOUS
  <2>1. f.rows \in [EntryIds -> EntryRow] /\ f.list \in Lists /\ \A i \in Named(f.rows) : f.rows[i] \in Entry
    BY <1>2 DEF EntryCall, EntryCallTyped
  <2>2. n \in Nat
    BY <2>1, ListIs, FS_Subset, FS_CardinalityType
  <2>3. nth \in [1 .. n -> fresh] /\ DOMAIN nth = 1 .. n
    BY <1>4
  <2>4. nth \in [1 .. n -> DOMAIN f.list]
    BY <2>3
  <2>5. stay \in SUBSET Named(f.rows) /\ stay \subseteq ids
    BY <1>4
  <2>6. \A i \in stay : \E k \in DOMAIN f.list : f.list[k] = f.rows[i].tongue
    OBVIOUS
  <2>7. \A k \in 1 .. n, i \in stay : f.list[nth[k]] # f.rows[i].tongue
    <3>1. \A k \in 1 .. n : f.list[nth[k]] \notin known
      BY <2>3
    <3>2. \A i \in stay : f.rows[i].tongue \in known
      BY <2>5
    <3>3. QED
      BY <3>1, <3>2
  <2>8. \A i, j \in stay : f.rows[i].tongue = f.rows[j].tongue => i = j
    BY <1>4, <2>5
  <2>9. \A j, k \in 1 .. n : j < k => nth[j] < nth[k]
    BY <1>4, <2>3
  <2>10. new = [k \in 1 .. n |-> [tongue |-> f.list[nth[k]], place |-> nth[k]]]
    BY <2>3
  <2>11. \E pc \in {"saveUser", "leave"} :
            e = [NoEntryCall EXCEPT !.pc = pc, !.rows = rows, !.new = new, !.leaving = ids \ stay]
    OBVIOUS
  <2> HIDE DEF fresh, known, spoken, staying, call
  <2>12. /\ rows \in [EntryIds -> EntryRow] /\ \A i \in Named(rows) : rows[i] \in Entry
         /\ new \in Seq(Entry) /\ Numbered(rows, new)
    <3>1. ListApplied(f.rows, f.list, stay, n, nth, new)
      BY <2>6, <2>7, <2>8, <2>9, <2>10 DEF ListApplied
    <3>2. QED
      BY <2>1, <2>2, <2>4, <2>5, <3>1, ListNumbers
  <2>13. ids \ stay \subseteq EntryIds
    BY <1>4, <2>1 DEF Named
  <2>14. e \in EntryCall /\ e.pc \in {"saveUser", "leave"} /\ e.rows = rows /\ e.new = new
    BY ZenonT(40), <2>11, <2>12, <2>13, NoEntryCallTyped DEF EntryCall
  <2>15. EntryCallTyped(e) /\ EditKnows(e)
    BY <2>12, <2>14 DEF EntryCallTyped, EditKnows
  <2>16. QED
    BY <1>1, <1>2, <1>4, <2>14, <2>15, EditOnly
<1>5. \/ EntryCallDone(c)
      \/ \E ids \in SUBSET Named(f.rows), nth \in [1 .. Cardinality(fresh) -> fresh] :
            /\ \A i, j \in ids : f.rows[i].tongue = f.rows[j].tongue => i = j
            /\ \A j, k \in DOMAIN nth : j < k => nth[j] < nth[k]
            /\ edit' = [edit EXCEPT ![c] = call(ids, nth)]
    BY Zenon DEF ApplyUserLanguageUpdates
<1>6. QED
    BY <1>3, <1>4, <1>5

\* u is s with t after it.
Joined(u, s, t, m, n) ==
    /\ Len(u) = m + n /\ DOMAIN u = 1 .. m + n
    /\ \A i \in 1 .. m : u[i] = s[i]
    /\ \A k \in 1 .. n : u[m + k] = t[k]

LEMMA JoinedIs ==
    ASSUME NEW s \in Seq(EntryRow), NEW t \in Seq(EntryRow)
    PROVE  s \o t \in Seq(EntryRow) /\ Joined(s \o t, s, t, Len(s), Len(t))
<1> PICK m, n : m = Len(s) /\ n = Len(t)
    OBVIOUS
<1>1. m \in Nat /\ n \in Nat /\ s \o t \in Seq(EntryRow) /\ Len(s \o t) = m + n
    OBVIOUS
<1>2. \A i \in 1 .. m : (s \o t)[i] = s[i]
    BY <1>1
<1>3. \A k \in 1 .. n : (s \o t)[m + k] = t[k]
    BY <1>1
<1>4. DOMAIN (s \o t) = 1 .. m + n
    BY <1>1
<1>5. QED
    BY <1>1, <1>2, <1>3, <1>4 DEF Joined

LEMMA SaveUserKept ==
    ASSUME LanguagesInv, NEW c \in Profilers, SaveUser(c)
    PROVE  LanguagesInv'
<1>0. PICK f, rows, new, w, m : /\ f = edit[c] /\ rows = f.rows /\ new = f.new
                                /\ w = WithSaved(rows) /\ m = Len(entries)
    OBVIOUS
<1>1. /\ EditAt(c, "saveUser") /\ ~EditAt(c, "idle") /\ languagesApart' = languagesApart
      /\ Len(entries) + Len(new) <= MaxEntries
      /\ entries' = IF Held \subseteq Named(rows) THEN w \o new ELSE entries
      /\ edit' = [edit EXCEPT ![c] = NoEntryCall] /\ EntryCallDone(c)
    BY <1>0 DEF SaveUser, SameEdits, EditAt, EntryCallDone
<1>2. /\ f \in EntryCall /\ EntryCallTyped(f) /\ f.pc = "saveUser"
      /\ languagesApart => EditsOf(c) /\ EditKnows(f)
    BY <1>0, <1>1, EditInFlight DEF EditAt
<1>3. CASE ~(Held \subseteq Named(rows))
    BY <1>1, <1>3, EditEnds
<1>4. CASE Held \subseteq Named(rows)
  <2>1. /\ rows \in [EntryIds -> EntryRow] /\ new \in Seq(Entry) /\ \A i \in Named(rows) : rows[i] \in Entry
    BY <1>0, <1>2 DEF EntryCall, EntryCallTyped
  <2>2. /\ w \in Seq(EntryRow) /\ Len(w) = m
        /\ \A i \in DOMAIN entries : w[i] \in Entry \/ w[i] = GoneEntry
        /\ \A i \in DOMAIN entries : i \in Named(rows) => w[i] = rows[i]
        /\ Named(w) = Held \cup (Named(rows) \cap DOMAIN entries)
    BY <1>0, <2>1, SavedTyped
  <2>3. DOMAIN entries = 1 .. m /\ m \in Nat /\ Held \subseteq DOMAIN entries
    BY <1>0, EntriesTyped
  <2>4. \A k \in DOMAIN new : new[k] \in Entry /\ new[k] \in EntryRow /\ new[k] # GoneEntry
    BY <2>1, EntryNotGone
  <2>5. new \in Seq(EntryRow) /\ Len(new) \in Nat /\ DOMAIN new = 1 .. Len(new)
    BY <2>1, <2>4
  <2>0. PICK u, n : u = w \o new /\ n = Len(new)
    OBVIOUS
  <2>6. /\ u \in Seq(EntryRow) /\ Len(u) = m + n /\ DOMAIN u = 1 .. m + n
        /\ \A i \in 1 .. m : u[i] = w[i]
        /\ \A k \in 1 .. n : u[m + k] = new[k]
    <3>1. m = Len(w) /\ n = Len(new) /\ u = w \o new
      BY <2>0, <2>2
    <3>2. w \o new \in Seq(EntryRow) /\ Joined(w \o new, w, new, Len(w), Len(new))
      BY <2>2, <2>5, JoinedIs
    <3>3. u \in Seq(EntryRow) /\ Joined(u, w, new, m, n)
      BY <3>1, <3>2
    <3>4. QED
      BY <3>3 DEF Joined
  <2>a. ASSUME NEW i \in 1 .. m PROVE u[i] = w[i] /\ i \in DOMAIN entries /\ i \in Nat
    BY <2>3, <2>6
  <2>b. ASSUME NEW i \in DOMAIN u, i \notin 1 .. m
        PROVE  i \in Nat /\ i - m \in DOMAIN new /\ u[i] = new[i - m]
    <3>1. i \in Nat /\ i - m \in 1 .. n /\ i = m + (i - m)
      BY <2>0, <2>3, <2>5, <2>6, <2>b
    <3>2. QED
      BY <2>0, <2>5, <2>6, <3>1
  <2>7. ASSUME NEW i \in DOMAIN u PROVE u[i] \in Entry \/ u[i] = GoneEntry
    <3>1. CASE i \in 1 .. m
      BY <2>2, <2>a, <3>1
    <3>2. CASE i \notin 1 .. m
      BY <2>4, <2>7, <2>b, <3>2
    <3>3. QED
      BY <3>1, <3>2
  <2>8. ASSUME languagesApart PROVE Distinct(u)
    <3>1. Distinct(rows) /\ Distinct(new)
          /\ \A i \in Named(rows), k \in DOMAIN new :
                rows[i].tongue # new[k].tongue /\ rows[i].place # new[k].place
      BY <1>0, <1>2, <2>8 DEF EditKnows, Numbered
    <3>2. \A i \in Named(w) : i \in Named(rows) /\ w[i] = rows[i]
      BY <1>4, <2>2, <2>3
    <3>3. ASSUME NEW i \in Named(u), i \in 1 .. m PROVE i \in Named(rows) /\ u[i] = rows[i]
      <4>1. i \in DOMAIN u /\ u[i] = w[i] /\ w[i] # GoneEntry /\ i \in DOMAIN w
        BY <2>2, <2>3, <2>6, <2>a, <3>3 DEF Named
      <4>2. i \in Named(w)
        BY <4>1 DEF Named
      <4>3. QED
        BY <3>2, <4>1, <4>2
    <3>4. ASSUME NEW i \in Named(u), i \notin 1 .. m
          PROVE  i - m \in DOMAIN new /\ u[i] = new[i - m] /\ i \in Nat
      <4>1. i \in DOMAIN u
        BY DEF Named
      <4>2. QED
        BY <2>b, <3>4, <4>1
    <3>5. Named(new) = DOMAIN new
      BY <2>4 DEF Named
    <3>6. ASSUME NEW i \in Named(u), NEW j \in Named(u), i # j
          PROVE  u[i].tongue # u[j].tongue /\ u[i].place # u[j].place
      <4>1. CASE i \in 1 .. m /\ j \in 1 .. m
        <5>1. i \in Named(rows) /\ u[i] = rows[i] /\ j \in Named(rows) /\ u[j] = rows[j]
          BY <3>3, <4>1
        <5>2. QED
          BY <3>1, <3>6, <5>1 DEF Distinct
      <4>2. CASE i \in 1 .. m /\ j \notin 1 .. m
        <5>1. i \in Named(rows) /\ u[i] = rows[i] /\ j - m \in DOMAIN new /\ u[j] = new[j - m]
          BY <3>3, <3>4, <4>2
        <5>2. QED
          BY <3>1, <5>1
      <4>3. CASE i \notin 1 .. m /\ j \in 1 .. m
        <5>1. j \in Named(rows) /\ u[j] = rows[j] /\ i - m \in DOMAIN new /\ u[i] = new[i - m]
          BY <3>3, <3>4, <4>3
        <5>2. QED
          BY <3>1, <5>1
      <4>4. CASE i \notin 1 .. m /\ j \notin 1 .. m
        <5>1. /\ i - m \in DOMAIN new /\ u[i] = new[i - m] /\ i \in Nat
              /\ j - m \in DOMAIN new /\ u[j] = new[j - m] /\ j \in Nat
          BY <3>4, <4>4
        <5>2. i - m # j - m
          BY <2>3, <3>6, <5>1
        <5>3. new[i - m].tongue # new[j - m].tongue /\ new[i - m].place # new[j - m].place
          BY <3>1, <3>5, <5>1, <5>2 DEF Distinct
        <5>4. QED
          BY <5>1, <5>3
      <4>5. QED
        BY <4>1, <4>2, <4>3, <4>4
    <3>7. QED
      BY <3>6 DEF Distinct
  <2>9. EditKnows(NoEntryCall)'
    BY NoEntryCallTyped DEF EditKnows
  <2>10. entries' = u /\ Len(u) <= MaxEntries
    BY <1>0, <1>1, <1>4, <2>0, <2>5, <2>6
  <2>c. /\ entries' \in Seq(EntryRow) /\ Len(entries') <= MaxEntries
        /\ \A i \in DOMAIN entries' : entries'[i] \in Entry \/ entries'[i] = GoneEntry
        /\ languagesApart => Distinct(entries')
    BY <2>6, <2>7, <2>8, <2>10
  <2>11. QED
    BY <1>1, <1>2, <2>9, <2>c, NoEntryCallTyped, EditWrites
<1>5. QED
    BY <1>3, <1>4

-----------------------------------------------------------------------------
(* Languages: the theorems *)

LEMMA EntryCallDiesKept ==
    ASSUME LanguagesInv, NEW c \in Profilers, EntryCallDies(c)
    PROVE  LanguagesInv'
<1>1. ~EditAt(c, "idle")
    BY DEF EntryCallDies, EditAt, LanguagesInv, LanguagesTypeInv, EntryCallTyped
<1>2. QED
    BY <1>1, EditEnds DEF EntryCallDies, SameEdits

LEMMA LanguagesStarts == LanguagesInit => LanguagesInv
<1> SUFFICES ASSUME LanguagesInit PROVE LanguagesInv
    OBVIOUS
<1>1. Held = {} /\ Distinct(entries) /\ entries \in Seq(EntryRow) /\ Len(entries) = 0
    BY DEF LanguagesInit, Held, Named, Distinct
<1>2. LanguagesTypeInv
    BY <1>1, NoEntryCallTyped, LanguageBounds DEF LanguagesInit, LanguagesTypeInv, LanguagesTypeOK
<1>3. EditsInOrder
    BY <1>1, NoEntryCallTyped DEF LanguagesInit, EditsInOrder, EditAt
<1>4. QED
    BY <1>2, <1>3 DEF LanguagesInv

LEMMA LanguagesStep ==
    ASSUME LanguagesInv, [LanguagesNext]_languageVars
    PROVE  LanguagesInv'
<1>1. CASE UNCHANGED languageVars
  <2>1. entries' = entries /\ edit' = edit /\ languagesApart' = languagesApart
    BY <1>1 DEF languageVars
  <2>2. Held' = Held /\ \A c \in Profilers : edit'[c] = edit[c]
    BY <2>1 DEF Held
  <2>3. LanguagesTypeInv'
    BY <2>1, <2>2 DEF LanguagesInv, LanguagesTypeInv, LanguagesTypeOK
  <2>4. ASSUME EditsInOrder PROVE EditsInOrder'
    BY <2>1, <2>2, <2>4 DEF EditsInOrder, EditAt, EditsOf, EditKnows, Has, WithSaved
  <2>5. QED
    BY <2>1, <2>3, <2>4 DEF LanguagesInv
<1>2. ASSUME NEW c \in Profilers,
             CreateEntry(c) \/ LastEntry(c) \/ InsertEntry(c) \/ UpdateEntry(c) \/ FindDuplicate(c)
      PROVE  LanguagesInv'
    BY <1>2, CreateEntryKept, LastEntryKept, InsertEntryKept, UpdateEntryKept, FindDuplicateKept
<1>3. ASSUME NEW c \in Profilers,
             FindSiblings(c) \/ SaveEntries(c) \/ DeleteEntry(c) \/ RemoveEntry(c) \/ UpdateProfile(c)
      PROVE  LanguagesInv'
    BY <1>3, FindSiblingsKept, SaveEntriesKept, DeleteEntryKept, RemoveEntryKept, UpdateProfileKept
<1>4. ASSUME NEW c \in Profilers, ClearEntries(c) \/ LeaveEntries(c)
      PROVE  LanguagesInv'
    BY <1>4, EntriesRemovedKept DEF ClearEntries, LeaveEntries
<1>5. ASSUME NEW c \in Profilers, ApplyUserLanguageUpdates(c) \/ SaveUser(c) \/ EntryCallDies(c)
      PROVE  LanguagesInv'
    BY <1>5, ApplyUpdatesKept, SaveUserKept, EntryCallDiesKept
<1>6. QED
    BY <1>1, <1>2, <1>3, <1>4, <1>5 DEF LanguagesNext

\* What each call of the profile's languages holds while it waits, in every
\* reachable state: the call alone knows the table it is about to write.
THEOREM LanguagesInductive == LanguagesSpec => []LanguagesInv
<1>1. QED
    BY LanguagesStarts, LanguagesStep, PTL DEF LanguagesSpec

\* The types of the language entries and of the calls on them.
THEOREM LanguagesTypes == LanguagesSpec => []LanguagesTypeOK
<1>1. LanguagesInv => LanguagesTypeOK
    BY DEF LanguagesInv, LanguagesTypeInv
<1>2. QED
    BY <1>1, LanguagesInductive, PTL

\* While calls do not overlap, a profile names no language twice and gives no
\* two of them one place, for any number of calls, entries and languages
\* (createOne, updateOne, deleteOne, applyUserLanguageUpdates).
THEOREM LanguagesOrdered == LanguagesSpec => []LanguagesInOrder
<1>1. LanguagesInv => LanguagesInOrder
    BY DEF LanguagesInv, EditsInOrder, Distinct, Held, LanguagesInOrder
<1>2. QED
    BY <1>1, LanguagesInductive, PTL

-----------------------------------------------------------------------------
(* Analytics: days and months *)

Units == {"day", "month"}

\* Both units are whole days.
LEMMA SpanFacts ==
    ASSUME NEW unit \in Units
    PROVE  /\ Span(unit) \in Nat \ {0} /\ Span(unit) >= 3
           /\ \E n \in Nat : Span(unit) = n * 3
<1>1. DaysPerMonth \in Nat \ {0}
    BY AnalyticsBounds
<1>2. CASE unit = "day"
    BY <1>2 DEF Span, PerDay
<1>3. CASE unit = "month"
    <2>1. Span(unit) = DaysPerMonth * 3 /\ DaysPerMonth >= 1
        BY <1>1, <1>3 DEF Span, PerDay
    <2>2. QED
        BY <1>1, <2>1
<1>4. QED
    BY <1>2, <1>3 DEF Units

\* Division with remainder, both ways.
LEMMA Divided ==
    ASSUME NEW t \in Int, NEW s \in Nat \ {0}
    PROVE  /\ t \div s \in Int /\ t % s \in 0 .. s - 1
           /\ t = (t \div s) * s + (t % s)
    OBVIOUS

LEMMA Remains ==
    ASSUME NEW q \in Int, NEW s \in Nat \ {0}, NEW r \in 0 .. s - 1
    PROVE  (q * s + r) % s = r
    OBVIOUS

\* The unit an instant is in begins at most a span before it.
LEMMA StartFacts ==
    ASSUME NEW unit \in Units, NEW t \in Int
    PROVE  /\ StartOf(t, unit) \in Int /\ StartOf(t, unit) % Span(unit) = 0
           /\ StartOf(t, unit) <= t /\ t < StartOf(t, unit) + Span(unit)
<1>1. PICK s \in Nat \ {0} : s = Span(unit)
    BY SpanFacts
<1>2. PICK q \in Int, r \in 0 .. s - 1 : t = q * s + r /\ r = t % s
    BY <1>1, Divided
<1>3. PICK m \in Int : m = q * s
    BY <1>1, <1>2
<1>4. (q * s + 0) % s = 0
    <2>1. 0 \in 0 .. s - 1
        BY <1>1
    <2>2. QED
        BY <1>1, <1>2, <2>1, Remains
<1>5. m % s = 0
    <2>1. m = q * s + 0
        BY <1>3
    <2>2. QED
        BY <1>4, <2>1
<1>6. t = m + r /\ r \in Int /\ 0 <= r /\ r < s
    BY <1>2, <1>3
<1>7. StartOf(t, unit) = m
    BY <1>1, <1>2, <1>6 DEF StartOf
<1>8. QED
    BY <1>1, <1>5, <1>6, <1>7

\* A unit that begins at c holds the instants of a span from c.
LEMMA StartIs ==
    ASSUME NEW unit \in Units, NEW c \in Int, c % Span(unit) = 0,
           NEW t \in Int, c <= t, t < c + Span(unit)
    PROVE  StartOf(t, unit) = c
<1>1. PICK s \in Nat \ {0} : s = Span(unit)
    BY SpanFacts
<1>2. PICK q \in Int : c = q * s
    <2>1. c \div s \in Int /\ c = (c \div s) * s + (c % s) /\ c % s = 0
        BY <1>1, Divided
    <2>2. PICK q \in Int : q = c \div s
        BY <2>1
    <2>3. PICK m \in Int : m = q * s
        BY <1>1, <2>2
    <2>4. c = m
        BY <2>1, <2>2, <2>3
    <2>5. QED
        BY <2>2, <2>3, <2>4
<1>3. PICK r \in 0 .. s - 1 : t = c + r
    <2>1. t - c \in 0 .. s - 1
        BY <1>1
    <2>2. QED
        BY <2>1
<1>4. t % s = r
    BY <1>1, <1>2, <1>3, Remains
<1>5. QED
    BY <1>1, <1>3, <1>4 DEF StartOf

\* Two beginnings less than a span apart are in order.
LEMMA StartsApart ==
    ASSUME NEW unit \in Units, NEW c \in Int, c % Span(unit) = 0,
           NEW d \in Int, d % Span(unit) = 0, c < d + Span(unit)
    PROVE  c <= d
<1>1. Span(unit) \in Nat \ {0}
    BY SpanFacts
<1>2. ASSUME d < c PROVE FALSE
    <2>1. StartOf(c, unit) = d
        BY <1>2, StartIs
    <2>2. StartOf(c, unit) = c
        BY <1>1, StartIs
    <2>3. QED
        BY <1>2, <2>1, <2>2
<1>3. QED
    BY <1>2

\* A date forgets what is left of a day, and stays in its day and month.
LEMMA DateStays ==
    ASSUME NEW unit \in Units, NEW t \in Nat
    PROVE  StartOf(AsDate(t), unit) = StartOf(t, unit)
<1> DEFINE c == StartOf(t, unit)
           s == Span(unit)
<1>1. /\ c \in Int /\ c % s = 0 /\ c <= t /\ t < c + s
      /\ s \in Nat \ {0}
    BY StartFacts, SpanFacts
<1>2. CASE t % 3 # 2
    BY <1>2 DEF AsDate, PerDay
<1>3. CASE t % 3 = 2
    <2>1. AsDate(t) = t - 1
        BY <1>3 DEF AsDate, PerDay
    <2>2. PICK n \in Nat : s = n * 3
        BY SpanFacts
    <2>4. c % 3 = 0
        <3>1. PICK e \in Int : e = c /\ e % s = 0
            BY <1>1
        <3>2. PICK q \in Int : q = e \div s
            BY <1>1, <3>1, Divided
        <3>3. e = q * s + (e % s)
            BY <1>1, <3>1, <3>2, Divided
        <3>4. e = q * s + 0
            BY <3>1, <3>3
        <3>5. PICK m \in Int : m = q * n
            BY <3>2
        <3>6. e = m * 3 + 0
            BY <2>2, <3>2, <3>4, <3>5
        <3>7. (m * 3 + 0) % 3 = 0
            BY <3>5
        <3>8. QED
            BY <3>1, <3>6, <3>7
    <2>5. c # t
        BY <1>3, <2>4
    <2> HIDE DEF c, s
    <2>6. c <= t - 1 /\ t - 1 < c + s /\ t - 1 \in Int
        BY <1>1, <2>5
    <2>7. StartOf(t - 1, unit) = c
        BY <1>1, <2>6, StartIs DEF s
    <2>8. QED
        BY <2>1, <2>7 DEF c
<1>4. QED
    BY <1>2, <1>3

-----------------------------------------------------------------------------
(* Analytics: the buckets of a request *)

UnitsFrom(unit, lo, hi) == {c \in lo .. hi : c % Span(unit) = 0}

LEMMA Whole ==
    ASSUME NEW unit \in Units, NEW c \in Int, c % Span(unit) = 0
    PROVE  StartOf(c, unit) = c /\ LastMilli(c, unit) = c + Span(unit) - 2
<1>1. Span(unit) \in Nat \ {0}
    BY SpanFacts
<1>2. StartOf(c, unit) = c
    BY <1>1, StartIs
<1>3. QED
    BY <1>2 DEF LastMilli

LEMMA UnitsFacts ==
    ASSUME NEW unit \in Units, NEW lo \in Int, NEW hi \in Int, lo <= hi,
           lo % Span(unit) = 0, hi % Span(unit) = 0
    PROVE  LET B == UnitsFrom(unit, lo, hi) IN
           /\ IsFiniteSet(B) /\ B \subseteq Int /\ Min(B) = lo /\ Max(B) = hi
<1> DEFINE B == UnitsFrom(unit, lo, hi)
<1>1. B \subseteq lo .. hi /\ B \subseteq Int /\ lo \in B /\ hi \in B
      /\ \A y \in B : lo <= y /\ hi >= y
    BY DEF UnitsFrom
<1>2. IsFiniteSet(B)
    BY <1>1, FS_Interval, FS_Subset
<1> HIDE DEF B
<1>3. Min(B) = lo /\ Max(B) = hi
    BY <1>1, LeastIs, GreatestIs
<1>4. QED
    BY <1>1, <1>2, <1>3 DEF B

\* A range given in either order becomes the units from the earlier to the later.
LEMMA BucketsAre ==
    ASSUME NEW unit \in Units, NEW from \in Dates(unit), NEW to \in Dates(unit)
    PROVE  LET b == Boundaries(unit, from, to)
               lo == Min({from, to})
               hi == Max({from, to})
           IN /\ BucketsFromRange(unit, b[1], b[2]) = UnitsFrom(unit, lo, hi)
              /\ lo \in Int /\ hi \in Int /\ lo <= hi
              /\ lo % Span(unit) = 0 /\ hi % Span(unit) = 0
              /\ lo = IF from <= to THEN from ELSE to
              /\ hi = IF from <= to THEN to ELSE from
<1> DEFINE s == Span(unit)
           b == Boundaries(unit, from, to)
<1>1. /\ from \in Int /\ to \in Int /\ from % s = 0 /\ to % s = 0
      /\ s \in Nat \ {0} /\ s >= 3
    BY SpanFacts DEF Dates, Instants
<1>2. /\ StartOf(from, unit) = from /\ LastMilli(to, unit) = to + s - 2
      /\ StartOf(to, unit) = to
    BY <1>1, Whole
<1>3. /\ Min({from, to}) = IF from <= to THEN from ELSE to
      /\ Max({from, to}) = IF from <= to THEN to ELSE from
    <2>1. CASE from <= to
        BY <1>1, <2>1, LeastIs, GreatestIs
    <2>2. CASE ~(from <= to)
        <3>1. /\ Min({from, to}) = to
              /\ Max({from, to}) = from
            BY <1>1, <2>2, LeastIs, GreatestIs
        <3>2. QED
            BY <2>2, <3>1
    <2>3. QED
        BY <2>1, <2>2
<1>4. CASE from <= to
    <2>1. b[1] = from /\ b[2] = to + s - 2
        BY <1>1, <1>2, <1>4 DEF Boundaries
    <2>2. StartOf(to + s - 2, unit) = to
        BY <1>1, StartIs
    <2>3. ASSUME NEW c \in Int, c % s = 0
          PROVE  (c <= to + s - 2 /\ (c < to + s - 2 \/ StartOf(c, unit) = to)) <=> c <= to
        <3>1. c < to + s - 2 => c <= to
            BY <1>1, <2>3, StartsApart
        <3>2. StartOf(c, unit) = c
            BY <2>3, Whole
        <3>3. QED
            BY <1>1, <3>1, <3>2
    <2>4. BucketsFromRange(unit, from, to + s - 2) = UnitsFrom(unit, from, to)
        BY <1>1, <1>2, <2>2, <2>3 DEF BucketsFromRange, UnitsFrom
    <2>5. QED
        BY <1>1, <1>3, <1>4, <2>1, <2>4
<1>5. CASE ~(from <= to)
    <2>1. to + s <= from
        <3>1. ~(from < to + s)
            BY <1>1, <1>5, StartsApart
        <3>2. QED
            BY <1>1, <3>1
    <2>2. b[1] = to + s - 2 /\ b[2] = from
        BY <1>1, <1>2, <2>1 DEF Boundaries
    <2>3. StartOf(to + s - 2, unit) = to
        BY <1>1, StartIs
    <2>4. ASSUME NEW c \in Int, c % s = 0
          PROVE  (c <= from /\ (c < from \/ StartOf(c, unit) = StartOf(from, unit))) <=> c <= from
        <3>1. StartOf(c, unit) = c
            BY <2>4, Whole
        <3>2. QED
            BY <1>1, <1>2, <2>4, <3>1
    <2>5. BucketsFromRange(unit, to + s - 2, from) = UnitsFrom(unit, to, from)
        BY <1>1, <1>2, <2>3, <2>4 DEF BucketsFromRange, UnitsFrom
    <2>6. QED
        BY <1>1, <1>3, <1>5, <2>2, <2>5
<1>6. QED
    BY <1>4, <1>5

-----------------------------------------------------------------------------
(* Analytics: each row in the bucket of its date *)

LEMMA RowFacts ==
    ASSUME AnalyticsTypeOK
    PROVE  /\ DOMAIN reports \in SUBSET Nat /\ IsFiniteSet(DOMAIN reports)
           /\ \A i \in DOMAIN reports : reports[i].at \in Nat
           /\ clock \in Int /\ \A u \in Reporters : joined[u] \in Int
<1>1. reports \in Seq(Report) /\ Instants \subseteq Nat /\ Instants \cup {NotYet} \subseteq Int
    BY AnalyticsBounds DEF AnalyticsTypeOK, Instants, PerDay, NotYet
<1>2. DOMAIN reports = 1 .. Len(reports) /\ Len(reports) \in Nat
      /\ \A i \in DOMAIN reports : reports[i] \in Report
    BY <1>1
<1>3. IsFiniteSet(DOMAIN reports)
    BY <1>2, FS_Interval
<1>4. \A i \in DOMAIN reports : reports[i].at \in Nat
    BY <1>1, <1>2 DEF Report
<1>5. clock \in Int /\ \A u \in Reporters : joined[u] \in Int
    BY <1>1 DEF AnalyticsTypeOK
<1>6. QED
    BY <1>2, <1>3, <1>4, <1>5

\* Rows grouped by a function of theirs add up to the rows.
LEMMA Grouped ==
    ASSUME NEW rows, IsFiniteSet(rows), NEW f
    PROVE  SumFunction([t \in {f[i] : i \in rows} |-> Cardinality({i \in rows : f[i] = t})])
           = Cardinality(rows)
<1> DEFINE S == {f[i] : i \in rows}
           parts == [t \in S |-> {i \in rows : f[i] = t}]
           g == [i \in rows |-> f[i]]
<1>1. IsFiniteSet(S)
    <2>1. g \in Surjection(rows, S)
        BY DEF Surjection
    <2>2. QED
        BY <2>1, FS_Surjection
<1>2. \A t \in S : parts[t] = {i \in rows : f[i] = t} /\ IsFiniteSet(parts[t])
    BY FS_Subset
<1>3. \A t, w \in S : t # w => parts[t] \cap parts[w] = {}
    BY <1>2
<1>4. \A x : x \in rows <=> \E t \in S : x \in parts[t]
    BY <1>2
<1>5. PICK h : h = [t \in S |-> Cardinality({i \in rows : f[i] = t})]
    OBVIOUS
<1>6. DOMAIN h = S /\ \A t \in S : h[t] = Cardinality(parts[t])
    BY <1>2, <1>5
<1> HIDE DEF S, parts
<1>7. CountsParts(h, parts, rows)
    BY <1>1, <1>2, <1>3, <1>4, <1>6 DEF CountsParts
<1>8. QED
    BY <1>5, <1>7, SumOfParts DEF S

\* An instant between a beginning and the last millisecond of a later unit
\* is in a unit of the two or between them.
LEMMA InUnits ==
    ASSUME NEW unit \in Units, NEW lo \in Int, NEW hi \in Int,
           lo % Span(unit) = 0, hi % Span(unit) = 0,
           NEW t \in Int, lo <= t, t <= LastMilli(hi, unit)
    PROVE  StartOf(t, unit) \in UnitsFrom(unit, lo, hi)
<1>1. PICK s \in Nat \ {0} : s = Span(unit)
    BY SpanFacts
<1>2. PICK c \in Int : c = StartOf(t, unit) /\ c % s = 0 /\ c <= t /\ t < c + s
    BY <1>1, StartFacts
<1>3. LastMilli(hi, unit) = hi + s - 2
    BY <1>1, Whole
<1>4. lo < c + s /\ c < hi + s
    BY <1>1, <1>2, <1>3
<1>5. lo <= c /\ c <= hi
    BY <1>1, <1>2, <1>4, StartsApart
<1>6. QED
    BY <1>1, <1>2, <1>5 DEF UnitsFrom

\* A trend over some units counts every report from the first to the last.
LEMMA Trend ==
    ASSUME AnalyticsTypeOK,
           NEW unit \in Units, NEW lo \in Int, NEW hi \in Int, lo <= hi,
           lo % Span(unit) = 0, hi % Span(unit) = 0
    PROVE  SumFunction(CountInto(unit, UnitsFrom(unit, lo, hi)))
           = Cardinality(ReportsBetween(lo, LastMilli(hi, unit)))
<1> DEFINE B == UnitsFrom(unit, lo, hi)
           rows == ReportsBetween(lo, LastMilli(hi, unit))
           parts == [c \in B |-> {i \in rows : StartOf(AsDate(reports[i].at), unit) = c}]
<1>1. /\ IsFiniteSet(B) /\ B \subseteq Int /\ Min(B) = lo /\ Max(B) = hi
    BY UnitsFacts
<1>2. IsFiniteSet(rows) /\ rows \subseteq DOMAIN reports
    BY RowFacts, FS_Subset DEF ReportsBetween
<1>3. \A c \in B : /\ parts[c] = {i \in rows : StartOf(AsDate(reports[i].at), unit) = c}
                   /\ IsFiniteSet(parts[c])
    BY <1>2, FS_Subset
<1>4. \A c, d \in B : c # d => parts[c] \cap parts[d] = {}
    BY <1>3
<1>5. ASSUME NEW i \in rows PROVE StartOf(AsDate(reports[i].at), unit) \in B
    <2>1. PICK t \in Nat : t = reports[i].at
        BY <1>2, RowFacts
    <2>2. lo <= t /\ t <= LastMilli(hi, unit)
        BY <2>1 DEF ReportsBetween
    <2>3. StartOf(t, unit) \in UnitsFrom(unit, lo, hi)
        BY <2>2, InUnits
    <2>4. StartOf(AsDate(t), unit) = StartOf(t, unit)
        BY DateStays
    <2>5. QED
        BY <2>1, <2>3, <2>4
<1>6. PICK h, P, R : h = CountInto(unit, B) /\ P = parts /\ R = rows
    OBVIOUS
<1>7. DOMAIN h = B /\ \A c \in B : h[c] = Cardinality(P[c])
    BY <1>1, <1>3, <1>6 DEF CountInto
<1> HIDE DEF B, rows
<1>8. /\ \A x : x \in R <=> \E c \in B : x \in P[c]
      /\ \A c \in B : IsFiniteSet(P[c])
      /\ \A c, d \in B : c # d => P[c] \cap P[d] = {}
    BY <1>3, <1>4, <1>5, <1>6
<1> HIDE DEF parts
<1>9. CountsParts(h, P, R)
    BY <1>1, <1>7, <1>8 DEF CountsParts
<1>10. SumFunction(h) = Cardinality(R)
    BY <1>9, SumOfParts
<1>11. QED
    BY <1>6, <1>10 DEF B, rows

LEMMA RangeTrend ==
    ASSUME AnalyticsTypeOK, NEW unit \in Units, NEW from \in Dates(unit), NEW to \in Dates(unit)
    PROVE  SumFunction(GetTrend(unit, from, to))
           = Cardinality(ReportsBetween(Min({from, to}), LastMilli(Max({from, to}), unit)))
<1> DEFINE b == Boundaries(unit, from, to)
<1>1. PICK lo \in Int, hi \in Int :
          /\ lo = Min({from, to}) /\ hi = Max({from, to}) /\ lo <= hi
          /\ lo % Span(unit) = 0 /\ hi % Span(unit) = 0
          /\ BucketsFromRange(unit, b[1], b[2]) = UnitsFrom(unit, lo, hi)
    BY SMTT(30), BucketsAre
<1>2. GetTrend(unit, from, to) = CountInto(unit, UnitsFrom(unit, lo, hi))
    BY <1>1 DEF GetTrend
<1>3. SumFunction(CountInto(unit, UnitsFrom(unit, lo, hi)))
      = Cardinality(ReportsBetween(lo, LastMilli(hi, unit)))
    BY <1>1, Trend
<1>4. QED
    BY <1>1, <1>2, <1>3

LEMMA RangeIs ==
    ASSUME NEW from \in Dates("day"), NEW to \in Dates("day")
    PROVE  RequestedRange(from, to)
           = ReportsBetween(Min({from, to}), LastMilli(Max({from, to}), "day"))
<1>1. "day" \in Units
    BY DEF Units
<1>2. PICK lo \in Int : lo = Min({from, to}) /\ lo % Span("day") = 0
    BY <1>1, BucketsAre
<1>3. StartOf(lo, "day") = lo
    BY <1>1, <1>2, Whole
<1>4. QED
    BY <1>2, <1>3 DEF RequestedRange

LEMMA DayFigures ==
    ASSUME AnalyticsTypeOK, NEW from \in Dates("day"), NEW to \in Dates("day")
    PROVE  /\ SumFunction(GetTrend("day", from, to)) = RecentReports(from, to)
           /\ SumFunction(GetMessageTypeDistribution(from, to)) = RecentReports(from, to)
           /\ SumFunction(GetReporterLeaderboard(from, to)) = RecentReports(from, to)
           /\ Cardinality(DOMAIN GetReporterLeaderboard(from, to)) = UniqueReporters(from, to)
<1> DEFINE rows == RequestedRange(from, to)
           types == [i \in DOMAIN reports |-> reports[i].type]
           authors == [i \in DOMAIN reports |-> reports[i].by]
<1>1. SumFunction(GetTrend("day", from, to)) = RecentReports(from, to)
    BY RangeTrend, RangeIs DEF RecentReports, Units
<1>2. IsFiniteSet(rows) /\ rows \subseteq DOMAIN reports
    BY RowFacts, FS_Subset DEF RequestedRange, ReportsBetween
<1>3. SumFunction(GetMessageTypeDistribution(from, to)) = RecentReports(from, to)
    <2>1. SumFunction([t \in {types[i] : i \in rows} |-> Cardinality({i \in rows : types[i] = t})])
          = Cardinality(rows)
        BY <1>2, Grouped
    <2>2. \A i \in rows : types[i] = reports[i].type
        BY <1>2
    <2> HIDE DEF rows, types
    <2>3. /\ {types[i] : i \in rows} = {reports[i].type : i \in rows}
          /\ \A t : {i \in rows : types[i] = t} = {i \in rows : reports[i].type = t}
        BY <2>2
    <2>4. GetMessageTypeDistribution(from, to)
          = [t \in {types[i] : i \in rows} |-> Cardinality({i \in rows : types[i] = t})]
        BY <2>3 DEF GetMessageTypeDistribution, rows
    <2>5. QED
        BY <2>1, <2>4 DEF RecentReports, rows
<1>4. SumFunction(GetReporterLeaderboard(from, to)) = RecentReports(from, to)
    <2>1. SumFunction([t \in {authors[i] : i \in rows} |-> Cardinality({i \in rows : authors[i] = t})])
          = Cardinality(rows)
        BY <1>2, Grouped
    <2>2. \A i \in rows : authors[i] = reports[i].by
        BY <1>2
    <2> HIDE DEF rows, authors
    <2>3. /\ {authors[i] : i \in rows} = {reports[i].by : i \in rows}
          /\ \A t : {i \in rows : authors[i] = t} = {i \in rows : reports[i].by = t}
        BY <2>2
    <2>4. GetReporterLeaderboard(from, to)
          = [t \in {authors[i] : i \in rows} |-> Cardinality({i \in rows : authors[i] = t})]
        BY <2>3 DEF GetReporterLeaderboard, rows
    <2>5. QED
        BY <2>1, <2>4 DEF RecentReports, rows
<1>5. Cardinality(DOMAIN GetReporterLeaderboard(from, to)) = UniqueReporters(from, to)
    BY DEF GetReporterLeaderboard, UniqueReporters
<1>6. QED
    BY <1>1, <1>3, <1>4, <1>5

LEMMA RecentFigures ==
    ASSUME AnalyticsTypeOK, NEW days \in Nat \ {0}
    PROVE  SumFunction(GetRecentTrend(days)) = ReportsOfLastDays(days)
<1>1. "day" \in Units /\ Span("day") = 3 /\ clock \in Int
    BY RowFacts DEF Units, Span, PerDay
<1>2. PICK st \in Int : st = StartOf(clock, "day") /\ st % 3 = 0
    BY <1>1, StartFacts
<1>3. PICK n \in Nat : n = days - 1
    OBVIOUS
<1>4. PICK lo \in Int : lo = st - 3 * n
    OBVIOUS
<1>5. lo % 3 = 0 /\ lo <= st
    BY <1>2, <1>4
<1>6. TrendBuckets(days) = UnitsFrom("day", lo, st)
    <2>1. TrendBuckets(days) = {st - 3 * k : k \in 0 .. n}
        BY <1>2, <1>3 DEF TrendBuckets, PerDay
    <2>2. ASSUME NEW k \in 0 .. n
          PROVE  st - 3 * k \in lo .. st /\ (st - 3 * k) % 3 = 0
        BY <1>2, <1>4
    <2>3. ASSUME NEW c \in lo .. st, c % 3 = 0
          PROVE  \E k \in 0 .. n : c = st - 3 * k
        <3>1. PICK q \in Int : st = 3 * q
            BY <1>2
        <3>2. PICK r \in Int : c = 3 * r
            BY <2>3
        <3>3. q - r \in 0 .. n /\ c = st - 3 * (q - r)
            BY <1>4, <2>3, <3>1, <3>2
        <3>4. QED
            BY <3>3
    <2>4. UnitsFrom("day", lo, st) = {c \in lo .. st : c % 3 = 0}
        BY <1>1 DEF UnitsFrom
    <2>5. \A c : c \in UnitsFrom("day", lo, st) <=> c \in lo .. st /\ c % 3 = 0
        BY <2>4
    <2>6. \A c : c \in TrendBuckets(days) <=> \E k \in 0 .. n : c = st - 3 * k
        BY <2>1
    <2>7. \A c : c \in TrendBuckets(days) <=> c \in UnitsFrom("day", lo, st)
        BY <2>2, <2>3, <2>5, <2>6
    <2>8. QED
        BY <2>7
<1>7. SumFunction(CountInto("day", UnitsFrom("day", lo, st)))
      = Cardinality(ReportsBetween(lo, LastMilli(st, "day")))
    BY <1>1, <1>2, <1>5, Trend
<1>8. LastMilli(st, "day") = LastMilli(clock, "day")
    <2>1. StartOf(st, "day") = st
        BY <1>1, <1>2, Whole
    <2>2. QED
        BY <1>2, <2>1 DEF LastMilli
<1>9. ReportsOfLastDays(days) = Cardinality(ReportsBetween(lo, LastMilli(clock, "day")))
    <2>1. StartOf(clock, "day") - PerDay * (days - 1) = lo
        BY <1>2, <1>3, <1>4 DEF PerDay
    <2>2. QED
        BY <2>1 DEF ReportsOfLastDays
<1>10. QED
    BY <1>6, <1>7, <1>8, <1>9 DEF GetRecentTrend

-----------------------------------------------------------------------------
(* Analytics: registrations, and the theorems *)

LEMMA Multiples ==
    ASSUME NEW s \in Nat \ {0}, NEW a \in Int, a % s = 0, NEW c \in Int
    PROVE  (c - a) % s = 0 <=> c % s = 0
<1>1. PICK q \in Int : q = a \div s
    BY Divided
<1>2. PICK m \in Int : m = q * s /\ a = m
    <2>1. a = q * s + (a % s)
        BY <1>1, Divided
    <2>2. PICK m \in Int : m = q * s
        BY <1>1
    <2>3. QED
        BY <2>1, <2>2
<1>3. ASSUME c % s = 0 PROVE (c - a) % s = 0
    <2>1. PICK p \in Int : p = c \div s
        BY Divided
    <2>2. c = p * s + (c % s)
        BY <2>1, Divided
    <2>3. PICK n \in Int : n = p * s /\ c = n
        <3>1. PICK n \in Int : n = p * s
            BY <2>1
        <3>2. QED
            BY <2>2, <1>3, <3>1
    <2>4. (p - q) * s + 0 = n - m
        BY <1>1, <1>2, <2>1, <2>3
    <2>5. ((p - q) * s + 0) % s = 0
        <3>1. p - q \in Int /\ 0 \in 0 .. s - 1
            BY <1>1, <2>1
        <3>2. QED
            BY <3>1, Remains
    <2>6. QED
        BY <1>2, <2>3, <2>4, <2>5
<1>4. ASSUME (c - a) % s = 0 PROVE c % s = 0
    <2>1. PICK p \in Int : p = (c - a) \div s
        BY Divided
    <2>2. PICK d \in Int : d = c - a /\ d % s = 0
        BY <1>4
    <2>3. d = p * s + (d % s)
        BY <2>1, <2>2, Divided
    <2>4. PICK n \in Int : n = p * s
        BY <2>1
    <2>5. (p + q) * s + 0 = n + m
        BY <1>1, <1>2, <2>1, <2>4
    <2>6. ((p + q) * s + 0) % s = 0
        <3>1. p + q \in Int /\ 0 \in 0 .. s - 1
            BY <1>1, <2>1
        <3>2. QED
            BY <3>1, Remains
    <2>7. c = n + m
        BY <1>2, <2>2, <2>3, <2>4
    <2>8. QED
        BY <2>5, <2>6, <2>7
<1>5. QED
    BY <1>3, <1>4

\* The buckets of the registrations are the units of the range.
LEMMA UserBucketsAre ==
    ASSUME NEW unit \in Units, NEW from \in Dates(unit), NEW to \in Dates(unit), from <= to
    PROVE  LET b == Boundaries(unit, from, to)
           IN UserBuckets(unit, b[1], b[2]) = UnitsFrom(unit, from, to)
<1> DEFINE b == Boundaries(unit, from, to)
<1>1. PICK s \in Nat \ {0} : s = Span(unit) /\ s >= 3
    BY SpanFacts
<1>2. from \in Int /\ to \in Int /\ from % s = 0 /\ to % s = 0
    BY <1>1 DEF Dates, Instants
<1>3. /\ StartOf(from, unit) = from /\ LastMilli(to, unit) = to + s - 2
    BY <1>1, <1>2, Whole
<1>4. b[1] = from /\ b[2] = to + s - 2
    BY <1>1, <1>2, <1>3 DEF Boundaries
<1>5. StartOf(to + s - 2, unit) = to
    BY <1>1, <1>2, StartIs
<1>6. ASSUME NEW c \in Int
      PROVE  /\ c \in from .. to + s - 2 + s
             /\ (c - from) % s = 0
             /\ c < to + s - 2 \/ StartOf(c, unit) = to
             <=> c \in from .. to /\ c % s = 0
    <2>1. (c - from) % s = 0 <=> c % s = 0
        BY <1>1, <1>2, Multiples
    <2>2. ASSUME c % s = 0, c < to + s - 2 PROVE c <= to
        BY <1>1, <1>2, <2>2, StartsApart
    <2>3. c % s = 0 => StartOf(c, unit) = c
        BY <1>1, Whole
    <2>4. QED
        BY <1>1, <1>2, <2>1, <2>2, <2>3
<1>7. UserBuckets(unit, from, to + s - 2)
      = {c \in from .. to + s - 2 + s : /\ (c - from) % s = 0
                                        /\ c < to + s - 2 \/ StartOf(c, unit) = to}
    BY <1>1, <1>5 DEF UserBuckets
<1>8. UnitsFrom(unit, from, to) = {c \in from .. to : c % s = 0}
    BY <1>1 DEF UnitsFrom
<1>9. from .. to \subseteq Int /\ from .. to + s - 2 + s \subseteq Int
    BY <1>1, <1>2
<1>10. UserBuckets(unit, from, to + s - 2) = UnitsFrom(unit, from, to)
    BY <1>6, <1>7, <1>8, <1>9
<1>11. QED
    BY <1>4, <1>10

LEMMA UserFigures ==
    ASSUME AnalyticsTypeOK,
           NEW unit \in Units, NEW from \in Dates(unit), NEW to \in Dates(unit), from <= to
    PROVE  SumFunction(GetUserTrend(unit, from, to))
           = Cardinality({u \in JoinedBetween(from, LastMilli(to, unit)) :
                             joined[u] <= LastMilli(joined[u], unit)})
<1>1. PICK s \in Nat \ {0} : s = Span(unit) /\ s >= 3
    BY SpanFacts
<1>2. from \in Int /\ to \in Int /\ from % s = 0 /\ to % s = 0
    BY <1>1 DEF Dates, Instants
<1>3. PICK B : B = UnitsFrom(unit, from, to)
    OBVIOUS
<1>4. IsFiniteSet(B) /\ B = {c \in from .. to : c % s = 0}
    <2>1. IsFiniteSet(B)
        BY <1>1, <1>2, <1>3, UnitsFacts
    <2>2. QED
        BY <1>1, <1>3, <2>1 DEF UnitsFrom
<1>5. PICK all : all = {u \in JoinedBetween(from, LastMilli(to, unit)) :
                           joined[u] <= LastMilli(joined[u], unit)}
    OBVIOUS
<1>6. PICK parts : parts = [c \in B |-> JoinedBetween(c, LastMilli(c, unit))]
    OBVIOUS
<1>7. PICK h : h = GetUserTrend(unit, from, to)
    OBVIOUS
<1>8. h = [c \in B |-> Cardinality(JoinedBetween(c, LastMilli(c, unit)))]
    BY <1>3, <1>7, UserBucketsAre DEF GetUserTrend
<1>9. /\ DOMAIN h = B
      /\ \A c \in B : IsFiniteSet(parts[c]) /\ h[c] = Cardinality(parts[c])
    <2>1. \A c \in B : parts[c] = JoinedBetween(c, LastMilli(c, unit))
        BY <1>6
    <2>2. \A c \in B : JoinedBetween(c, LastMilli(c, unit)) \subseteq Reporters
        BY DEF JoinedBetween
    <2>3. \A c \in B : IsFiniteSet(parts[c])
        BY <2>1, <2>2, ReportersAssumption, FS_Subset
    <2>4. QED
        BY <1>8, <2>1, <2>3
<1>10. ASSUME NEW c \in B, NEW u
       PROVE  u \in parts[c] <=> u \in Reporters /\ c <= joined[u] /\ joined[u] <= c + s - 2
    <2>1. LastMilli(c, unit) = c + s - 2
        BY <1>1, <1>4, Whole
    <2>2. QED
        BY <1>6, <2>1 DEF JoinedBetween
<1>11. ASSUME NEW c \in B, NEW d \in B, c # d
       PROVE  parts[c] \cap parts[d] = {}
    <2>1. SUFFICES ASSUME NEW u \in parts[c], u \in parts[d] PROVE FALSE
        OBVIOUS
    <2>2. /\ c \in Int /\ c % s = 0 /\ c <= joined[u] /\ joined[u] <= c + s - 2
          /\ d \in Int /\ d % s = 0 /\ d <= joined[u] /\ joined[u] <= d + s - 2
          /\ joined[u] \in Int
        BY <1>2, <1>4, <1>10, <2>1, RowFacts
    <2>3. c < d + s /\ d < c + s
        BY <1>1, <2>2
    <2>4. c <= d /\ d <= c
        BY <1>1, <2>2, <2>3, StartsApart
    <2>5. QED
        BY <1>11, <2>2, <2>4
<1>12. ASSUME NEW u
       PROVE  u \in all <=> \E c \in B : u \in parts[c]
    <2>1. LastMilli(to, unit) = to + s - 2
        BY <1>1, <1>2, Whole
    <2>2. u \in all <=> /\ u \in Reporters /\ from <= joined[u] /\ joined[u] <= to + s - 2
                        /\ joined[u] <= LastMilli(joined[u], unit)
        BY <1>5, <2>1 DEF JoinedBetween
    <2>3. ASSUME u \in Reporters PROVE u \in all <=> \E c \in B : u \in parts[c]
        <3>1. PICK j \in Int : j = joined[u]
            BY <2>3, RowFacts
        <3>2. PICK c \in Int : c = StartOf(j, unit) /\ c % s = 0 /\ c <= j /\ j < c + s
            BY <1>1, StartFacts
        <3>3. LastMilli(j, unit) = c + s - 2
            BY <1>1, <3>2 DEF LastMilli
        <3>4. ASSUME u \in all PROVE c \in B /\ u \in parts[c]
            <4>1. from <= j /\ j <= to + s - 2 /\ j <= c + s - 2
                BY <2>2, <3>1, <3>3, <3>4
            <4>2. c \in UnitsFrom(unit, from, to)
                BY <1>1, <1>2, <2>1, <3>2, <4>1, InUnits
            <4>3. QED
                BY <1>3, <1>10, <2>3, <3>1, <3>2, <4>1, <4>2
        <3>5. ASSUME NEW d \in B, u \in parts[d] PROVE u \in all
            <4>1. d \in Int /\ d % s = 0 /\ from <= d /\ d <= to /\ d <= j /\ j <= d + s - 2
                BY <1>2, <1>4, <1>10, <3>1, <3>5
            <4>2. c = d
                BY <1>1, <3>2, <4>1, StartIs
            <4>3. from <= j /\ j <= to + s - 2 /\ j <= c + s - 2
                BY <1>1, <1>2, <4>1, <4>2
            <4>4. QED
                BY <2>2, <2>3, <3>1, <3>3, <4>3
        <3>6. QED
            BY <3>4, <3>5
    <2>4. QED
        BY <2>2, <2>3, <1>10
<1>13. CountsParts(h, parts, all)
    BY <1>4, <1>9, <1>11, <1>12 DEF CountsParts
<1>14. QED
    BY <1>5, <1>7, <1>13, SumOfParts

\* Rows keep their types.
THEOREM AnalyticsTypes == AnalyticsSpec => []AnalyticsTypeOK
<1>1. AnalyticsInit => AnalyticsTypeOK
    <2>1. 0 \in Instants
        BY AnalyticsBounds DEF Instants, PerDay
    <2>2. QED
        BY <2>1, AnalyticsBounds DEF AnalyticsInit, AnalyticsTypeOK
<1>2. AnalyticsTypeOK /\ [AnalyticsNext]_analyticsVars => AnalyticsTypeOK'
    <2> SUFFICES ASSUME AnalyticsTypeOK, [AnalyticsNext]_analyticsVars
                 PROVE  AnalyticsTypeOK'
        OBVIOUS
    <2>1. CASE CreateReport
        <3>1. PICK u \in Reporters, t \in MessageTypes :
                  /\ Len(reports) < MaxReports
                  /\ reports' = Append(reports, [at |-> clock, by |-> u, type |-> t])
                  /\ UNCHANGED <<clock, joined>>
            BY <2>1 DEF CreateReport
        <3>2. [at |-> clock, by |-> u, type |-> t] \in Report
            BY DEF AnalyticsTypeOK, Report
        <3>3. reports' \in Seq(Report) /\ Len(reports') = Len(reports) + 1 /\ Len(reports) \in Nat
            <4>1. reports \in Seq(Report)
                BY DEF AnalyticsTypeOK
            <4>2. QED
                BY <3>1, <3>2, <4>1
        <3>4. Len(reports') <= MaxReports
            BY <3>1, <3>3, AnalyticsBounds
        <3>5. QED
            BY <3>1, <3>3, <3>4 DEF AnalyticsTypeOK
    <2>2. CASE JoinUser
        BY <2>2 DEF JoinUser, AnalyticsTypeOK
    <2>3. CASE TimePasses
        BY <2>3 DEF TimePasses, AnalyticsTypeOK
    <2>4. CASE UNCHANGED analyticsVars
        BY <2>4 DEF analyticsVars, AnalyticsTypeOK
    <2>5. QED
        BY <2>1, <2>2, <2>3, <2>4 DEF AnalyticsNext
<1>3. QED
    BY <1>1, <1>2, PTL DEF AnalyticsSpec

LEMMA AddUp == AnalyticsTypeOK => TrendsAddUp
<1> SUFFICES ASSUME AnalyticsTypeOK PROVE TrendsAddUp
    OBVIOUS
<1>1. \A from, to \in Dates("day") :
        /\ SumFunction(GetTrend("day", from, to)) = RecentReports(from, to)
        /\ SumFunction(GetMessageTypeDistribution(from, to)) = RecentReports(from, to)
        /\ SumFunction(GetReporterLeaderboard(from, to)) = RecentReports(from, to)
        /\ Cardinality(DOMAIN GetReporterLeaderboard(from, to)) = UniqueReporters(from, to)
    BY DayFigures
<1>2. \A from, to \in Dates("month") :
        SumFunction(GetTrend("month", from, to))
        = Cardinality(ReportsBetween(Min({from, to}), LastMilli(Max({from, to}), "month")))
    BY RangeTrend DEF Units
<1>3. \A days \in 3 .. LastDay + 1 : SumFunction(GetRecentTrend(days)) = ReportsOfLastDays(days)
    <2>1. 3 .. LastDay + 1 \subseteq Nat \ {0}
        BY AnalyticsBounds
    <2>2. QED
        BY <2>1, RecentFigures
<1>4. \A unit \in {"day", "month"} : \A from, to \in Dates(unit) : from <= to =>
        SumFunction(GetUserTrend(unit, from, to))
        = Cardinality({u \in JoinedBetween(from, LastMilli(to, unit)) :
                          joined[u] <= LastMilli(joined[u], unit)})
    BY UserFigures DEF Units
<1>5. QED
    BY <1>1, <1>2, <1>3, <1>4 DEF TrendsAddUp

\* The figures shown side by side agree for any days, months, reports and
\* registrations: every report of a range is in exactly one bucket of its trend.
THEOREM TrendsAgree == AnalyticsSpec => []TrendsAddUp
<1>1. QED
    BY AnalyticsTypes, AddUp, PTL
=============================================================================
