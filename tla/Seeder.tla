------------------------------- MODULE Seeder -------------------------------
(***************************************************************************)
(* `npm run seed` (SeederService.run): it fills a database that nobody     *)
(* else is using, in a fixed order, and may be run again on what an        *)
(* earlier run left.  One action is one saved batch, which is atomic, with *)
(* the reads before it; `batch` is what is held in memory between two      *)
(* batches, and is lost when the command dies.  Texts, dates, languages    *)
(* and code presets are left out, as is the test group's avatar; messages  *)
(* are counted by the batch.                                               *)
(***************************************************************************)
EXTENDS Integers, Sequences, FiniteSets, FiniteSetsExt

CONSTANTS
    RequiredUsers,   \* required-users.json
    ImportantUsers,  \* important-accounts.json, all of them required here
    TestOwner,       \* the owner test-group-for-subscription.json names
    GeneratedUsers,  \* users createUsers may make up
    TotalUsers, TotalGroups, OwnGroups, TestGroupSize, GroupMembers, GroupInvites,
    TasksPerGroup, TargetReports,
    MaxRuns          \* bound: runs of the command

SeedUsers == Range(RequiredUsers) \cup GeneratedUsers

ASSUME SeederBounds ==
    /\ {TotalUsers, TotalGroups, OwnGroups, TestGroupSize, GroupMembers, GroupInvites,
        TasksPerGroup, TargetReports, MaxRuns} \subseteq Nat
    /\ RequiredUsers \in Seq(Range(RequiredUsers)) /\ Len(RequiredUsers) >= 2
    /\ IsFiniteSet(GeneratedUsers)
    /\ Cardinality(Range(RequiredUsers)) <= TotalUsers /\ TotalUsers <= Cardinality(SeedUsers)
    /\ TestGroupSize > 0 /\ TasksPerGroup > 0
    /\ ImportantUsers \subseteq Range(RequiredUsers) /\ TestOwner \in Range(RequiredUsers)

VARIABLES
    step,         \* the batch the command saves next, "off" when it is not running
    batch,        \* what it holds in memory
    catalog,      \* which of languages and report categories are complete
    people,       \* users
    speakers,     \* users with languages
    friendRows,   \* user_friend rows of each pair
    requestRows,  \* friend_request rows of each pair
    seedGroups,   \* groups, in order of insertion
    talk,         \* batches of messages, threads, replies and direct messages
    filed,        \* reports, and those with categories
    runs          \* history: runs started, whether the last one ended, whether some died

peopleVars == <<people, speakers>>
bondVars == <<friendRows, requestRows>>
restVars == <<catalog, talk, filed>>
seederVars == <<step, batch, peopleVars, bondVars, restVars, seedGroups, runs>>

-----------------------------------------------------------------------------
Pairs == {p \in SUBSET SeedUsers : Cardinality(p) = 2}
Talks == {"messages", "threads", "replies", "direct"}

SeedGroup == [test : BOOLEAN, owner : SeedUsers,
              members : [SeedUsers -> Nat],  \* user_group rows
              invited : SUBSET SeedUsers,
              languages : Nat,
              channels : Nat,      \* rows of each name of GROUP_CHANNELS
              tiers : Nat,         \* FREE group_subscription rows
              snapshots : Nat,     \* group_entitlement rows
              usages : Nat,        \* group_usage rows of the current cycle
              tasks : Nat, special : BOOLEAN, histories : Nat]
NewGroup(u, test) ==
    [test |-> test, owner |-> u, members |-> [v \in SeedUsers |-> 0], invited |-> {},
     languages |-> 0, channels |-> 0, tiers |-> 0, snapshots |-> 0, usages |-> 0,
     tasks |-> 0, special |-> FALSE, histories |-> 0]

Batch == [next : Nat,                    \* required users saved by this run
          users : SUBSET SeedUsers,      \* the users it made up
          requests : SUBSET Pairs,       \* friend requests to save after the friends
          groups : SUBSET Nat,           \* the groups it created
          tasks : Seq(Nat),              \* tasks it saved, whose history it has not
          reports : Nat]                 \* reports it saved, whose categories it has not
NoBatch == [next |-> 0, users |-> {}, requests |-> {}, groups |-> {}, tasks |-> <<>>, reports |-> 0]

Steps == {"off", "languages", "categories", "required", "users", "userLanguages", "friends",
          "requests", "connect", "testGroup", "testMembers", "testChannels", "testPlan", "groups",
          "plans", "members", "invitations", "important", "groupLanguages", "channels", "tiers",
          "snapshots", "usages", "messages", "threads", "replies", "direct", "tasks", "histories",
          "reports", "links"}
Then(from, to) == step = from /\ step' = to
Keeps(v) == UNCHANGED <<v, runs>>

MemberOf(g) == {u \in SeedUsers : g.members[u] > 0}
Owned(u, gs) == Cardinality({i \in DOMAIN gs : gs[i].owner = u})
AddRows(rows, S) == [x \in DOMAIN rows |-> rows[x] + (IF x \in S THEN 1 ELSE 0)]
Update(S, to(_)) ==
    seedGroups' = [i \in DOMAIN seedGroups |-> IF i \in S THEN to(seedGroups[i]) ELSE seedGroups[i]]
TestGroups == {i \in DOMAIN seedGroups : seedGroups[i].test}
AtLeast0(n) == Max({n, 0})

-----------------------------------------------------------------------------
(* Languages, report categories and users *)

StartRun ==
    /\ Then("off", "languages")
    /\ runs.started < MaxRuns
    /\ runs' = [runs EXCEPT !.started = @ + 1, !.ended = FALSE]
    /\ batch' = NoBatch
    /\ UNCHANGED <<peopleVars, bondVars, restVars, seedGroups>>

\* The entries of a file whose code or name no row has.
SaveMissing(entries) ==
    /\ catalog' = catalog \cup {entries}
    /\ Keeps(<<batch, peopleVars, bondVars, talk, filed, seedGroups>>)
SaveLanguages == Then("languages", "categories") /\ SaveMissing("languages")
SaveCategories == Then("categories", "required") /\ SaveMissing("categories")

\* seedRequiredUsers saves one user at a time: found by its address it is
\* overwritten, else inserted.
SaveRequiredUser ==
    /\ step = "required"
    /\ batch' = [batch EXCEPT !.next = @ + 1]
    /\ people' = people \cup {RequiredUsers[batch'.next]}
    /\ Then("required", IF batch'.next = Len(RequiredUsers) THEN "users" ELSE "required")
    /\ Keeps(<<speakers, bondVars, restVars, seedGroups>>)

CreateUsers ==
    /\ Then("users", "userLanguages")
    /\ \E new \in SUBSET (GeneratedUsers \ people) :
        /\ Cardinality(new) = AtLeast0(TotalUsers - Cardinality(people))
        /\ people' = people \cup new
        /\ batch' = [batch EXCEPT !.users = new]
    /\ Keeps(<<speakers, bondVars, restVars, seedGroups>>)

SeedLanguageCollections ==
    /\ Then("userLanguages", "friends")
    /\ speakers' = speakers \cup batch.users
    /\ Keeps(<<batch, people, bondVars, restVars, seedGroups>>)

\* Mutant: two users who are friends already are made friends again.
MutUnlinked(pairs) == pairs
\* The pairs no friendship row exists for, in either direction.
Unlinked(pairs) == {p \in pairs : friendRows[p] = 0}

\* ensureImportantFriendships: at the end every important user has a friend.
ImportantHaveFriends(rows) == \A u \in ImportantUsers : \E p \in Pairs : u \in p /\ rows[p] > 0

\* seedConnections: a user may ask another, and the other befriend it in its
\* own turn, so the two batches may share a pair.
SeedFriends ==
    /\ Then("friends", "requests")
    /\ \E friends, asked \in SUBSET Unlinked({p \in Pairs : p \subseteq people}) :
        /\ \A p \in asked : requestRows[p] = 0
        /\ friendRows' = AddRows(friendRows, friends)
        /\ ImportantHaveFriends(friendRows')
        /\ batch' = [batch EXCEPT !.requests = asked]
    /\ Keeps(<<peopleVars, requestRows, restVars, seedGroups>>)
SeedRequests ==
    /\ Then("requests", "connect")
    /\ requestRows' = AddRows(requestRows, batch.requests)
    /\ batch' = [batch EXCEPT !.requests = {}]
    /\ Keeps(<<peopleVars, friendRows, restVars, seedGroups>>)

EnsureRequiredUserFriendships ==
    /\ Then("connect", "testGroup")
    /\ friendRows' = AddRows(friendRows, Unlinked({p \in Pairs : p \subseteq Range(RequiredUsers)}))
    /\ Keeps(<<batch, peopleVars, requestRows, restVars, seedGroups>>)

-----------------------------------------------------------------------------
(* Groups *)

\* seedTestSubscriptionGroup: the group is found by its name.
SeedTestGroup ==
    /\ Then("testGroup", "testMembers")
    /\ seedGroups' = IF TestGroups = {} THEN Append(seedGroups, NewGroup(TestOwner, TRUE)) ELSE seedGroups
    /\ Keeps(<<batch, peopleVars, bondVars, restVars>>)

EnsureTestGroupMemberships ==
    /\ Then("testMembers", "testChannels")
    /\ \A i \in TestGroups :
        LET has == MemberOf(seedGroups[i])
            owner == {TestOwner} \ has
            pool == people \ (has \cup {TestOwner})
            needed == AtLeast0(TestGroupSize - Cardinality(has \cup {TestOwner}))
        IN \E chosen \in SUBSET pool :
            /\ Cardinality(chosen) = Min({needed, Cardinality(pool)})
            /\ Update({i}, LAMBDA g : [g EXCEPT !.members = AddRows(@, owner \cup chosen)])
    /\ Keeps(<<batch, peopleVars, bondVars, restVars>>)

EnsureTestGroupChannels ==
    /\ Then("testChannels", "testPlan")
    /\ Update({i \in TestGroups : seedGroups[i].channels = 0}, LAMBDA g : [g EXCEPT !.channels = 1])
    /\ Keeps(<<batch, peopleVars, bondVars, restVars>>)

\* assignFreePlan: a tier for those of the groups that have none.
AssignFreePlan(S) ==
    Update({i \in S : seedGroups[i].tiers = 0}, LAMBDA g : [g EXCEPT !.tiers = @ + 1])
TestFreePlan ==
    /\ Then("testPlan", "groups")
    /\ AssignFreePlan(TestGroups)
    /\ Keeps(<<batch, peopleVars, bondVars, restVars>>)

\* run: as many groups as are missing of the total, or of those the important
\* users are to own; with none missing nothing below is done for any group.
Deficit == SumFunction([u \in ImportantUsers |-> AtLeast0(OwnGroups - Owned(u, seedGroups))])
MissingGroups == Max({TotalGroups - Len(seedGroups), Deficit})

SkipGroups ==
    /\ Then("groups", "tiers")
    /\ MissingGroups <= 0
    /\ Keeps(<<batch, peopleVars, bondVars, restVars, seedGroups>>)
CreateGroups ==
    /\ Then("groups", "plans")
    /\ MissingGroups > 0
    /\ \E owners \in [1 .. MissingGroups -> people] :
        /\ seedGroups' = seedGroups \o [i \in 1 .. MissingGroups |-> NewGroup(owners[i], FALSE)]
        /\ \A u \in ImportantUsers : Owned(u, seedGroups') >= OwnGroups
    /\ batch' = [batch EXCEPT !.groups = DOMAIN seedGroups' \ DOMAIN seedGroups]
    /\ Keeps(<<peopleVars, bondVars, restVars>>)

NewFreePlan ==
    /\ Then("plans", "members")
    /\ AssignFreePlan(batch.groups)
    /\ Keeps(<<batch, peopleVars, bondVars, restVars>>)

\* assignMembers saves the members, then the invitations of others.
AssignMembers ==
    /\ Then("members", "invitations")
    /\ \E chosen \in [batch.groups -> SUBSET people] :
        /\ \A i \in batch.groups : LET others == people \ {seedGroups[i].owner}
                                   IN /\ chosen[i] \subseteq others
                                      /\ Cardinality(chosen[i]) = Min({GroupMembers, Cardinality(others)})
        /\ seedGroups' = [i \in DOMAIN seedGroups |->
            IF i \notin batch.groups THEN seedGroups[i]
            ELSE [seedGroups[i] EXCEPT !.members = AddRows(@, chosen[i] \cup {seedGroups[i].owner})]]
    /\ Keeps(<<batch, peopleVars, bondVars, restVars>>)
InviteOthers ==
    /\ Then("invitations", "important")
    /\ \E asked \in [batch.groups -> SUBSET people] :
        /\ \A i \in batch.groups : /\ asked[i] \cap MemberOf(seedGroups[i]) = {}
                                   /\ Cardinality(asked[i]) <= GroupInvites
        /\ seedGroups' = [i \in DOMAIN seedGroups |->
            IF i \notin batch.groups THEN seedGroups[i] ELSE [seedGroups[i] EXCEPT !.invited = asked[i]]]
    /\ Keeps(<<batch, peopleVars, bondVars, restVars>>)

\* An important user none of the new groups took joins one of them, invited
\* there or not.
EnsureImportantUsersInGroups ==
    /\ Then("important", "groupLanguages")
    /\ LET missing == ImportantUsers \ UNION {MemberOf(seedGroups[i]) : i \in batch.groups}
       IN \E to \in [missing -> batch.groups] :
           seedGroups' = [i \in DOMAIN seedGroups |->
               [seedGroups[i] EXCEPT !.members = AddRows(@, {u \in missing : to[u] = i})]]
    /\ Keeps(<<batch, peopleVars, bondVars, restVars>>)

AssignLanguages ==
    /\ Then("groupLanguages", "channels")
    /\ Update(batch.groups, LAMBDA g : [g EXCEPT !.languages = @ + 1])
    /\ Keeps(<<batch, peopleVars, bondVars, restVars>>)
CreateChannels ==
    /\ Then("channels", "tiers")
    /\ Update(batch.groups, LAMBDA g : [g EXCEPT !.channels = @ + 1])
    /\ Keeps(<<batch, peopleVars, bondVars, restVars>>)

-----------------------------------------------------------------------------
(* Group subscriptions *)

EnsureTiers ==
    /\ Then("tiers", "snapshots")
    /\ AssignFreePlan(DOMAIN seedGroups)
    /\ Keeps(<<batch, peopleVars, bondVars, restVars>>)
\* A snapshot for every tier that has none.
BackfillEntitlements ==
    /\ Then("snapshots", "usages")
    /\ Update(DOMAIN seedGroups, LAMBDA g : [g EXCEPT !.snapshots = Max({@, g.tiers})])
    /\ Keeps(<<batch, peopleVars, bondVars, restVars>>)
EnsureUsages ==
    /\ Then("usages", "messages")
    /\ Update({i \in DOMAIN seedGroups : seedGroups[i].usages = 0}, LAMBDA g : [g EXCEPT !.usages = 1])
    /\ Keeps(<<batch, peopleVars, bondVars, restVars>>)

-----------------------------------------------------------------------------
(* Messages, tasks and reports *)

\* Each member writes in the channels of its groups; there are always some, in
\* the test group at least.  Nothing asks what an earlier run wrote.
SeedTalk(kind, next) ==
    /\ Then(kind, next)
    /\ talk' = [talk EXCEPT ![kind] = @ + 1]
    /\ Keeps(<<batch, catalog, filed, peopleVars, bondVars, seedGroups>>)
SeedGroupConversations ==
    \/ SeedTalk("messages", "threads") \/ SeedTalk("threads", "replies") \/ SeedTalk("replies", "direct")
SeedDirectMessages == SeedTalk("direct", "tasks")

\* calculateRemainingSlots, buildTestGroupTasks, buildTasksForGroup: a group
\* without members gets none; the test group gets its two special tasks, one
\* even when it is full, unless the first is there.
RemainingSlots(g) == AtLeast0(TasksPerGroup - g.tasks)
SpecialTasks(g) == IF g.test /\ ~g.special THEN Min({Max({RemainingSlots(g), 1}), 2}) ELSE 0
PlannedTasks(g) ==
    IF MemberOf(g) = {} THEN 0 ELSE SpecialTasks(g) + AtLeast0(RemainingSlots(g) - SpecialTasks(g))

SeedTasks ==
    /\ Then("tasks", "histories")
    /\ batch' = [batch EXCEPT !.tasks = [i \in DOMAIN seedGroups |-> PlannedTasks(seedGroups[i])]]
    /\ Update(DOMAIN seedGroups, LAMBDA g : [g EXCEPT !.tasks = @ + PlannedTasks(g),
                                                     !.special = @ \/ (g.test /\ PlannedTasks(g) > 0)])
    /\ Keeps(<<peopleVars, bondVars, restVars>>)
SeedTaskHistories ==
    /\ Then("histories", "reports")
    /\ seedGroups' = [i \in DOMAIN seedGroups |-> [seedGroups[i] EXCEPT !.histories = @ + batch.tasks[i]]]
    /\ batch' = [batch EXCEPT !.tasks = <<>>]
    /\ Keeps(<<peopleVars, bondVars, restVars>>)

\* buildCandidates: how many messages there are to report; there are some.
Candidates(needed) == Min({needed, 1}) .. needed

SeedReports ==
    /\ Then("reports", "links")
    /\ \E n \in Candidates(AtLeast0(TargetReports - filed.reports)) :
           /\ filed' = [filed EXCEPT !.reports = @ + n]
           /\ batch' = [batch EXCEPT !.reports = n]
    /\ Keeps(<<catalog, talk, peopleVars, bondVars, seedGroups>>)
AssignCategories ==
    /\ Then("links", "off")
    /\ filed' = [filed EXCEPT !.categorized = @ + batch.reports]
    /\ runs' = [runs EXCEPT !.ended = TRUE]
    /\ batch' = NoBatch
    /\ UNCHANGED <<catalog, talk, peopleVars, bondVars, seedGroups>>

-----------------------------------------------------------------------------
\* The command dies, or one of its statements fails: nothing catches that.
RunFails ==
    /\ step # "off"
    /\ step' = "off"
    /\ runs' = [runs EXCEPT !.died = TRUE]
    /\ batch' = NoBatch
    /\ UNCHANGED <<peopleVars, bondVars, restVars, seedGroups>>

SeederInit ==
    /\ step = "off" /\ batch = NoBatch
    /\ catalog = {} /\ people = {} /\ speakers = {}
    /\ friendRows = [p \in Pairs |-> 0] /\ requestRows = [p \in Pairs |-> 0]
    /\ seedGroups = <<>>
    /\ talk = [k \in Talks |-> 0]
    /\ filed = [reports |-> 0, categorized |-> 0]
    /\ runs = [started |-> 0, ended |-> FALSE, died |-> FALSE]

SeederNext ==
    \/ StartRun \/ SaveLanguages \/ SaveCategories \/ SaveRequiredUser \/ CreateUsers \/ SeedLanguageCollections
    \/ SeedFriends \/ SeedRequests \/ EnsureRequiredUserFriendships
    \/ SeedTestGroup \/ EnsureTestGroupMemberships \/ EnsureTestGroupChannels \/ TestFreePlan
    \/ SkipGroups \/ CreateGroups \/ NewFreePlan \/ AssignMembers \/ InviteOthers
    \/ EnsureImportantUsersInGroups \/ AssignLanguages \/ CreateChannels
    \/ EnsureTiers \/ BackfillEntitlements \/ EnsureUsages
    \/ SeedGroupConversations \/ SeedDirectMessages \/ SeedTasks \/ SeedTaskHistories
    \/ SeedReports \/ AssignCategories \/ RunFails

SeederSpec == SeederInit /\ [][SeederNext]_seederVars

-----------------------------------------------------------------------------
(* Properties *)

SeederTypeOK ==
    /\ step \in Steps /\ batch \in Batch
    /\ catalog \subseteq {"languages", "categories"}
    /\ people \subseteq SeedUsers /\ speakers \subseteq people
    /\ friendRows \in [Pairs -> Nat] /\ requestRows \in [Pairs -> Nat]
    /\ seedGroups \in Seq(SeedGroup)
    /\ talk \in [Talks -> 0 .. MaxRuns]
    /\ filed \in [reports : Nat, categorized : Nat]
    /\ runs \in [started : 0 .. MaxRuns, ended : BOOLEAN, died : BOOLEAN]

\* What no number of runs, interrupted anywhere, stores twice.
NothingTwice ==
    /\ \A p \in Pairs : friendRows[p] <= 1 /\ requestRows[p] <= 1
    /\ Cardinality(people) <= TotalUsers /\ Cardinality(TestGroups) <= 1
    /\ \A i \in DOMAIN seedGroups : LET g == seedGroups[i] IN
        /\ \A u \in SeedUsers : g.members[u] <= 1
        /\ {g.languages, g.channels, g.tiers, g.snapshots, g.usages} \subseteq {0, 1}
        /\ g.histories <= g.tasks /\ g.tasks <= TasksPerGroup
    /\ filed.categorized <= filed.reports /\ filed.reports <= TargetReports

\* What a run that ended has made up for, whatever those before it left out.
MadeUp ==
    /\ \A p \in Pairs : p \subseteq Range(RequiredUsers) => friendRows[p] = 1
    /\ Cardinality(people) = TotalUsers
    /\ Len(seedGroups) >= TotalGroups
    /\ \A u \in ImportantUsers : Owned(u, seedGroups) >= OwnGroups
    /\ \A i \in DOMAIN seedGroups : LET g == seedGroups[i] IN
        /\ g.tiers = 1 /\ g.snapshots = 1 /\ g.usages = 1
        /\ MemberOf(g) # {} => g.tasks = TasksPerGroup
        /\ g.test => /\ g.channels = 1 /\ g.special
                     /\ Cardinality(MemberOf(g)) = Min({TestGroupSize, TotalUsers})

\* What is complete only as long as no run died.
Unbroken ==
    /\ speakers = people \ Range(RequiredUsers)
    /\ \A i \in DOMAIN seedGroups : LET g == seedGroups[i] IN
        /\ g.owner \in MemberOf(g) /\ g.channels = 1 /\ g.histories = g.tasks
        /\ ~g.test => g.languages = 1
    /\ filed.categorized = filed.reports

(***************************************************************************)
(* The seed command may be run again after it ended or died anywhere: no   *)
(* pair of users is befriended or asked twice, no member, channel, tier,   *)
(* snapshot, usage row, task or report is stored a second time, and a run  *)
(* that ends makes up for what earlier ones did not get to: required users *)
(* are friends, every group has its tier, snapshot and usage, the test     *)
(* group its members, channels and tasks.  Members, channels and languages *)
(* of other groups, task histories and report categories are complete only *)
(* if no run ever died (SeederService.run).                                *)
(***************************************************************************)
SeededOnce ==
    /\ NothingTwice
    /\ runs.ended => MadeUp
    /\ runs.ended /\ ~runs.died => Unbroken
=============================================================================
