# DevChat API: a TLA+ model of its server

DevChat is a chat and collaboration server for groups of developers, written in TypeScript on
NestJS, TypeORM and MySQL. This directory holds TLA+ modules that model its parts, TLC
configurations that check small instances, and TLAPS proofs for every value of the constants.

One fact shapes all of it. Handlers run several awaited SQL statements and open no database
transaction (the one exception is `GroupService.createOne`). Between two awaits any other request,
cron job or timer may run, and the process may die. So in every module one *task* or *request* is
one call in flight, its `pc` names the statement it runs next, and one action is one awaited
statement together with the synchronous code that follows it.

    tlc -workers 2 -config PaymentSerial.cfg MCPayment.tla
    tlapm PaymentProofs.tla

## 1. The system

| Part | State it keeps | Operations | Interacts with | Hard behaviour and what makes it correct |
|---|---|---|---|---|
| payment | `transaction`, `order` | `createDepositUrl`, `handleCallback` | VNPay, share fund, group plan, roles | callbacks repeated, concurrent or cut off. A settled payment was charged and served; its order follows it; one payment buys one plan |
| share fund | `share_fund` | create, donate, delete, edit | payment, transaction, order | read-add-write of the amount; deletion racing a contribution. Amount = recorded contributions; contributions survive |
| order, transaction | rows of a payment | queries, CRUD, statistics | payment | donations of a fund share one order, paid when the fund closes |
| group plan | `group_subscription`, `group_entitlement` | apply a purchase, five-minute sync, repair on reading | payment, clock | schedule of tiers against time, two writers of `isCurrent`. Paid months kept, upgrades immediate, one snapshot marked and in effect |
| subscription ranking | none | `compareSubscriptions` | group plan, group | must be an order, or an upgrade depends on the order of rows |
| subscription, group subscription | catalogue with versions, rows that point to it | create, duplicate, copy-on-write update, delete, seed at start; bind, end, rewrite | group plan, group | the "is it used" count is stale when the row is written. A group keeps the terms it bought |
| group | `group` | create (transactional), update, deactivate | membership, plan | member limit read before it is used |
| membership, invitation | `user_group`, `group_invitation` | add, remove, leave; invite, accept, decline, cancel | each other, group | check then insert without a unique index; double accept, cancel racing accept, crash between insert and delete. Limit kept, one row per member |
| friend request, user friend | `friend_request`, `user_friend` | send, accept, decline, cancel, remove | user | crossing requests; an index on directed pairs only. One row per friendship, both sides told the same |
| code execution, group usage | `run_code_cache`, `group_usage`, containers | run block, run collaboration, midnight reset | entitlement, messages | limit checked before, counted after; a timeout kills a shared container; cached output of an edited text |
| code block, code collaboration | texts | edit, delete | run cache | an edit drops the cache while a run is about to fill it |
| notification | unread rows, two timers | merge, flush, read, delete | message, socket | read-increment-write; a debounce with a maximum delay. Counts right, always announced |
| notification gateway, presence | sockets, rooms, views, deadlines | connect, authenticate, look, close | message | deadline racing authentication; views that outlive their socket. Nobody present is invented |
| message, thread, channel | three tables of messages, blocks, attachments | send, edit, delete, fetch, search; AI answers | notification, presence, code run | several deletes without foreign keys; what a room was told is what it would fetch |
| task | board, history | create, edit, move, delete | group | update first, history after; lock after DONE. History replays |
| auth, user | users, reset codes | register, log in by provider, verify, reset, profile, ban | mail | overwriting unverified rows, tokens shared by accounts, rows saved as they were read. Passwords change by their owner only |
| programming languages | the catalogue, a profile's list | add, move, rename, remove, replace the list | user | renumbering in several statements. Each language and each place once |
| report, user statistics | `report` | file, summarise, trends | clock | ranges against calendar buckets. Figures shown side by side agree |
| seed command | all tables | thirty batches | none | runs again on what an interrupted run left |
| todo, ai, files, start-up seeder, web shell | their rows | CRUD or I/O | few | single-step; nothing to interleave |

`PROJECT.json` lists each part with its sources and what is modelled of it, and, under `hazards`,
the places where these behaviours bite, with the property that covers each.

## 2. The modules

| Module | Content | Composed in | Proofs |
|---|---|---|---|
| `Payment`, `PaymentContract` | payments and share funds; what a payer is owed | `MCPayment` | `PaymentProofs` |
| `SubscriptionRanking`, `GroupPlan` | what a payment buys, against time | `MCGroupPlan` | `GroupPlanProofs` |
| `Membership`, `Friendship` | members, invitations and their limit; friends | `MCCommunity` | `CommunityProofs` |
| `CodeRun` | runs, their cache, their daily limit, the shared container | `MCWorkspace` | `ConversationProofs` |
| `Presence` | sockets and what they look at | `MCWorkspace` | `ConversationProofs` |
| `Notification` | digests and their timers | `MCWorkspace` | `ConversationProofs` |
| `Catalogue` | plans, versions and their uses | `MCWorkspace` | `RecordsProofs` |
| `Messages` | messages with blocks, attachments and events | `MCWorkspace` | `ConversationProofs` |
| `UserAccounts` | accounts, verification, passwords | `MCWorkspace`, `MCUserAccounts` | `PeopleProofs` |
| `Board`, `Languages` | tasks and their history; a profile's languages | `MCWorkspace` | `RecordsProofs` |
| `Analytics` | statistics | `MCWorkspace` | `RecordsProofs` |
| `Seeder` | the seed command | `MCWorkspace` | `PeopleProofs` |

`Sums` holds lemmas about sums over finite sets, for the proofs that add up. `WorkspaceProofs` carries
what is proved of each part over to `MCWorkspace`, `CommunityProofs` to `MCCommunity`.

`GroupPlan` details the step `Apply`/`Subscribe` of `Payment`, where a plan is granted in one
action, and `Catalogue` keeps the plans it grants. `Membership` reads the limit that `GroupPlan`
marks, as an input that may change at any time (`ChangePlan`). `Presence` decides who a digest goes
to, `Notification` what becomes of it; `Messages` edits the blocks `CodeRun` runs, and each has the
other's part as an action of its own (`CacheResult`, `EditBlock`).

`MCCommunity` and `MCWorkspace` put parts that share no table and no memory into one state space.
None of them can tell what another does, so a behaviour is one of the part named by `turn` while the
others stay at their start: what is explored is the sum of the parts, not their product, and every
property speaks of one part.

What could be added: the limit on the languages of a group and the catalogue of languages, which
have the shape of `Membership` and `Catalogue`.

## 3. Payment

`Payment.tla` models one group and one plan whose price is `Target`. A transaction code names the
row that a deposit inserts (`tx`, `pay`), the order that it may create (`order`) and the payment at
the gateway (`outcome`), which outlives the row. `late` is the row that a callback inserts when it
finds none. `plans` and `closed` count the subscriptions granted on behalf of a payment and of a
fund. `fund`, `members` and `roles` are the tables of those names. The gateway decides a payment
once and may deliver the answer up to `MaxDeliveries` times, also before deciding and unverified.

| Action | Code |
|---|---|
| `DepositStart` .. `DepositInsert` | `createDepositUrl` |
| `Callback`, `LookUp`, `CheckMember`, `ReadRole`, `WriteRole` | start of `handleCallback` |
| `ReadFund`, `AddAmount`, `CloseFund`, `DropPaidFund` | a donation reaches its fund |
| `Subscribe` | a subscription is applied |
| `Record`, `SetOrder`, `Recheck`, `CollectOrders`, `MarkPaid` | the transaction, then its order |
| `CreateFund..`, `Donate..`, `DeleteFund..` | `ShareFundService` |
| `ChangeMembership`, `Decide`, `Fail` | joining and leaving, the gateway, a crash |

Checks:

- `PaymentConcurrent` (two requests that may die, two payments, one fund, one user, two
  deliveries). `SettledIsServed`, `OrderFollowsPayment`, `DonationOrderNeverFailed`,
  `CompletedByCharge`, `ContributionsStay` and the refinement `ImplementsContract` hold on every
  schedule. Two requests are enough for every race of two statements, two payments for sharing an
  order. Requests and payments are symmetric, and only safety is checked here.
- `PaymentSerial` (one request at a time, no crash, two users, amounts 1 and 2 of a target of 2).
  `FundMatchesLedger`, `ContributorsServed`, `SharedOrder`, `PayerHasRole` are what the code keeps
  when requests do not overlap; with two requests each of them fails, through lost updates and
  repeated deliveries. The hazards say where. `ChargedIsSettled`: a charged payment whose payer is in
  the group ends up as SUCCESS, whatever became of its fund.
- `PaymentOverlap` (two requests on every schedule, no crash, two payments of one user, three
  deliveries). `AppliedOnce`: a payment is applied at most as often as requests can overlap. Two
  deliveries that overlap may both apply it, for each finds it unprocessed; once either has recorded
  it no further delivery does, so the third of a payment applies nothing. With one request it is once.
- `PaymentDeletedFund` and `PaymentLimit` show two disagreements with the repository: a donation
  whose fund was deleted meanwhile buys the whole plan, and a fund limited to n donations takes more.

Abstractions. Codes (`Date.now()` and the user) are distinct. "The latest donation order" is any of
the orders of the fund, as `createdAt` has a resolution of one second. A subscription is paid
without naming a fund. The amount in the callback is the amount that was sent. Late rows of one code
are one row. The price is constant. The owner may leave but stays in the group, as in the code.

## 4. GroupPlan

`tiers` are the `group_subscription` rows of one group and `snaps` its `group_entitlement` rows, in
order of insertion. A tier counts at both ends of its window and a snapshot not at its end, as the
code compares. `ByTime` is the snapshot that the windows select, `Read` the one that consumers of
`isCurrent` get. A task is a purchase, a pass of the scheduler over the group or a repair:

| Action | Code |
|---|---|
| `Purchase`, `Save` | `applyGroupSubscription` up to its insert |
| `Lookup`, `Clear`, `Mark`, `Insert` | `ensureEntitlementSnapshot` |
| `Shift` (one row at a time), `Reload`, `ChangeLookup`, `ChangeInsert` | postponed tiers and their snapshots, in parallel as in `Promise.all` |
| `Sync`, `Clear`, `Mark` | `syncCurrentEntitlements` |
| `Repair`, `Pick`, `Clear`, `Mark` | `findSubscriptionsInGroup` |
| `Tick`, `Fail` | time, a crash |

Time is a number of instants, `Month` of them to a month. No purchase falls on an instant at which a
window starts or ends (`FreshInstant`): the clock of the code is fine enough for that never to
happen. While a task runs at most `Lag` instants pass. The days of a month are left out, and so is
the price paid.

Checks:

- `GroupPlanSerial` (one task, one crash, three plans, purchases of one or two months, three tiers,
  three months). `UpgradeServed`: an upgrade is what `isCurrent` names before other tiers are
  postponed. `PurchaseNeverLowers`: no purchase lowers the plan in effect at that instant. `InSync`:
  the mark keeps coming back to a snapshot in effect, crash or not.
- `GroupPlanConcurrent` (two tasks, no crash, two months). `PaidMonthsKept`: however postponements
  interleave, a paid tier lasts the months paid. `TierHasSnapshot`: each tier has a snapshot that
  starts with it once tasks are done. `OneMarked`: no more snapshots are marked than tasks can
  overlap, however long they go on, because each mark is made by a task that has cleared all others.
- `GroupPlanSchedule` shows that an upgrade does not postpone a tier scheduled inside its window, so
  the lower plan takes over early, against the comment in the code.
- `GroupPlanSync` shows that two purchases at once leave two snapshots marked, and that the
  scheduler, which skips a group whose snapshot in effect is marked, never clears the expired one
  that readers take. `UpgradeServed` and `PurchaseNeverLowers` fail with two tasks for the same
  reason.

Three tiers let a renewal, a downgrade and an upgrade meet, or an upgrade postpone two tiers; a
fourth tier adds states and no new window relation. Three plans have an upgrade above an upgrade.
`SubscriptionRanking` is `compareSubscriptions`: price, then three quotas where a negative one is
unlimited.

## 5. The community: Membership and Friendship

`Membership` has the rows of one group's members and invitations, and up to two calls that each hold
what they have read. A row remembers how it came about (`by`): `add` for a direct addition, which no
limit restrains. `limit` is `limitMembers` of the plan in effect and `peak` (history) the highest the
group has had.

| Action | Code |
|---|---|
| `CreateGroup`, `ChangePlan`, `ReadLimit`, `CountMembers` | `GroupService.createOne`, `assertMemberLimitAllowsNewMembers` |
| `Invite`, `LookUpMember`, `LookUpPending`, `InsertInvitation` | `GroupInvitationService.createOne` |
| `AcceptInvitation`, `AddUserToGroup`, `DropInvitation`, `DeclineInvitation`, `CancelInvitation` | the answers |
| `AddMember`, `LookUpExisting`, `TouchMember`, `InsertMember` | `addUserToGroup` of `UserGroupService` |
| `RemoveMember`, `PurgeInvitations`, `RemoveRow`, `LeaveGroup`, `RemoveMembership` | leaving |
| `Die` | a statement fails, or the process dies |

`Friendship` has the directed rows of three users, their requests, and two attempts.

`Community` explores both with two calls at once, every interleaving and any deaths.
`AcceptedWithinLimit` holds on all of them: the limit is compared with an old count, so n calls at
once may pass it, by n - 1 members at most. The other properties hold for calls that do not overlap
(`alone`, `solo`), which is what a user who clicks one thing after another relies on; the states in
which calls have overlapped are explored too, and there each of them fails, as the hazards say.
`StatusAgrees` compares six queries of three services with each other. Friendships with a third user
are explored for calls that do not overlap (`ThirdUserApart`), and overlapping calls between two;
two rows of one user, and two invitations, are the least that can be too many.

## 6. The workspace

Each part below is one module with one action per awaited statement; `Workspace` checks all of them.
A history variable `..Apart` says that no two calls overlapped, where a property needs that.

- `Notification`: the digest of one recipient and one source. Two deliveries at once, two rows, three
  messages, a debounce of one tick and a maximum of two. `CountIsMessages`: never more messages
  than came, exactly those if nothing overlaps. `Announced`: a count is never left without a timer or
  a flush, and never longer than the maximum, however steadily messages arrive. Restarts and
  overlapping reads end the promise (`orderly`), since timers live in memory.
- `Messages`: two sockets of one author, two channels, a conversation and threads; two messages, two
  blocks, one file, three requests (send, edit and delete in a row). `NothingLeftBehind` holds
  wherever a call dies; `ToldIsFetched` compares what the events said with every list and search.
- `CodeRun`: two runners on a block and a collaboration of a group, two versions of each, a limit of
  one, a midnight. `RunsWithinLimit` and `CacheFaithful`. TLC explores no death between check and
  charge (`MaxDeaths = 0`); the theorem `DailyLimitKept` covers any number of deaths.
- `Presence`: one socket, two accounts, one channel, a time to live of one tick. Sockets meet only in
  the set of views, and the theorem `NobodyIsMissed` covers any number of them. Authentication awaits
  the user's row while the deadline may fire and the socket close.
- `UserAccounts`: two accounts with two names, addresses and passwords, one reset code, one caller.
  `PasswordKept` is about the steps that change a password. `UserAccountsLink` shows that the link
  mailed to one account verifies another, as all accounts of a process share one token.
- `Catalogue`: two plans of one code, two versions and terms, one use, one desk. `AsBought`.
- `Board`: one task, three history rows, one editor, a lock after a day. `HistoryReplays`.
- `Languages`: three languages, five entries ever, one caller. `LanguagesInOrder`. Of the two ways to
  change the list, single edits renumber only when an entry moves, and a profile replaces all of it;
  `save()` brings back rows it has read, and saving a profile whose table has grown fails.
- `Analytics`: three instants a day (the start, the last millisecond, what `datetime(6)` holds after
  it), months of two days, two days, two reports. `TrendsAddUp` compares nine figures of two services
  over every range.
- `Seeder`: two required users and one made up, two groups, two runs of the command, each of which may
  die between any two of its thirty batches. `SeededOnce`.

One caller is enough where the property is about calls that do not overlap: with two, the states that
are added are those in which nothing is promised. The bounds let each case happen twice (two rows of
one kind, two versions, two runs), and three times where order matters (messages of a digest,
requests, entries of a list). `s1` and `s2` are interchangeable in every part that uses them; only
safety and step properties are checked there, so symmetry is sound.

## 7. Fairness and deadlock

`PaymentSerial`, for `ChargedIsSettled`, and the two runs of `InSync` assume weak fairness of
`Continue`: the event loop resumes a task whose statement has completed, and statements complete
unless the process dies, which is the action `Fail`. The other properties assume none. `InSync` also assumes weak fairness of `Sync`,
the job that `@Cron` starts every five minutes. Nothing is assumed of purchases, of repairs (a reader
may never come) or of time. That a digest is announced is stated as a bound on its waiting
(`Announced`), which is stronger than eventually and needs no fairness.

`CHECK_DEADLOCK FALSE` stands where the system may rest: in `GroupPlan` at the horizon, when every
tier is bought; in `Community`, `Workspace` and `UserAccountsLink` when the bounds on rows and
requests are used up.

## 8. Proofs

Each proof module states an inductive invariant `IInv` and proves that `Init` implies it, that each
action keeps it and that it implies the property. TLC agreed with each before it was proved.

- `PaymentProofs`: `TypeCorrect`, `SettledServed`, `OrderFollows`, `DonationOrder` and
  `ContributionKept`, for any users, payments, funds, requests and deliveries. None of the properties
  is inductive, because a callback applies, records and confirms in three statements. `IInv` adds
  `ReqInv`, what a request at each statement may rely on (a verified callback at `record` that says
  success was charged, and has granted its plan if it found no donation), and `RowInv`, how the rows
  of a code relate. `StepOf` and `OthersKept` reduce an action to the request that moves;
  `CallbackKept` and `QuietStep` treat the many actions that touch only one row or none.
  `CompletedCharged`, that a fund is completed only by a donation through the gateway that was
  charged, follows from `IInv` at the step that completes it and from `ChargedStays` afterwards.
  `Implements` proves the refinement of `PaymentContract`
  that the concurrent run checks: `ContractInit` maps the start, and under `IInv` each action grants
  (`GrantStep`), settles (`SettleStep`), confirms or stutters, by the mapping of `Payment`. For one
  request at a time it also has `LedgerAddsUp`, `FundIsServed`, `OrderIsShared` and
  `RoleIsHeld`, when none dies either (`Requests = {r}`, `~Failures`), as in the run `PaymentSerial`.
  `SerialInv` says of each statement what the request has read that is still so (`GiftInv`,
  `AnswerInv`) and what it owes: a donation is in the ledger before it is in the amount (`Unadded`), a
  payment through the gateway in the amount before it is in the ledger (`Unrecorded`), and the amount
  of an open fund is the sum of the ledger but for these two. `TotalTake` and `TotalSame` are about
  that sum, from `Sums`.
  `PaidOnce`, of any finite number of requests when none dies, counts what is still to come:
  `OnceInv` says that the times a payment was applied and the requests about to apply it are together
  no more than the requests, that a payment nobody is about to record is recorded once it was applied,
  and that one that is recorded lets no further request in.
  `ChargedMovesOn`, of any requests and failures, is the part of `ChargedIsSettled` that is not about
  fairness: from the role on, each statement of the callback of a charged payment lowers `Left`, the
  statements before its record, and the last one records it as SUCCESS, unless the process dies or the
  deletion of the fund took the row. `ChargedIsRecorded` removes both exceptions for one request at a
  time that does not die.
- `GroupPlanProofs`: `TypeCorrect` and `PaidMonths`, for any offer, tasks, failures and bounds. The
  strengthening says that a purchase about to be saved has a positive number of months, that a task
  that postpones bought a plan with an end, and that every tier of a paid plan names its months.
  `TierSnapshots` (for `MaxFailures = 0`, any number of tasks) rests on `Targets`, what a task knows
  of the snapshot it found, which no other task removes or rewrites (`Growth`), and on `Covered`: a
  tier has its snapshot, or a task that has yet to look for or insert it. `MarkedOnce`, of
  any finite number of tasks that may die anywhere, rests on `MarksOwed`: the snapshots marked and the
  tasks that have cleared and still owe a mark are together no more than the tasks. `ServedAtOnce` (one
  task, which may die anywhere) rests on `OneInv`: whoever is about to mark or insert a marked snapshot
  has cleared every mark. `SyncMarksDue` is the part of `InSync` that is not
  about fairness: a sync or a repair that completes leaves isCurrent on one snapshot, in effect at the
  instant it read or, if none was, the latest. `RightTarget` says that what it is about to mark is
  still due, since the only statement between changes marks and no window (`DueStays`).
  `NeverLowered`, also of one task, rests on `Backed`, that whatever a snapshot grants at any time
  from now on a tier as good runs then, and on `Sold`, what a purchase in flight knows: one that
  starts at once is no worse than any tier that ran when it looked. An upgrade that postpones a tier
  runs in its place, and the tier runs afterwards as long as it was paid. It needs `FreeAlike`: with
  two free plans of different quotas, buying the lesser starts at once, since a plan without an end
  leaves nothing to wait for.
  Of `SubscriptionRanking`: swapping two plans swaps the verdict (`CompareSwap`), being no worse is
  transitive (`CompareTransitive`), and the tie-breaker is a strict order (`BeatsOrder`). That is why
  `GroupPlan` may say "one that none is ahead of" where the code folds over rows.
- `CommunityProofs`: of `Membership`, `LimitPassedByLess`, for any users, limits and number of calls.
  A call that was admitted inserts its row later, so the invariant counts rows *and* calls about to
  add one (`Admissions`); at most the calls that counted together pass the limit together. `PeakInv`
  bounds the limit, and what each call read of it, by the highest one. `AcceptedJustOnce` and
  `NoAnsweredInvitation`, of calls that do not overlap, need `AloneInv`: the one call in flight found
  what it acts on (`CallInv`), and an invitation outlives its acceptance only until `drop`
  (`Answered`). Of `Friendship`, `FriendshipIsOne` and `ShownAlike`, for any users and callers: the
  one call in flight knows which rows there are between its two users. Of the two side by side,
  `CommunityTypes` and `CommunitySafe`.
- `PeopleProofs`: of `UserAccounts`, `PasswordIsKept`: what a call that registers or resets found of
  the accounts is still so while calls do not overlap. Of `Seeder`, `SeededJustOnce`, for any users,
  totals and number of runs, each of which may die before any of its batches. `SeederInv` says at each
  batch what those before it have made up for: `PeopleInv` and `BondInv` of users and friendships,
  `FiledInv` of reports, and `GroupOk` of one group, which tells those that this run created from the
  rest. It holds from the start of a run that follows a dead one, which is why it says nothing of
  channels, languages or histories once a run died (`WholeRows`). A run that creates no group may rely
  on every important user owning enough: their deficits are not negative and add up to zero
  (`NoneMissing`).
- `ConversationProofs`: of `CodeRun`, `DailyLimitKept`, for any limit, runs at once and deaths.
  `Accounted`: what was let through since midnight was charged, is still owed by a run in flight, or
  died uncharged. The reset, which runs in the middle of other runs, keeps it. `CacheIsFaithful`: a
  run in flight that no edit overlapped carries the text as it is. Of `Messages`, `NothingIsLeft` and
  `ToldAsFetched`: the one call in flight holds the block, the files and the events that its message
  has or is about to lose. Of `Presence`, `NobodyIsMissed`, for any sockets, users, channels and time
  to live. `ViewsAreWatched` says of views of every age what the property says of those that count,
  and `ReadyIsSafe` that no deadline can close a socket that is ready.
  Of `Notification`, `CountsAreMessages` and `AnnouncedInTime`, for any number of calls, rows and
  messages and any two delays. `CountsBehind` holds on every interleaving; `OneDigest` (one unread
  row, and everything in flight is about it) and `InTime` (waiting and what is left of the max timer
  never exceed the maximum together) while calls are orderly.
- `RecordsProofs`: of `Catalogue`, `KeptAsBought`, for any plans, terms and desks. `UpToDate` says
  that what the one call in flight has read is still so, `Served` that each use finds its terms. Of
  `Board`, `HistoryTells`, for any members, fields and values: a call owes the history exactly the row
  of what its update changed. Of `Languages`, `LanguagesOrdered`, for any finite set of languages:
  what an edit read of the list is still so while edits do not overlap (`EditKnows`), and its
  statements keep the places numbered from one (`Numbered`). A task's rows are a set of row numbers
  there, not a subsequence: the prover knows what a set of numbers is, but not what `SelectSeq`
  selects. Of `Analytics`, `TrendsAgree`, for any rows, months of any length and any finite set of
  users: the buckets of a request are the whole units of its range (`BucketsAre`, `UserBucketsAre`),
  each instant is in exactly one of them (`InUnits`, `StartsApart`), also as the date it is read as
  (`DateStays`), so each row is counted once (`Trend`, `Grouped`). Only the types are needed of the
  state.
- `WorkspaceProofs`: `PartsImplemented`, that `MCWorkspace` implements the specification of each of
  its ten parts, so that what is proved of a part holds of it in the whole: `WorkspaceTypes`,
  `WorkspaceSafe` and `WorkspacePasswords` state what the run checks.
- `Sums`: what the fold of the library computes over a finite set. It is one sum whatever element is
  taken first (`SumTake`), and disjoint sets add up to their union (`SumOfParts`). These are lemmas
  for the other modules.

Assumptions are the named `ASSUME`s on the constants: a null is outside the values it stands for,
bounds and amounts are positive, the free plan costs nothing, calls at once are finitely many, the seed
command is to make at least the users its file requires. `PaidOnce` and `MarkedOnce` also assume that the requests, and the
tasks, are finitely many.

What a fold or a recursive function computes is proved where it can be: a fact about every finite set
fails, if it fails, of a least one (`LeastSet`), and that is how `Sums` treats them.

Only model-checked: `InSync` and `ChargedIsSettled`, since liveness and fairness are outside the
prover; `SyncMarksDue` and `ChargedMovesOn` are what is proved of them. Every invariant and every other
action property of the passing runs is a theorem. The statements that the code violates are refuted by
runs.

## 9. Not modelled

What the code does not keep when calls overlap is not promised. `FundMatchesLedger`,
`ContributorsServed`, `SharedOrder` and `PayerHasRole` are checked of one request, `UpgradeServed` and
`PurchaseNeverLowers` of one task; a guard in the property (`alone`, `solo`, `orderly`, `apart`,
`local`) marks the behaviours of the other parts in which no two calls overlapped and, for most, none
died half way. The hazards whose bad states lie outside say so in their notes. Where a bound survives
the overlap it is stated without the guard: `AppliedOnce`, `OneMarked`, `AcceptedWithinLimit`, the
first half of `CountIsMessages`, `RunsWithinLimit`.

Simplified, without a property that could tell: the precision of a stored timestamp, so no two windows
of `GroupPlan` begin within one tick of the column; months of unequal length, a day of the month that
is clipped or that rolls over, and daylight saving time in `Analytics`; in `CodeRun` the usage row of
a new month, which counts from nothing, is a midnight like any other.

Everywhere: formatting, validation of inputs, pagination, e-mail, JWT and hashing; VNPay's own
signature check (a query is verified or not); administrators who edit rows of any table by CRUD; a
group that is deactivated, whose plan the scheduler ignores. By part:

- `UserAccounts`: access and refresh tokens and PKCE; `confirmResetCode` with its attempts and
  expiry; login statistics; `initAdmin`.
- `Analytics`: the breakdown by category, login statistics, the order overview and its clones.
- `Notification`: `createOne`, which saves and pushes at once. `Presence`: direct views, a third kind
  of the same shape.
- programming languages: the CRUD of the catalogue and of a group's languages. Both are single
  statements after a check; the group's limit is a check then an insert like `Membership`'s. An edit
  of a language looks for a duplicate only when its code changes, so a change of version can make two
  rows of one code and version.
- channels, threads, todos, AI sessions and uploads: rows that one statement writes and nothing else
  reads. The start-up generator repeats the seed command. Group `updateOne`/`deleteOne` and the CRUD
  and statistics of orders change one row.

Known hazards that have no property of their own:

- payment: a payer who leaves the group after paying makes every delivery of the callback throw
  (`payment.service.ts:506`); one fund per subscription is checked and inserted apart
  (`share-fund.service.ts:78`); two renewals of one period start at the same instant and share it, and
  a second snapshot of one start and plan is not made (`payment.service.ts:211`, `:98`); `setMonth`
  overflows from the 29th to the 31st (`:69`). The fold that picks the current tier meets rows of
  equal start in any order (`:191`); `BeatsOrder` shows that it does not matter.
- code: the usage row of a new group is inserted twice by two first runs (`code.service.ts:95`); the
  text of a collaboration is written before its cache is cleared (`code-collaboration.service.ts:46`).
- notifications: `save` brings back a row deleted meanwhile (`notification.service.ts:64`), and timers
  are lost at a restart (`:22`). Both are in the model, where they end `orderly`.
- sockets: one that authenticates as another user stays in the room of the first
  (`socket.service.ts:57`), in the model as `switched`; an AI answer is announced in the channel the
  socket is in by then (`message.service.ts:282`), in the model as `local`.
- accounts: `create` takes over the row of an unverified account of the same name or the same address
  (`user.service.ts:120`); a password in a profile update is stored as sent (`:322`, `Unhashed`);
  a reset checks no expiry (`auth.service.ts:331`).
- catalogue: a retirement that dies leaves two active versions (`subscription.service.ts:341`).
- tasks: old values are read before the update (`task.service.ts:205`); fields a partial update left
  out get a row that sets them to nothing (`:443`); the lock counts from the last update (`:308`).
- statistics: a reversed range gives a trend of registrations without lines (`user.service.ts:1219`).
- seeding: a run that died while making groups does not fill those it made
  (`group-seeder.service.ts:525`); every run adds messages (`message-seeder.service.ts:65`); a pair may
  be friends and have a request (`user-seeder.service.ts:310`).
