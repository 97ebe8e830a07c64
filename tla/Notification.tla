---------------------------- MODULE Notification ----------------------------
(***************************************************************************)
(* The digest of new messages that NotificationService keeps for one       *)
(* recipient and one source: a row that counts messages until it is read,  *)
(* and two timers that decide when the recipient is told.  The debounce    *)
(* timer restarts with every message; the max timer does not, so a steady  *)
(* stream is announced too.  Timers live in memory and are keyed by        *)
(* recipient and source, not by row.  Sources never meet: createOne, which *)
(* pushes at once, is only used with sources of other kinds.               *)
(***************************************************************************)
EXTENDS Integers, FiniteSets

CONSTANTS
    Deliveries,    \* bound: createOrIncrementCountNotification calls at once
    MaxNotices,    \* bound: rows ever created
    MaxDigest,     \* bound: messages ever saved
    Debounce,      \* notificationDebounceMs, in ticks
    MaxDebounce    \* notificationMaxDebounceMs, in ticks

ASSUME TimersAssumption == /\ Debounce \in Nat \ {0}
                           /\ MaxDebounce \in Nat /\ Debounce <= MaxDebounce
ASSUME NotificationBounds == MaxNotices \in Nat /\ MaxDigest \in Nat

VARIABLES
    notices,        \* the notification rows
    digestCalls,    \* the calls in flight
    debounceTimer,  \* the entry of notificationDebounceTimers
    maxTimer,       \* the entry of notificationMaxTimers
    flushes,        \* flushNotification calls in flight
    noticesMade,    \* ids given out
    pushed,         \* history: the count last sent for each row
    counted,        \* history: the messages saved into each row
    waiting,        \* history: ticks since the oldest save no flush has read
    orderly         \* history: what FollowsOrder below says of every step

notificationVars == <<notices, digestCalls, debounceTimer, maxTimer, flushes,
                      noticesMade, pushed, counted, waiting, orderly>>

-----------------------------------------------------------------------------
NoticeIds == 1 .. MaxNotices
NoNotice == 0

\* Title and content are built from the count and differ in nothing else.
Notice == [count : 0 .. MaxDigest, isRead : BOOLEAN]

Timer == [id : NoticeIds \cup {NoNotice}, left : 0 .. MaxDebounce]
Unarmed == [id |-> NoNotice, left |-> 0]

\* id is NoNotice for the row a call is about to insert.
DigestCall == [pc : {"idle", "save"}, id : NoticeIds \cup {NoNotice}, count : 0 .. MaxDigest]
NoDigest == [pc |-> "idle", id |-> NoNotice, count |-> 0]

\* The messages saved so far.
Saved == Cardinality({m \in NoticeIds \X (1 .. MaxDigest) : m[2] <= counted[m[1]]})

Unread == {i \in DOMAIN notices : ~notices[i].isRead}

\* Nothing about the digest is under way.
Quiet == /\ \A c \in Deliveries : digestCalls[c] = NoDigest
         /\ debounceTimer = Unarmed /\ maxTimer = Unarmed /\ flushes = {}

-----------------------------------------------------------------------------
(* A message arrives *)

\* findOne of the unread row of this recipient and source.
FindUnread(c) ==
    /\ digestCalls[c] = NoDigest
    /\ \/ Unread = {} /\ digestCalls' = [digestCalls EXCEPT ![c].pc = "save"]
       \/ \E i \in Unread : digestCalls' =
            [digestCalls EXCEPT ![c] = [pc |-> "save", id |-> i, count |-> notices[i].count]]
    /\ orderly' = (orderly /\ \A d \in Deliveries : digestCalls[d] = NoDigest)
    /\ UNCHANGED <<notices, debounceTimer, maxTimer, flushes, noticesMade, pushed,
                   counted, waiting>>

\* Mutant: the max timer restarts with the debounce timer.
MutSchedule(i) ==
    /\ debounceTimer' = [id |-> i, left |-> Debounce]
    /\ maxTimer' = [id |-> i, left |-> MaxDebounce]

\* The debounce timer restarts for this row; a running max timer is kept,
\* with the row it was started for.
ScheduleNotificationPush(i) ==
    /\ debounceTimer' = [id |-> i, left |-> Debounce]
    /\ maxTimer' = IF maxTimer = Unarmed THEN [id |-> i, left |-> MaxDebounce] ELSE maxTimer

\* Mutant: an existing row is saved with the count it had.
MutSaveNotice(c) ==
    /\ digestCalls[c].pc = "save"
    /\ Saved < MaxDigest
    /\ LET new == digestCalls[c].id = NoNotice
           i == IF new THEN noticesMade + 1 ELSE digestCalls[c].id
       IN /\ i <= MaxNotices
          /\ noticesMade' = IF new THEN i ELSE noticesMade
          /\ notices' = [j \in DOMAIN notices \cup {i} |->
                IF j = i THEN [count |-> IF new THEN 1 ELSE digestCalls[c].count, isRead |-> FALSE]
                         ELSE notices[j]]
          /\ counted' = [counted EXCEPT ![i] = @ + 1]
          /\ ScheduleNotificationPush(i)
    /\ digestCalls' = [digestCalls EXCEPT ![c] = NoDigest]
    /\ UNCHANGED <<flushes, pushed, waiting, orderly>>

\* save writes the entity as it was read, so isRead is reset, and inserts the
\* row again if it is gone.
SaveNotice(c) ==
    /\ digestCalls[c].pc = "save"
    /\ Saved < MaxDigest
    /\ LET new == digestCalls[c].id = NoNotice
           i == IF new THEN noticesMade + 1 ELSE digestCalls[c].id
       IN /\ i <= MaxNotices
          /\ noticesMade' = IF new THEN i ELSE noticesMade
          /\ notices' = [j \in DOMAIN notices \cup {i} |->
                IF j = i THEN [count |-> digestCalls[c].count + 1, isRead |-> FALSE]
                         ELSE notices[j]]
          /\ counted' = [counted EXCEPT ![i] = @ + 1]
          /\ ScheduleNotificationPush(i)
    /\ digestCalls' = [digestCalls EXCEPT ![c] = NoDigest]
    /\ UNCHANGED <<flushes, pushed, waiting, orderly>>

-----------------------------------------------------------------------------
(* The recipient is told *)

\* flushNotification up to its query: both timers of the key are cleared,
\* whichever fired.
Flush(timer) ==
    /\ timer # Unarmed /\ timer.left = 0
    /\ debounceTimer' = Unarmed
    /\ maxTimer' = Unarmed
    /\ flushes' = flushes \cup {timer.id}
    /\ UNCHANGED <<notices, digestCalls, noticesMade, pushed, counted, waiting, orderly>>

\* The query answers, and the row is sent if it is still there.
Push(i) ==
    /\ i \in flushes
    /\ flushes' = flushes \ {i}
    /\ pushed' = [pushed EXCEPT ![i] = IF i \in DOMAIN notices THEN notices[i].count ELSE @]
    /\ waiting' = IF \E j \in Unread : pushed'[j] # notices[j].count THEN waiting ELSE 0
    /\ UNCHANGED <<notices, digestCalls, debounceTimer, maxTimer, noticesMade, counted, orderly>>

Unannounced(i) == pushed[i] # notices[i].count

\* A timer that is due fires before time goes on.
Tick ==
    /\ \A t \in {debounceTimer, maxTimer} : t = Unarmed \/ t.left > 0
    /\ ~Quiet
    /\ debounceTimer' = IF debounceTimer = Unarmed THEN Unarmed ELSE [debounceTimer EXCEPT !.left = @ - 1]
    /\ maxTimer' = IF maxTimer = Unarmed THEN Unarmed ELSE [maxTimer EXCEPT !.left = @ - 1]
    /\ waiting' = IF (\E i \in Unread : Unannounced(i)) /\ waiting <= MaxDebounce
                  THEN waiting + 1 ELSE waiting
    /\ UNCHANGED <<notices, digestCalls, flushes, noticesMade, pushed, counted, orderly>>

-----------------------------------------------------------------------------
(* The recipient reads and deletes; the process restarts *)

\* markReadMany: one update.
MarkReadMany(ids) ==
    /\ ids # {} /\ ids \subseteq Unread
    /\ notices' = [i \in DOMAIN notices |->
          IF i \in ids THEN [notices[i] EXCEPT !.isRead = TRUE] ELSE notices[i]]
    /\ orderly' = (orderly /\ Quiet)
    /\ UNCHANGED <<digestCalls, debounceTimer, maxTimer, flushes, noticesMade, pushed,
                   counted, waiting>>

\* deleteMany: one delete.
DeleteMany(ids) ==
    /\ ids # {} /\ ids \subseteq DOMAIN notices
    /\ notices' = [i \in DOMAIN notices \ ids |-> notices[i]]
    /\ orderly' = (orderly /\ Quiet)
    /\ UNCHANGED <<digestCalls, debounceTimer, maxTimer, flushes, noticesMade, pushed,
                   counted, waiting>>

\* Timers and calls are lost with the process.
RestartDigests ==
    /\ ~Quiet
    /\ digestCalls' = [c \in Deliveries |-> NoDigest]
    /\ debounceTimer' = Unarmed
    /\ maxTimer' = Unarmed
    /\ flushes' = {}
    /\ orderly' = FALSE
    /\ UNCHANGED <<notices, noticesMade, pushed, counted, waiting>>

-----------------------------------------------------------------------------
NotificationInit ==
    /\ notices = [i \in {} |-> [count |-> 0, isRead |-> FALSE]]
    /\ digestCalls = [c \in Deliveries |-> NoDigest]
    /\ debounceTimer = Unarmed
    /\ maxTimer = Unarmed
    /\ flushes = {}
    /\ noticesMade = 0
    /\ pushed = [i \in NoticeIds |-> 0]
    /\ counted = [i \in NoticeIds |-> 0]
    /\ waiting = 0
    /\ orderly = TRUE

NotificationNext ==
    \/ \E c \in Deliveries : FindUnread(c) \/ SaveNotice(c)
    \/ Flush(debounceTimer)
    \/ Flush(maxTimer)
    \/ \E i \in NoticeIds : Push(i)
    \/ \E ids \in SUBSET NoticeIds : MarkReadMany(ids) \/ DeleteMany(ids)
    \/ Tick
    \/ RestartDigests

NotificationSpec == NotificationInit /\ [][NotificationNext]_notificationVars

-----------------------------------------------------------------------------
(* Properties *)

NotificationTypeOK ==
    /\ DOMAIN notices \subseteq NoticeIds
    /\ \A i \in DOMAIN notices : notices[i] \in Notice
    /\ digestCalls \in [Deliveries -> DigestCall]
    /\ debounceTimer \in Timer
    /\ maxTimer \in Timer
    /\ flushes \subseteq NoticeIds
    /\ noticesMade \in 0 .. MaxNotices
    /\ pushed \in [NoticeIds -> 0 .. MaxDigest]
    /\ counted \in [NoticeIds -> 0 .. MaxDigest]
    /\ waiting \in Nat
    /\ orderly \in BOOLEAN

(***************************************************************************)
(* While messages are counted one at a time, and the recipient reads or    *)
(* deletes only when nothing is under way, no count is kept from the       *)
(* recipient: an unread row whose last count was not sent has a timer of   *)
(* its own running or a flush about to read it, and no count waits longer  *)
(* than MaxDebounce, however steadily messages arrive                      *)
(* (scheduleNotificationPush, flushNotification).                          *)
(***************************************************************************)
Announced ==
    orderly => \A i \in Unread : Unannounced(i) =>
        \/ i \in flushes
        \/ waiting <= MaxDebounce /\ i \in {debounceTimer.id, maxTimer.id}

(***************************************************************************)
(* At every interleaving of calls, reads, deletions and restarts a digest  *)
(* never tells of more messages than were saved into it, and it tells of   *)
(* exactly those while calls do not overlap                                *)
(* (createOrIncrementCountNotification).                                   *)
(***************************************************************************)
CountIsMessages ==
    \A i \in DOMAIN notices : /\ notices[i].count <= counted[i]
                              /\ orderly => notices[i].count = counted[i]
=============================================================================
