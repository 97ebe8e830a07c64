------------------------- MODULE ConversationProofs -------------------------
(***************************************************************************)
(* Proofs about CodeRun, Messages, Presence and Notification: what a       *)
(* conversation runs, caches, stores and tells, and who is told of it.     *)
(*                                                                         *)
(* CodeRun, for any targets, limit, runs at once, versions of a text and   *)
(* deaths: the rows keep their type, the runs let through in a day pass    *)
(* the limit by less than the number of runs at once, and a cached result  *)
(* is that of the text as it is (CacheInv).                                *)
(*                                                                         *)
(* Messages, for any sockets, rooms, files and bounds: rows, calls and     *)
(* events keep their type; calls that do not overlap leave nothing that    *)
(* belongs to no message, wherever one dies, and what was told is what a   *)
(* fetch returns.  What makes the two last is what a call in flight knows  *)
(* of the row it has loaded, statement by statement (Knows).               *)
(*                                                                         *)
(* Presence, for any sockets, members, channels and time to live: what the *)
(* server holds keeps its types, and nobody misses a digest because of a   *)
(* view that is no longer looked at.  NobodyMissed speaks of the views     *)
(* that count now.  What makes it last is that every view, of whatever     *)
(* age, belongs to an open socket of its user or to one that changed users *)
(* (ViewsAreWatched), and that a socket that is ready has no deadline      *)
(* ahead that could close it (ReadyIsSafe).                                *)
(*                                                                         *)
(* Notification, for any number of calls, rows, messages and any two       *)
(* intervals: a digest never tells of more messages than it was given, and *)
(* a steady stream of messages is announced in time.  The invariant has    *)
(* four parts.  The types.  What holds at every interleaving: no row, no   *)
(* call and no push is ahead of the messages saved (CountsBehind).  What   *)
(* holds while calls are orderly: there is one call at most, one unread    *)
(* row at most, and the call, the timers and the flushes are about that    *)
(* row (OneDigest); and the time an unannounced count has waited and the   *)
(* time the max timer has left are never more than MaxDebounce together    *)
(* (InTime).                                                               *)
(***************************************************************************)
EXTENDS CodeRun, Messages, Presence, Notification, FiniteSetTheorems, TLAPS

-----------------------------------------------------------------------------
(* CodeRun: the inductive invariant *)

\* A run has read a text that was there.
TextRead == \A r \in Runners : runner[r].pc # "idle" => runner[r].text # Gone

\* Only blocks are written after the cache is cleared, and have a version left.
RoomToEdit ==
    /\ editor.pc = "write" => editor.target \in CodeBlocks
    /\ editor.pc # "idle" /\ editor.target \in CodeBlocks => text[editor.target] < MaxTexts

RunTypeInv == CodeRunTypeOK /\ TextRead /\ RoomToEdit

\* Only a run of the group asks for the limit.
AskerIsLimited == \A r \in Runners : RunAt(r, "check") => runner[r].target \in GroupTargets

\* The runs that were let through and are still to be charged.
Owed == {r \in Runners : Owing(r)}

\* What was let through since midnight was charged, is still owed or has died.
Accounted == admitted <= used + Cardinality(Owed) + uncharged

CodeRunInv == RunTypeInv /\ AskerIsLimited /\ Accounted /\ RunsWithinLimit

-----------------------------------------------------------------------------
(* Types *)

LEMMA FillersTyped == NoRun \in Runner /\ NoEdit \in Editor /\ AnyTarget \in Targets
<1>1. AnyTarget \in Targets
    BY TargetsAssumption DEF AnyTarget
<1>2. 0 \in 0 .. MaxTexts
    BY CodeRunBounds
<1>3. QED
    BY <1>1, <1>2 DEF NoRun, NoEdit, Runner, Editor

\* The values of pc of a run that has begun.
Statements == {"cache", "check", "prepare", "exec", "running", "store", "charge"}

\* A run that goes on keeps what it has read.
LEMMA GotoTyped ==
    ASSUME runner \in [Runners -> Runner], TextRead,
           NEW r \in Runners, NEW pc \in Statements, runner[r].pc # "idle", RunGoto(r, pc)
    PROVE  runner' \in [Runners -> Runner] /\ TextRead'
<1>1. [runner[r] EXCEPT !.pc = pc] \in Runner
    BY DEF Runner, Statements
<1>2. runner' = [runner EXCEPT ![r] = [runner[r] EXCEPT !.pc = pc]]
    BY DEF RunGoto
<1>3. runner' \in [Runners -> Runner]
    BY <1>1, <1>2
<1>4. \A s \in Runners : runner'[s].text = runner[s].text
                         /\ (runner[s].pc = "idle" => runner'[s].pc = "idle")
    BY <1>2 DEF Runner
<1>5. QED
    BY <1>3, <1>4 DEF TextRead

\* A run that is over leaves nothing behind.
LEMMA EndTyped ==
    ASSUME runner \in [Runners -> Runner], TextRead,
           NEW r \in Runners, runner' = [runner EXCEPT ![r] = NoRun]
    PROVE  runner' \in [Runners -> Runner] /\ TextRead'
    BY FillersTyped DEF TextRead, NoRun

LEMMA StartTyped ==
    ASSUME RunTypeInv, NEW r \in Runners, NEW t \in Targets, RunTarget(r, t)
    PROVE  runner' \in [Runners -> Runner] /\ TextRead' /\ editsApart' \in BOOLEAN /\ runsApart' \in BOOLEAN
<1>1. [pc |-> "cache", target |-> t, text |-> text[t], whole |-> TRUE] \in Runner
    BY DEF RunTypeInv, CodeRunTypeOK, Runner
<1>2. QED
    BY <1>1 DEF RunTypeInv, CodeRunTypeOK, RunTarget, TextRead

\* A step that leaves texts and edits alone keeps the room that an edit has.
LEMMA EditsAlone ==
    ASSUME RoomToEdit, UNCHANGED <<text, editor>>
    PROVE  RoomToEdit'
    BY DEF RoomToEdit

LEMMA RunTypeInit == CodeRunInit => RunTypeInv
<1> SUFFICES ASSUME CodeRunInit PROVE RunTypeInv
    OBVIOUS
<1>1. CodeRunTypeOK
    BY FillersTyped, CodeRunBounds DEF CodeRunInit, CodeRunTypeOK
<1>2. TextRead /\ RoomToEdit
    BY DEF CodeRunInit, TextRead, RoomToEdit, NoRun, NoEdit
<1>3. QED
    BY <1>1, <1>2 DEF RunTypeInv

LEMMA RunTypes ==
    ASSUME RunTypeInv, NEW r \in Runners,
           \/ RunCodeBlock(r) \/ RunCodeCollab(r)
           \/ ReadCache(r) \/ AssertGroupCanRunCode(r) \/ AiRefuses(r) \/ PrepareContainer(r)
           \/ ExecCommand(r) \/ OutputEnds(r) \/ ExecTimeout(r) \/ StoreResult(r)
           \/ IncreaseRunCodeExecutions(r) \/ RunDies(r)
    PROVE  RunTypeInv'
<1> USE DEF RunTypeInv, CodeRunTypeOK
<1>0. runner[r] \in Runner
    OBVIOUS
<1>1. ASSUME NEW t \in Targets, RunTarget(r, t) PROVE RunTypeInv'
    BY <1>1, StartTyped, EditsAlone DEF RunTarget
<1>2. CASE ReadCache(r)
  <2>1. runner[r].pc # "idle"
    BY <1>2 DEF ReadCache, RunAt
  <2>2. runner' \in [Runners -> Runner] /\ TextRead'
    BY <1>2, <2>1, GotoTyped, EndTyped DEF ReadCache, Statements
  <2>3. QED
    BY <1>2, <2>2, EditsAlone DEF ReadCache
<1>3. CASE AssertGroupCanRunCode(r)
  <2>1. runner[r].pc # "idle"
    BY <1>3 DEF AssertGroupCanRunCode, RunAt
  <2>2. runner' \in [Runners -> Runner] /\ TextRead'
    BY <1>3, <2>1, GotoTyped, EndTyped DEF AssertGroupCanRunCode, Statements
  <2>3. QED
    BY <1>3, <2>2, EditsAlone DEF AssertGroupCanRunCode
<1>4. CASE AiRefuses(r)
  <2>1. runner' \in [Runners -> Runner] /\ TextRead'
    BY <1>4, GotoTyped DEF AiRefuses, RunAt, Statements
  <2>2. QED
    BY <1>4, <2>1, EditsAlone DEF AiRefuses
<1>5. CASE PrepareContainer(r)
  <2>1. runner' \in [Runners -> Runner] /\ TextRead'
    BY <1>5, GotoTyped DEF PrepareContainer, RunAt, Statements
  <2>2. QED
    BY <1>5, <2>1, EditsAlone DEF PrepareContainer
<1>6. CASE ExecCommand(r)
  <2>1. runner' \in [Runners -> Runner] /\ TextRead'
    BY <1>6, GotoTyped DEF ExecCommand, RunAt, Statements
  <2>2. QED
    BY <1>6, <2>1, EditsAlone DEF ExecCommand
<1>7. CASE OutputEnds(r)
  <2>1. PICK next \in OneMore : RunGoto(r, next)
    BY <1>7 DEF OutputEnds
  <2>2. runner' \in [Runners -> Runner] /\ TextRead'
    BY SMTT(30), <1>7, <2>1, GotoTyped DEF OutputEnds, RunAt, Statements, OneMore
  <2>3. QED
    BY <1>7, <2>2, EditsAlone DEF OutputEnds
<1>8. CASE ExecTimeout(r)
  <2>1. PICK next \in [Runners -> OneMore] : runner' = [s \in Runners |->
            IF s = r THEN [runner[s] EXCEPT !.pc = "store"]
            ELSE IF RunAt(s, "running") THEN [runner[s] EXCEPT !.pc = next[s], !.whole = FALSE]
            ELSE runner[s]]
    BY <1>8 DEF ExecTimeout
  <2>2. \A s \in Runners : /\ [runner[s] EXCEPT !.pc = "store"] \in Runner
                           /\ [runner[s] EXCEPT !.pc = next[s], !.whole = FALSE] \in Runner
    BY DEF Runner, OneMore
  <2>3. runner' \in [Runners -> Runner]
    BY <2>1, <2>2
  <2>4. \A s \in Runners : /\ runner'[s].text = runner[s].text
                           /\ runner[s].pc = "idle" => runner'[s].pc = "idle"
    BY <1>8, <2>1 DEF Runner, ExecTimeout, RunAt
  <2>5. TextRead'
    BY <2>4 DEF TextRead
  <2>6. QED
    BY ZenonT(40), <1>8, <2>3, <2>5, EditsAlone DEF ExecTimeout
<1>9. CASE StoreResult(r)
  <2>1. runner' \in [Runners -> Runner] /\ TextRead'
    BY <1>9, GotoTyped DEF StoreResult, RunAt, Statements
  <2>2. runner[r].text \in 1 .. MaxTexts
    BY <1>0, <1>9, CodeRunBounds DEF StoreResult, RunAt, TextRead, Gone, Runner
  <2>3. [target |-> runner[r].target, text |-> runner[r].text, whole |-> runner[r].whole] \in Result
    BY <1>0, <2>2 DEF Result, Runner
  <2>4. QED
    BY <1>9, <2>1, <2>3, EditsAlone DEF StoreResult
<1>10. CASE IncreaseRunCodeExecutions(r)
  <2>1. runner' \in [Runners -> Runner] /\ TextRead'
    BY <1>10, EndTyped DEF IncreaseRunCodeExecutions
  <2>2. QED
    BY <1>10, <2>1, EditsAlone DEF IncreaseRunCodeExecutions
<1>11. CASE RunDies(r)
  <2>1. runner' \in [Runners -> Runner] /\ TextRead'
    BY <1>11, EndTyped DEF RunDies
  <2>2. uncharged' \in 0 .. MaxDeaths
    BY <1>11, CodeRunBounds DEF RunDies
  <2>3. QED
    BY <1>11, <2>1, <2>2, EditsAlone DEF RunDies
<1>12. QED
    BY <1>1, <1>2, <1>3, <1>4, <1>5, <1>6, <1>7, <1>8, <1>9, <1>10, <1>11
    DEF RunCodeBlock, RunCodeCollab, Targets

\* Edits and midnight keep the runs that are in flight.
LEMMA EditTypes ==
    ASSUME RunTypeInv,
           \/ \E t \in CodeBlocks : EditBlock(t)
           \/ \E t \in Collabs : UpdateCollab(t) \/ DeleteCollab(t)
           \/ SaveBlock \/ ClearCache \/ EditDies \/ ResetGroupUsageDaily
    PROVE  RunTypeInv'
<1> USE DEF RunTypeInv, CodeRunTypeOK
<1>0. ASSUME UNCHANGED runner PROVE TextRead'
    BY <1>0 DEF TextRead
<1>1. ASSUME NEW t \in CodeBlocks, EditBlock(t) PROVE RunTypeInv'
  <2>1. [pc |-> "clear", target |-> t] \in Editor
    BY DEF Editor, Targets
  <2>2. RoomToEdit'
    BY <1>1 DEF EditBlock, StartEdit, RoomToEdit
  <2>3. QED
    BY <1>0, <1>1, <2>1, <2>2 DEF EditBlock, StartEdit
<1>2. ASSUME NEW t \in Collabs, UpdateCollab(t) \/ DeleteCollab(t) PROVE RunTypeInv'
  <2>1. [pc |-> "clear", target |-> t] \in Editor
    BY DEF Editor, Targets
  <2>2. text' \in [Targets -> 0 .. MaxTexts]
    <3>1. CASE UpdateCollab(t)
      <4>1. text[t] \in 0 .. MaxTexts /\ text[t] < MaxTexts /\ text' = [text EXCEPT ![t] = text[t] + 1]
        BY <3>1 DEF UpdateCollab, Targets
      <4>2. text[t] + 1 \in 0 .. MaxTexts
        BY <4>1, CodeRunBounds
      <4>3. QED
        BY <4>1, <4>2
    <3>2. CASE DeleteCollab(t)
      <4>1. Gone \in 0 .. MaxTexts
        BY CodeRunBounds DEF Gone
      <4>2. text' = [text EXCEPT ![t] = Gone]
        BY <3>2 DEF DeleteCollab
      <4>3. QED
        BY <4>1, <4>2
    <3>3. QED
      BY <1>2, <3>1, <3>2
  <2>3. RoomToEdit'
    BY <1>2, TargetsAssumption DEF UpdateCollab, DeleteCollab, StartEdit, RoomToEdit
  <2>4. QED
    BY <1>0, <1>2, <2>1, <2>2, <2>3 DEF UpdateCollab, DeleteCollab, StartEdit
<1>3. CASE SaveBlock
  <2>1. PICK t \in Targets : t = editor.target
    BY DEF Editor
  <2>2. text[t] < MaxTexts
    BY <1>3, <2>1 DEF SaveBlock, RoomToEdit
  <2>3. text[t] + 1 \in 0 .. MaxTexts
    BY <2>1, <2>2, CodeRunBounds
  <2>4. text' \in [Targets -> 0 .. MaxTexts]
    BY <1>3, <2>1, <2>3 DEF SaveBlock
  <2>5. QED
    BY <1>0, <1>3, <2>4, FillersTyped DEF SaveBlock, EditDone, RoomToEdit, NoEdit
<1>4. CASE ClearCache
  <2>1. editor' \in Editor
    BY <1>4, FillersTyped DEF ClearCache, Editor
  <2>2. RoomToEdit'
    BY <1>4 DEF ClearCache, RoomToEdit, NoEdit, Editor
  <2>3. QED
    BY <1>0, <1>4, <2>1, <2>2 DEF ClearCache, EditDone
<1>5. CASE EditDies
    BY <1>0, <1>5, FillersTyped DEF EditDies, RoomToEdit, NoEdit
<1>6. CASE ResetGroupUsageDaily
    BY <1>0, <1>6, EditsAlone, CodeRunBounds DEF ResetGroupUsageDaily
<1>7. QED
    BY <1>1, <1>2, <1>3, <1>4, <1>5, <1>6

-----------------------------------------------------------------------------
(* Counting *)

LEMMA OwedFinite ==
    /\ IsFiniteSet(Owed)
    /\ Cardinality(Owed) \in Nat
    /\ Cardinality(Runners) \in Nat \ {0}
    /\ Cardinality(Owed) <= Cardinality(Runners)
<1>1. Owed \subseteq Runners
    BY DEF Owed
<1>2. IsFiniteSet(Runners) /\ Runners # {}
    BY RunnersAssumption
<1>3. Cardinality(Runners) \in Nat /\ Cardinality(Runners) # 0
    BY <1>2, FS_CardinalityType, FS_EmptySet
<1>4. QED
    BY <1>1, <1>2, <1>3, FS_Subset, FS_CardinalityType

\* The types that counting needs.
LEMMA Numbers ==
    ASSUME RunTypeInv
    PROVE  used \in Nat /\ admitted \in Nat /\ uncharged \in Nat /\ RunCodePerDay \in Nat \ {0}
    BY CodeRunBounds DEF RunTypeInv, CodeRunTypeOK

\* A run that is let through is owed from then on.
LEMMA OneMoreOwed ==
    ASSUME NEW r \in Runners, r \notin Owed, Owed' = Owed \cup {r}
    PROVE  /\ Cardinality(Owed') = Cardinality(Owed) + 1
           /\ Cardinality(Owed) + 1 <= Cardinality(Runners)
<1>1. IsFiniteSet(Owed) /\ Cardinality(Owed) \in Nat
    BY OwedFinite
<1>2. Cardinality(Owed \cup {r}) = Cardinality(Owed) + 1
    BY <1>1, FS_AddElement
<1>3. Owed \cup {r} \subseteq Runners
    BY DEF Owed
<1>4. Cardinality(Owed \cup {r}) <= Cardinality(Runners)
    BY <1>3, RunnersAssumption, FS_Subset
<1>5. QED
    BY <1>2, <1>4

\* A run that is charged or dies is owed no more.
LEMMA OneLessOwed ==
    ASSUME NEW r \in Owed, Owed' = Owed \ {r}
    PROVE  Cardinality(Owed) = Cardinality(Owed') + 1
<1>1. IsFiniteSet(Owed) /\ Cardinality(Owed) \in Nat
    BY OwedFinite
<1>2. Cardinality(Owed \ {r}) = Cardinality(Owed) - 1
    BY <1>1, FS_RemoveElement
<1>3. QED
    BY <1>1, <1>2

\* A step that lets nobody through and charges nobody keeps the account.
LEMMA NothingOwed ==
    ASSUME CodeRunInv, UNCHANGED <<used, admitted, uncharged>>, Owed' = Owed
    PROVE  Accounted' /\ RunsWithinLimit'
    BY DEF CodeRunInv, Accounted, RunsWithinLimit

\* A run that goes on from one statement to another owes as the two say.
LEMMA GotoOwed ==
    ASSUME RunTypeInv, NEW r \in Runners, NEW pc \in Statements, RunGoto(r, pc)
    PROVE  /\ AskerIsLimited /\ (pc = "check" => runner[r].target \in GroupTargets) => AskerIsLimited'
           /\ \A s \in Runners : s # r => (Owing(s)' <=> Owing(s))
           /\ Owing(r)' <=> /\ runner[r].target \in GroupTargets
                            /\ pc \in {"prepare", "exec", "running", "store", "charge"}
<1>1. /\ \A s \in Runners : s # r => runner'[s] = runner[s]
      /\ runner'[r].pc = pc /\ runner'[r].target = runner[r].target
    BY DEF RunTypeInv, CodeRunTypeOK, Runner, RunGoto
<1>2. QED
    BY <1>1 DEF AskerIsLimited, RunAt, Owing

\* A run that is over owes nothing.
LEMMA EndOwed ==
    ASSUME RunTypeInv, NEW r \in Runners, runner' = [runner EXCEPT ![r] = NoRun]
    PROVE  /\ AskerIsLimited => AskerIsLimited'
           /\ Owed' = Owed \ {r}
<1>1. /\ \A s \in Runners : s # r => runner'[s] = runner[s]
      /\ runner'[r] = NoRun
    BY DEF RunTypeInv, CodeRunTypeOK
<1>2. QED
    BY <1>1 DEF AskerIsLimited, RunAt, Owed, Owing, NoRun

\* Steps between the check and the charge, or before the check.
LEMMA GoingOn ==
    ASSUME CodeRunInv, NEW r \in Runners, NEW pc \in Statements, RunGoto(r, pc),
           UNCHANGED <<used, admitted, uncharged>>,
           \/ runner[r].pc \in {"prepare", "exec", "running", "store"}
              /\ pc \in {"exec", "running", "store", "charge"}
           \/ runner[r].pc = "cache" /\ pc = IF runner[r].target \in GroupTargets THEN "check" ELSE "prepare"
    PROVE  AskerIsLimited' /\ Accounted' /\ RunsWithinLimit'
<1>1. Owing(r)' <=> Owing(r)
    BY GotoOwed DEF CodeRunInv, Owing
<1>2. Owed' = Owed
    BY <1>1, GotoOwed DEF CodeRunInv, Owed
<1>3. QED
    BY <1>2, GotoOwed, NothingOwed DEF CodeRunInv

-----------------------------------------------------------------------------
(* Each statement of a run keeps the account *)

LEMMA StartKept ==
    ASSUME CodeRunInv, NEW r \in Runners, NEW t \in Targets, RunTarget(r, t)
    PROVE  AskerIsLimited' /\ Accounted' /\ RunsWithinLimit'
<1>1. /\ \A s \in Runners : s # r => runner'[s] = runner[s]
      /\ runner[r].pc = "idle" /\ runner'[r].pc = "cache"
    BY DEF CodeRunInv, RunTypeInv, CodeRunTypeOK, RunTarget, NoRun
<1>2. AskerIsLimited'
    BY <1>1 DEF CodeRunInv, AskerIsLimited, RunAt
<1>3. Owed' = Owed
    BY <1>1 DEF Owed, Owing
<1>4. QED
    BY <1>2, <1>3, NothingOwed DEF RunTarget

LEMMA ReadCacheKept ==
    ASSUME CodeRunInv, NEW r \in Runners, ReadCache(r)
    PROVE  AskerIsLimited' /\ Accounted' /\ RunsWithinLimit'
<1>1. CASE runner' = [runner EXCEPT ![r] = NoRun]
  <2>1. Owed' = Owed
    BY <1>1, EndOwed DEF CodeRunInv, ReadCache, RunAt, Owed, Owing
  <2>2. QED
    BY <1>1, <2>1, EndOwed, NothingOwed DEF CodeRunInv, ReadCache
<1>2. CASE RunGoto(r, IF runner[r].target \in GroupTargets THEN "check" ELSE "prepare")
    BY <1>2, GoingOn DEF ReadCache, RunAt, Statements
<1>3. QED
    BY <1>1, <1>2 DEF ReadCache

\* The counter is below the limit and the run is not among those it will owe.
LEMMA CheckKept ==
    ASSUME CodeRunInv, NEW r \in Runners, AssertGroupCanRunCode(r)
    PROVE  AskerIsLimited' /\ Accounted' /\ RunsWithinLimit'
<1>0. r \notin Owed /\ runner[r].target \in GroupTargets
    BY DEF CodeRunInv, AskerIsLimited, AssertGroupCanRunCode, RunAt, Owed, Owing
<1>1. CASE used >= RunCodePerDay
  <2>1. runner' = [runner EXCEPT ![r] = NoRun] /\ UNCHANGED <<used, admitted, uncharged>>
    BY <1>1 DEF AssertGroupCanRunCode
  <2>2. Owed' = Owed
    BY <1>0, <2>1, EndOwed DEF CodeRunInv
  <2>3. QED
    BY <2>1, <2>2, EndOwed, NothingOwed DEF CodeRunInv
<1>2. CASE ~(used >= RunCodePerDay)
  <2>1. RunGoto(r, "prepare") /\ admitted' = admitted + 1 /\ UNCHANGED <<used, uncharged>>
    BY <1>2 DEF AssertGroupCanRunCode
  <2>2. Owing(r)' /\ AskerIsLimited'
    BY <1>0, <2>1, GotoOwed DEF CodeRunInv, Statements
  <2>3. \A s \in Runners : s # r => (Owing(s)' <=> Owing(s))
    BY <2>1, GotoOwed DEF CodeRunInv, Statements
  <2>4. Owed' = Owed \cup {r}
    BY <2>2, <2>3 DEF Owed
  <2>5. /\ Cardinality(Owed') = Cardinality(Owed) + 1
        /\ Cardinality(Owed) + 1 <= Cardinality(Runners)
    BY <1>0, <2>4, OneMoreOwed
  <2>6. Accounted'
    BY <2>1, <2>5, Numbers, OwedFinite DEF CodeRunInv, Accounted
  <2>7. RunsWithinLimit'
    BY <1>2, <2>1, <2>5, Numbers, OwedFinite DEF CodeRunInv, Accounted, RunsWithinLimit
  <2>8. QED
    BY <2>2, <2>6, <2>7
<1>3. QED
    BY <1>1, <1>2

\* The timeout moves other runs as the end of their command would.
LEMMA TimeoutKept ==
    ASSUME CodeRunInv, NEW r \in Runners, ExecTimeout(r)
    PROVE  AskerIsLimited' /\ Accounted' /\ RunsWithinLimit'
<1>1. \A s \in Runners :
          /\ runner'[s].target = runner[s].target
          /\ \/ runner'[s].pc = runner[s].pc
             \/ runner[s].pc = "running" /\ runner'[s].pc \in {"exec", "store"}
  <2>1. PICK next \in [Runners -> OneMore] : runner' = [s \in Runners |->
            IF s = r THEN [runner[s] EXCEPT !.pc = "store"]
            ELSE IF RunAt(s, "running") THEN [runner[s] EXCEPT !.pc = next[s], !.whole = FALSE]
            ELSE runner[s]]
    BY DEF ExecTimeout
  <2>2. \A s \in Runners : next[s] \in {"exec", "store"} /\ runner[s] \in Runner
    BY DEF OneMore, CodeRunInv, RunTypeInv, CodeRunTypeOK
  <2>3. runner[r].pc = "running"
    BY DEF ExecTimeout, RunAt
  <2>4. QED
    BY <2>1, <2>2, <2>3 DEF Runner, RunAt
<1>2. AskerIsLimited'
    BY <1>1 DEF CodeRunInv, AskerIsLimited, RunAt
<1>3. Owed' = Owed
    BY <1>1 DEF Owed, Owing
<1>4. QED
    BY <1>2, <1>3, NothingOwed DEF ExecTimeout

\* What was owed is counted.
LEMMA ChargeKept ==
    ASSUME CodeRunInv, NEW r \in Runners, IncreaseRunCodeExecutions(r)
    PROVE  AskerIsLimited' /\ Accounted' /\ RunsWithinLimit'
<1>1. AskerIsLimited' /\ Owed' = Owed \ {r}
    BY EndOwed DEF CodeRunInv, IncreaseRunCodeExecutions
<1>2. RunsWithinLimit'
    BY DEF CodeRunInv, IncreaseRunCodeExecutions, RunsWithinLimit
<1>3. CASE runner[r].target \in GroupTargets
  <2>1. r \in Owed
    BY <1>3 DEF IncreaseRunCodeExecutions, RunAt, Owed, Owing
  <2>2. Cardinality(Owed) = Cardinality(Owed') + 1
    BY <1>1, <2>1, OneLessOwed
  <2>3. Cardinality(Owed') \in Nat
    BY <1>1, OwedFinite, FS_Subset, FS_CardinalityType
  <2>4. Accounted'
    BY <1>3, <2>2, <2>3, Numbers DEF CodeRunInv, IncreaseRunCodeExecutions, Accounted
  <2>5. QED
    BY <1>1, <1>2, <2>4
<1>4. CASE runner[r].target \notin GroupTargets
  <2>1. Owed' = Owed
    BY <1>1, <1>4 DEF Owed, Owing
  <2>2. QED
    BY <1>1, <1>2, <1>4, <2>1 DEF CodeRunInv, IncreaseRunCodeExecutions, Accounted
<1>5. QED
    BY <1>3, <1>4

\* What was owed is known to have died.
LEMMA DeathKept ==
    ASSUME CodeRunInv, NEW r \in Runners, RunDies(r)
    PROVE  AskerIsLimited' /\ Accounted' /\ RunsWithinLimit'
<1>1. AskerIsLimited' /\ Owed' = Owed \ {r}
    BY EndOwed DEF CodeRunInv, RunDies
<1>2. CASE Owing(r)
  <2>1. Cardinality(Owed) = Cardinality(Owed') + 1
    BY <1>1, <1>2, OneLessOwed DEF Owed
  <2>2. Cardinality(Owed') \in Nat
    BY <1>1, OwedFinite, FS_Subset, FS_CardinalityType
  <2>3. Accounted'
    BY <1>2, <2>1, <2>2, Numbers DEF CodeRunInv, RunDies, Accounted
  <2>4. RunsWithinLimit'
    BY <1>2, Numbers, OwedFinite DEF CodeRunInv, RunDies, RunsWithinLimit
  <2>5. QED
    BY <1>1, <2>3, <2>4
<1>3. CASE ~Owing(r)
  <2>1. Owed' = Owed
    BY <1>1, <1>3 DEF Owed
  <2>2. QED
    BY <1>1, <1>3, <2>1, NothingOwed DEF RunDies
<1>4. QED
    BY <1>2, <1>3

\* At midnight nothing is counted, and what is owed stays so.
LEMMA MidnightKept ==
    ASSUME CodeRunInv, ResetGroupUsageDaily
    PROVE  AskerIsLimited' /\ Accounted' /\ RunsWithinLimit'
<1>1. AskerIsLimited' /\ Owed' = Owed
    BY DEF CodeRunInv, ResetGroupUsageDaily, AskerIsLimited, RunAt, Owed, Owing
<1>2. Accounted'
    BY <1>1, OwedFinite DEF ResetGroupUsageDaily, Accounted
<1>3. RunsWithinLimit'
    BY Numbers, OwedFinite DEF CodeRunInv, ResetGroupUsageDaily, RunsWithinLimit
<1>4. QED
    BY <1>1, <1>2, <1>3

\* Edits do not touch the counter.
LEMMA EditKept ==
    ASSUME CodeRunInv, UNCHANGED <<runner, used, admitted, uncharged>>
    PROVE  AskerIsLimited' /\ Accounted' /\ RunsWithinLimit'
<1>1. AskerIsLimited' /\ Owed' = Owed
    BY DEF CodeRunInv, AskerIsLimited, RunAt, Owed, Owing
<1>2. QED
    BY <1>1, NothingOwed

-----------------------------------------------------------------------------
(* The theorems *)

LEMMA CodeRunInitially == CodeRunInit => CodeRunInv
<1> SUFFICES ASSUME CodeRunInit PROVE CodeRunInv
    OBVIOUS
<1>1. RunTypeInv
    BY RunTypeInit
<1>2. AskerIsLimited /\ Owed = {}
    BY DEF CodeRunInit, AskerIsLimited, RunAt, Owed, Owing, NoRun
<1>3. Accounted
    BY <1>2, FS_EmptySet DEF CodeRunInit, Accounted
<1>4. RunsWithinLimit
    BY <1>1, Numbers, OwedFinite DEF CodeRunInit, RunsWithinLimit
<1>5. QED
    BY <1>1, <1>2, <1>3, <1>4 DEF CodeRunInv

LEMMA CodeRunKept == CodeRunInv /\ [CodeRunNext]_codeRunVars => CodeRunInv'
<1> SUFFICES ASSUME CodeRunInv, [CodeRunNext]_codeRunVars PROVE CodeRunInv'
    OBVIOUS
<1> DEFINE Account == AskerIsLimited' /\ Accounted' /\ RunsWithinLimit'
<1>1. ASSUME NEW r \in Runners, NEW t \in Targets, RunTarget(r, t) PROVE Account
    BY <1>1, StartKept
<1>2. ASSUME NEW r \in Runners,
             AiRefuses(r) \/ PrepareContainer(r) \/ ExecCommand(r) \/ OutputEnds(r) \/ StoreResult(r)
      PROVE  Account
  <2>1. CASE AiRefuses(r)
    <3>1. RunGoto(r, "store") /\ runner[r].pc = "prepare" /\ UNCHANGED <<used, admitted, uncharged>>
      BY <2>1 DEF AiRefuses, RunAt
    <3>2. Owing(r)' <=> Owing(r)
      BY <3>1, GotoOwed DEF CodeRunInv, Owing, Statements
    <3>3. Owed' = Owed
      BY <3>1, <3>2, GotoOwed DEF CodeRunInv, Owed, Statements
    <3>4. QED
      BY <3>1, <3>3, GotoOwed, NothingOwed DEF CodeRunInv, Statements
  <2>2. CASE PrepareContainer(r)
    BY <2>2, GoingOn DEF PrepareContainer, RunAt, Statements
  <2>3. CASE ExecCommand(r)
    BY <2>3, GoingOn DEF ExecCommand, RunAt, Statements
  <2>4. CASE OutputEnds(r)
    <3>1. PICK next \in OneMore : RunGoto(r, next)
      BY <2>4 DEF OutputEnds
    <3>2. runner[r].pc = "running" /\ UNCHANGED <<used, admitted, uncharged>>
      BY <2>4 DEF OutputEnds, RunAt
    <3>3. Owing(r)' <=> Owing(r)
      BY <3>1, <3>2, GotoOwed DEF CodeRunInv, Owing, Statements, OneMore
    <3>4. Owed' = Owed
      BY <3>1, <3>3, GotoOwed DEF CodeRunInv, Owed, Statements, OneMore
    <3>5. QED
      BY <3>1, <3>2, <3>4, GotoOwed, NothingOwed DEF CodeRunInv, Statements, OneMore
  <2>5. CASE StoreResult(r)
    BY <2>5, GoingOn DEF StoreResult, RunAt, Statements
  <2>6. QED
    BY <1>2, <2>1, <2>2, <2>3, <2>4, <2>5
<1>3. ASSUME NEW r \in Runners,
             \/ RunCodeBlock(r) \/ RunCodeCollab(r)
             \/ ReadCache(r) \/ AssertGroupCanRunCode(r) \/ AiRefuses(r) \/ PrepareContainer(r)
             \/ ExecCommand(r) \/ OutputEnds(r) \/ ExecTimeout(r) \/ StoreResult(r)
             \/ IncreaseRunCodeExecutions(r) \/ RunDies(r)
      PROVE  CodeRunInv'
  <2>1. Account
    BY <1>1, <1>2, <1>3, ReadCacheKept, CheckKept, TimeoutKept, ChargeKept, DeathKept
    DEF RunCodeBlock, RunCodeCollab, Targets
  <2>2. RunTypeInv'
    BY <1>3, RunTypes DEF CodeRunInv
  <2>3. QED
    BY <2>1, <2>2 DEF CodeRunInv
<1>4. ASSUME \/ \E t \in CodeBlocks : EditBlock(t)
             \/ \E t \in Collabs : UpdateCollab(t) \/ DeleteCollab(t)
             \/ SaveBlock \/ ClearCache \/ EditDies \/ ResetGroupUsageDaily
      PROVE  CodeRunInv'
  <2>1. CASE ResetGroupUsageDaily
    BY <2>1, MidnightKept, EditTypes DEF CodeRunInv
  <2>2. CASE ~ResetGroupUsageDaily
    <3>1. UNCHANGED <<runner, used, admitted, uncharged>>
      BY <1>4, <2>2 DEF EditBlock, UpdateCollab, DeleteCollab, StartEdit, SaveBlock, ClearCache,
                        EditDies, EditDone
    <3>2. QED
      BY <1>4, <3>1, EditKept, EditTypes DEF CodeRunInv
  <2>3. QED
    BY <2>1, <2>2
<1>5. CASE UNCHANGED codeRunVars
  <2>1. RunTypeInv'
    BY <1>5 DEF CodeRunInv, RunTypeInv, CodeRunTypeOK, TextRead, RoomToEdit, codeRunVars
  <2>2. QED
    BY <1>5, <2>1, EditKept DEF CodeRunInv, codeRunVars
<1>6. QED
    BY <1>3, <1>4, <1>5 DEF CodeRunNext

\* Texts, cached results, runs, edits and the counter keep their types
\* (run_code_cache, group_usage, CodeService).
THEOREM CodeRunTypes == CodeRunSpec => []CodeRunTypeOK
<1>1. CodeRunInv => CodeRunTypeOK
    BY DEF CodeRunInv, RunTypeInv
<1>2. QED
    BY <1>1, CodeRunInitially, CodeRunKept, PTL DEF CodeRunSpec

\* The runs let through since midnight pass the limit by less than the number
\* of runs at once, apart from those that died before they were charged
\* (assertGroupCanRunCode, increaseRunCodeExecutions).
THEOREM DailyLimitKept == CodeRunSpec => []RunsWithinLimit
<1>1. CodeRunInv => RunsWithinLimit
    BY DEF CodeRunInv
<1>2. QED
    BY <1>1, CodeRunInitially, CodeRunKept, PTL DEF CodeRunSpec

-----------------------------------------------------------------------------
(* The cache *)

Active(r) == runner[r] # NoRun

\* A result is that of the text as it is, or of a collaboration whose cache is
\* about to be cleared.
Fresh(e) ==
    \/ e.text = text[e.target]
    \/ editor.pc = "clear" /\ editor.target = e.target /\ e.target \in Collabs

\* Without an edit that overlapped a run, a run holds the text as it is, and
\* nothing is cached of a block that is about to be written.
TextsAgree ==
    /\ \A e \in results : Fresh(e)
    /\ \A r \in Runners : Active(r) =>
          /\ runner[r].text = text[runner[r].target]
          /\ editor # NoEdit => editor.target # runner[r].target
    /\ editor.pc = "write" => \A e \in results : e.target # editor.target

\* Runs that do not overlap are whole.
RunsWhole ==
    /\ \A e \in results : e.whole
    /\ \A r, s \in Runners : Active(r) /\ Active(s) => r = s
    /\ \A r \in Runners : runner[r].whole

CacheInv == (editsApart => TextsAgree) /\ (runsApart => RunsWhole)

GoesOn(s) ==
    /\ Active(s)
    /\ runner'[s].text = runner[s].text
    /\ runner'[s].target = runner[s].target
    /\ runner'[s].whole = runner[s].whole

\* A run that goes on or is over, caching nothing.
LEMMA RunOnly ==
    ASSUME CacheInv, UNCHANGED <<text, results, editor, editsApart, runsApart>>,
           \A s \in Runners : runner'[s] = NoRun \/ GoesOn(s)
    PROVE  CacheInv'
<1>1. \A s \in Runners : Active(s)' => Active(s)
    BY DEF GoesOn, Active
<1>2. ASSUME editsApart PROVE TextsAgree'
    BY <1>1, <1>2 DEF CacheInv, TextsAgree, GoesOn, Active, Fresh
<1>3. ASSUME runsApart PROVE RunsWhole'
    BY <1>1, <1>3 DEF CacheInv, RunsWhole, GoesOn, NoRun
<1>4. QED
    BY <1>2, <1>3 DEF CacheInv

LEMMA ActiveAt ==
    ASSUME NEW r \in Runners, runner[r].pc # "idle"
    PROVE  Active(r)
    BY DEF Active, NoRun

\* One run goes on.
LEMMA GotoCache ==
    ASSUME RunTypeInv, CacheInv, NEW r \in Runners, NEW pc, RunGoto(r, pc), runner[r].pc # "idle",
           UNCHANGED <<text, results, editor, editsApart, runsApart>>
    PROVE  CacheInv'
<1>1. \A s \in Runners : s # r => runner'[s] = runner[s]
    BY DEF RunTypeInv, CodeRunTypeOK, RunGoto
<1>2. GoesOn(r)
    BY ActiveAt DEF RunTypeInv, CodeRunTypeOK, Runner, RunGoto, GoesOn
<1>3. \A s \in Runners : runner'[s] = NoRun \/ GoesOn(s)
    BY <1>1, <1>2 DEF GoesOn, Active
<1>4. QED
    BY <1>3, RunOnly

\* One run is over.
LEMMA EndCache ==
    ASSUME RunTypeInv, CacheInv, NEW r \in Runners, runner' = [runner EXCEPT ![r] = NoRun],
           UNCHANGED <<text, results, editor, editsApart, runsApart>>
    PROVE  CacheInv'
<1>1. \A s \in Runners : runner'[s] = NoRun \/ GoesOn(s)
    BY DEF RunTypeInv, CodeRunTypeOK, GoesOn, Active
<1>2. QED
    BY <1>1, RunOnly

\* A run begins with the text as it is; an edit of it or another run is noted.
LEMMA StartCache ==
    ASSUME RunTypeInv, CacheInv, NEW r \in Runners, NEW t \in Targets, RunTarget(r, t)
    PROVE  CacheInv'
<1>1. /\ runner'[r].target = t /\ runner'[r].text = text[t] /\ runner'[r].whole
      /\ \A s \in Runners : s # r => runner'[s] = runner[s]
    BY DEF RunTypeInv, CodeRunTypeOK, RunTarget
<1>2. \A s \in Runners : s # r => (Active(s)' <=> Active(s))
    BY <1>1 DEF Active
<1>3. ASSUME editsApart' PROVE TextsAgree'
    BY <1>1, <1>2, <1>3 DEF CacheInv, TextsAgree, RunTarget, Fresh
<1>4. ASSUME runsApart' PROVE RunsWhole'
  <2>1. runsApart /\ results' = results /\ \A s \in Runners : ~Active(s)
    BY <1>4 DEF RunTarget, Active
  <2>2. \A s \in Runners : Active(s)' => s = r
    BY <1>2, <2>1
  <2>3. QED
    BY <1>1, <2>1, <2>2 DEF CacheInv, RunsWhole
<1>5. QED
    BY <1>3, <1>4 DEF CacheInv

\* A timeout cuts the output of another run only if two overlap.
LEMMA TimeoutCache ==
    ASSUME RunTypeInv, CacheInv, NEW r \in Runners, ExecTimeout(r)
    PROVE  CacheInv'
<1>1. PICK next \in [Runners -> OneMore] : runner' = [s \in Runners |->
            IF s = r THEN [runner[s] EXCEPT !.pc = "store"]
            ELSE IF RunAt(s, "running") THEN [runner[s] EXCEPT !.pc = next[s], !.whole = FALSE]
            ELSE runner[s]]
    BY DEF ExecTimeout
<1>2. Active(r)
    BY ActiveAt DEF ExecTimeout, RunAt
<1>3. \A s \in Runners : RunAt(s, "running") => Active(s)
    BY ActiveAt DEF RunAt
<1>4. \A s \in Runners : /\ runner'[s].text = runner[s].text
                         /\ runner'[s].target = runner[s].target
                         /\ Active(s)' => Active(s)
                         /\ s = r \/ ~RunAt(s, "running") => runner'[s].whole = runner[s].whole
    BY <1>1, <1>2, <1>3 DEF RunTypeInv, CodeRunTypeOK, Runner, Active
<1>5. ASSUME editsApart PROVE TextsAgree'
    BY <1>4, <1>5 DEF CacheInv, TextsAgree, ExecTimeout, Fresh
<1>6. ASSUME runsApart PROVE RunsWhole'
    BY <1>2, <1>3, <1>4, <1>6 DEF CacheInv, RunsWhole, ExecTimeout
<1>7. QED
    BY <1>5, <1>6 DEF CacheInv, ExecTimeout

\* What is cached is the result of a text that is still there.
LEMMA StoreCache ==
    ASSUME RunTypeInv, CacheInv, NEW r \in Runners, StoreResult(r)
    PROVE  CacheInv'
<1>1. Active(r)
    BY ActiveAt DEF StoreResult, RunAt
<1>2. \A s \in Runners : /\ runner'[s].text = runner[s].text
                         /\ runner'[s].target = runner[s].target
                         /\ runner'[s].whole = runner[s].whole
                         /\ Active(s)' => Active(s)
    BY <1>1 DEF RunTypeInv, CodeRunTypeOK, Runner, StoreResult, RunGoto, Active
<1>3. \A e \in results' : \/ e \in results
                          \/ /\ e.target = runner[r].target /\ e.text = runner[r].text
                             /\ e.whole = runner[r].whole
    BY DEF StoreResult
<1>4. editor.pc = "write" => editor # NoEdit
    BY DEF NoEdit
<1>5. ASSUME editsApart PROVE TextsAgree'
    BY <1>1, <1>2, <1>3, <1>4, <1>5 DEF CacheInv, TextsAgree, StoreResult, Fresh
<1>6. ASSUME runsApart PROVE RunsWhole'
    BY <1>1, <1>2, <1>3, <1>6 DEF CacheInv, RunsWhole, StoreResult
<1>7. QED
    BY <1>5, <1>6 DEF CacheInv, StoreResult

LEMMA RunCache ==
    ASSUME RunTypeInv, CacheInv, NEW r \in Runners,
           \/ RunCodeBlock(r) \/ RunCodeCollab(r)
           \/ ReadCache(r) \/ AssertGroupCanRunCode(r) \/ AiRefuses(r) \/ PrepareContainer(r)
           \/ ExecCommand(r) \/ OutputEnds(r) \/ ExecTimeout(r) \/ StoreResult(r)
           \/ IncreaseRunCodeExecutions(r) \/ RunDies(r)
    PROVE  CacheInv'
<1>1. CASE RunCodeBlock(r) \/ RunCodeCollab(r)
    BY <1>1, StartCache DEF RunCodeBlock, RunCodeCollab, Targets
<1>2. CASE ReadCache(r)
    BY <1>2, GotoCache, EndCache DEF ReadCache, RunAt
<1>3. CASE AssertGroupCanRunCode(r)
    BY <1>3, GotoCache, EndCache DEF AssertGroupCanRunCode, RunAt
<1>4. CASE AiRefuses(r)
    BY <1>4, GotoCache DEF AiRefuses, RunAt
<1>5. CASE PrepareContainer(r)
    BY <1>5, GotoCache DEF PrepareContainer, RunAt
<1>6. CASE ExecCommand(r)
    BY <1>6, GotoCache DEF ExecCommand, RunAt
<1>7. CASE OutputEnds(r)
    BY <1>7, GotoCache DEF OutputEnds, RunAt
<1>8. CASE IncreaseRunCodeExecutions(r) \/ RunDies(r)
    BY <1>8, EndCache DEF IncreaseRunCodeExecutions, RunDies
<1>9. QED
    BY <1>1, <1>2, <1>3, <1>4, <1>5, <1>6, <1>7, <1>8, TimeoutCache, StoreCache

\* An edit that begins is noted when a run of its target is in flight.
LEMMA StartEditCache ==
    ASSUME RunTypeInv, CacheInv, NEW t \in Targets, StartEdit(t, "clear"),
           \A u \in Targets : u # t => text'[u] = text[u],
           t \notin Collabs => text' = text
    PROVE  CacheInv'
<1>1. editor'.pc = "clear" /\ editor'.target = t /\ editor.pc = "idle"
    BY DEF StartEdit, NoEdit
<1>2. \A s \in Runners : Active(s)' <=> Active(s)
    BY DEF StartEdit, Active
<1>3. \A e \in results : e.target \in Targets
    BY DEF RunTypeInv, CodeRunTypeOK, Result
<1>4. \A s \in Runners : runner[s].target \in Targets
    BY DEF RunTypeInv, CodeRunTypeOK, Runner
<1>5. ASSUME editsApart' PROVE TextsAgree'
  <2>1. \A s \in Runners : Active(s) => runner[s].target # t
    BY <1>5 DEF StartEdit, Running, Active
  <2>2. \A e \in results' : Fresh(e)'
    BY <1>1, <1>3, <1>5 DEF StartEdit, CacheInv, TextsAgree, Fresh
  <2>3. \A s \in Runners : Active(s)' => /\ runner'[s].text = text'[runner'[s].target]
                                         /\ editor'.target # runner'[s].target
    BY <1>1, <1>2, <1>4, <1>5, <2>1 DEF StartEdit, CacheInv, TextsAgree
  <2>4. QED
    BY <1>1, <2>2, <2>3 DEF TextsAgree
<1>6. ASSUME runsApart' PROVE RunsWhole'
    BY <1>2, <1>6 DEF StartEdit, CacheInv, RunsWhole
<1>7. QED
    BY <1>5, <1>6 DEF CacheInv

LEMMA EditCache ==
    ASSUME RunTypeInv, CacheInv,
           \/ \E t \in CodeBlocks : EditBlock(t)
           \/ \E t \in Collabs : UpdateCollab(t) \/ DeleteCollab(t)
           \/ SaveBlock \/ ClearCache \/ EditDies \/ ResetGroupUsageDaily
    PROVE  CacheInv'
<1>0. ASSUME UNCHANGED <<runner, results, runsApart>> PROVE runsApart' => RunsWhole'
    BY <1>0 DEF CacheInv, RunsWhole, Active
<1>1. ASSUME NEW t \in CodeBlocks, EditBlock(t) PROVE CacheInv'
    BY <1>1, StartEditCache, TargetsAssumption DEF EditBlock, Targets
<1>2. ASSUME NEW t \in Collabs, UpdateCollab(t) \/ DeleteCollab(t) PROVE CacheInv'
  <2>1. \A u \in Targets : u # t => text'[u] = text[u]
    BY <1>2 DEF UpdateCollab, DeleteCollab, RunTypeInv, CodeRunTypeOK
  <2>2. QED
    BY <1>2, <2>1, StartEditCache DEF UpdateCollab, DeleteCollab, Targets
<1>3. CASE SaveBlock
  <2>1. PICK t \in Targets : t = editor.target
    BY DEF RunTypeInv, CodeRunTypeOK, Editor
  <2>2. \A u \in Targets : u # t => text'[u] = text[u]
    BY <1>3, <2>1 DEF SaveBlock, RunTypeInv, CodeRunTypeOK
  <2>3. editor # NoEdit /\ editor.pc = "write" /\ editor' = NoEdit /\ editor'.pc = "idle"
    BY <1>3 DEF SaveBlock, NoEdit
  <2>4. /\ \A e \in results : e.target \in Targets
        /\ \A s \in Runners : runner[s].target \in Targets
    BY DEF RunTypeInv, CodeRunTypeOK, Result, Runner
  <2>5. ASSUME editsApart' PROVE TextsAgree'
    BY <1>3, <2>1, <2>2, <2>3, <2>4, <2>5
    DEF SaveBlock, EditDone, CacheInv, TextsAgree, Fresh, Active
  <2>6. QED
    BY <1>0, <1>3, <2>5 DEF CacheInv, SaveBlock, EditDone
<1>4. CASE ClearCache
  <2>1. ASSUME editsApart' PROVE TextsAgree'
    <3>1. /\ editor # NoEdit
          /\ editor' # NoEdit => editor'.target = editor.target
          /\ editor'.pc = "write" => editor'.target = editor.target
      BY <1>4 DEF ClearCache, NoEdit, RunTypeInv, CodeRunTypeOK, Editor
    <3>2. QED
      BY <1>4, <2>1, <3>1 DEF ClearCache, EditDone, CacheInv, TextsAgree, Fresh, Active
  <2>2. ASSUME runsApart' PROVE RunsWhole'
    BY <1>4, <2>2 DEF ClearCache, EditDone, CacheInv, RunsWhole, Active
  <2>3. QED
    BY <2>1, <2>2 DEF CacheInv
<1>5. CASE EditDies
  <2>1. editor'.pc = "idle"
    BY <1>5 DEF EditDies, NoEdit
  <2>2. ASSUME editsApart' PROVE TextsAgree'
    BY <1>5, <2>1, <2>2, TargetsAssumption DEF EditDies, CacheInv, TextsAgree, Fresh, Active
  <2>3. QED
    BY <1>0, <1>5, <2>2 DEF CacheInv, EditDies
<1>6. CASE ResetGroupUsageDaily
  <2>1. ASSUME editsApart' PROVE TextsAgree'
    BY <1>6, <2>1 DEF ResetGroupUsageDaily, CacheInv, TextsAgree, Fresh, Active
  <2>2. QED
    BY <1>0, <1>6, <2>1 DEF CacheInv, ResetGroupUsageDaily
<1>7. QED
    BY <1>1, <1>2, <1>3, <1>4, <1>5, <1>6

\* A cached result is a whole one and that of the text as it is, for any number
\* of targets, runs at once and versions, unless an edit overlapped a run or two
\* runs overlapped (execCommand, updateOne, clearCodeBlockCache).
THEOREM CacheIsFaithful == CodeRunSpec => []CacheFaithful
<1>1. CodeRunInit => CacheInv
    BY DEF CodeRunInit, CacheInv, TextsAgree, RunsWhole, Active, NoRun, NoEdit
<1>2. RunTypeInv /\ CacheInv /\ [CodeRunNext]_codeRunVars => CacheInv'
  <2> SUFFICES ASSUME RunTypeInv, CacheInv, [CodeRunNext]_codeRunVars PROVE CacheInv'
    OBVIOUS
  <2>1. CASE UNCHANGED codeRunVars
    BY <2>1 DEF codeRunVars, CacheInv, TextsAgree, RunsWhole, Fresh, Active
  <2>2. QED
    BY <2>1, RunCache, EditCache DEF CodeRunNext
<1>3. CodeRunInv => RunTypeInv
    BY DEF CodeRunInv
<1>4. CacheInv => CacheFaithful
    BY DEF CacheInv, TextsAgree, RunsWhole, Fresh, CacheFaithful
<1>5. QED
    BY <1>1, <1>2, <1>3, <1>4, CodeRunInitially, CodeRunKept, PTL DEF CodeRunSpec

-----------------------------------------------------------------------------
(* Messages: the inductive invariant *)

Busy(s) == handler[s] # NoHandler

EditPcs == {"clear", "drop", "existing", "detach", "attach", "save"}
DeletePcs == {"detach", "clear", "drop", "deleteRow"}

\* Where the three kinds of call can be, and what they carry, at every
\* interleaving.
CallOK(s) ==
    LET h == handler[s] IN
    /\ h.op = "send" => h.pc \in {"idle", "reload", "attach", "tell", "ask", "answer"}
    /\ h.op = "edit" => h.pc \in EditPcs \cup {"reload", "tell"}
    /\ h.op = "delete" => h.pc \in DeletePcs \cup {"tell"} /\ h.code = "null"
    /\ h.mention => h.op = "send"
    /\ h.pc = "drop" => h.code = "null"
    /\ h.pc # "idle" => h.id # Null
    /\ h.id <= messagesMade
    /\ h.op = "edit" /\ h.pc \in EditPcs =>
          /\ h.loaded => h.entity.block \in BlockIds
          /\ h.entity.version < MaxEdits

MessageRows ==
    /\ MessagesTypeOK
    /\ messagesMade \in 0 .. MaxMessages
    /\ blocksMade \in 0 .. MaxBlocks
    /\ \A i \in DOMAIN messages : i <= messagesMade
    /\ \A s \in Sockets : CallOK(s)

\* What a call knows of the rows while no other runs: its message is the one it
\* has loaded, until a deletion is told; a block it has dropped is gone, and its
\* cached result and its files went before.
Knows(s) ==
    LET h == handler[s] IN
    /\ h.pc \notin {"idle", "ask", "answer"} =>
          IF h.pc = "tell" /\ h.op = "delete" THEN h.id \notin DOMAIN messages
          ELSE h.id \in DOMAIN messages /\ messages[h.id] = h.entity
    /\ h.op = "edit" /\ h.pc \in EditPcs =>
          IF h.code = "null" /\ h.pc \notin {"clear", "drop"} THEN h.entity.block \notin blocks
          ELSE h.loaded <=> h.entity.block \in blocks
    /\ h.pc = "drop" => h.entity.block \notin cached
    /\ h.op = "delete" /\ h.pc \in {"clear", "drop", "deleteRow"} =>
          \A f \in Files : attached[f] # h.id
    /\ h.op = "delete" /\ h.pc = "deleteRow" => h.entity.block \notin blocks

OneCall == \A s, t \in Sockets : Busy(s) /\ Busy(t) => s = t

NoOrphans ==
    /\ \A b \in blocks : \E i \in DOMAIN messages : messages[i].block = b
    /\ cached \subseteq blocks
    /\ \A f \in Files : attached[f] \in DOMAIN messages \cup {Null}

Orderly == OneCall /\ (\A s \in Sockets : Knows(s)) /\ NoOrphans

\* A call tells the room its message is in.
InPlace(s) == Audience(s, handler[s].entity.kind, handler[s].entity.place) = handler[s].entity.place

\* What was last told of a message is what its row says.
Agrees(i) ==
    IF i \in DOMAIN messages
    THEN told[i] = [kind |-> messages[i].kind, place |-> messages[i].place,
                    version |-> messages[i].version]
    ELSE told[i].version = 0

\* A call that has saved its message and not told of it.
OwesEvent(s) == \/ handler[s].pc \in {"reload", "tell"}
                \/ handler[s].pc = "attach" /\ handler[s].op = "send"

Telling ==
    /\ \A s \in Sockets : Busy(s) => InPlace(s)
    /\ \A i \in Ids : Agrees(i) \/ \E s \in Sockets : OwesEvent(s) /\ handler[s].id = i

MessagesInv ==
    /\ MessageRows
    /\ apart => Orderly
    /\ apart /\ intact /\ local => Telling

-----------------------------------------------------------------------------
(* Messages: types *)

LEMMA MessageFillers == NoMessage \in Message /\ NoHandler \in Handler /\ AnyRoom \in Rooms
<1>1. AnyRoom \in Rooms
    BY RoomsAssumption DEF AnyRoom
<1>2. NoMessage \in Message
    BY <1>1, MessagesBounds DEF NoMessage, Message, Kinds, Null
<1>3. NoHandler \in Handler
    BY <1>2 DEF NoHandler, Handler, Null
<1>4. QED
    BY <1>1, <1>2, <1>3

\* What MessagesTypeOK and the bounds say, for the steps below.
LEMMA MessageNumbers ==
    ASSUME MessageRows
    PROVE  /\ messagesMade \in Nat /\ blocksMade \in Nat /\ messagesMade <= MaxMessages
           /\ MaxMessages \in Nat /\ MaxBlocks \in Nat /\ MaxEdits \in Nat \ {0}
           /\ Null \notin blocks /\ Null \notin DOMAIN messages
           /\ messagesMade + 1 \notin DOMAIN messages
           /\ blocks \subseteq BlockIds
           /\ \A s \in Sockets : handler[s] \in Handler /\ CallOK(s)
    BY MessagesBounds DEF MessageRows, MessagesTypeOK, BlockIds, Ids, Null

NextPcs == {"reload", "attach", "tell", "ask", "answer", "tellAnswer", "clear", "drop", "existing",
            "detach", "save", "deleteRow"}

\* A call that goes on keeps what it carries.
LEMMA GotoFields ==
    ASSUME handler \in [Sockets -> Handler], NEW s \in Sockets, NEW pc \in NextPcs, Goto(s, pc)
    PROVE  /\ handler' \in [Sockets -> Handler]
           /\ handler'[s] = [handler[s] EXCEPT !.pc = pc]
           /\ handler'[s].pc = pc /\ handler'[s].op = handler[s].op /\ handler'[s].id = handler[s].id
           /\ handler'[s].entity = handler[s].entity /\ handler'[s].loaded = handler[s].loaded
           /\ handler'[s].code = handler[s].code /\ handler'[s].mention = handler[s].mention
           /\ \A t \in Sockets \ {s} : handler'[t] = handler[t]
<1>1. handler'[s] = [handler[s] EXCEPT !.pc = pc]
    BY DEF Goto
<1>2. [handler[s] EXCEPT !.pc = pc] \in Handler
    BY DEF Handler, NextPcs
<1>3. QED
    BY <1>1, <1>2 DEF Goto, Handler

\* A call that is over leaves nothing.
LEMMA FinishedFields ==
    ASSUME handler \in [Sockets -> Handler], NEW s \in Sockets, Finished(s)
    PROVE  /\ handler' \in [Sockets -> Handler]
           /\ handler'[s] = NoHandler
           /\ \A t \in Sockets \ {s} : handler'[t] = handler[t]
    BY MessageFillers DEF Finished

\* A call that has not begun carries nothing.
LEMMA IdleCall ==
    ASSUME MessageRows, NEW s \in Sockets, handler'[s] = NoHandler, messagesMade' \in Nat
    PROVE  CallOK(s)' /\ Knows(s)' /\ ~Busy(s)' /\ ~OwesEvent(s)'
<1>1. /\ NoHandler.op = "send" /\ NoHandler.pc = "idle" /\ NoHandler.mention = FALSE
      /\ NoHandler.id = Null /\ NoHandler.code = "keep"
    BY DEF NoHandler
<1>2. CallOK(s)'
    BY <1>1 DEF CallOK, Null
<1>3. Knows(s)'
    BY <1>1 DEF Knows
<1>4. QED
    BY <1>1, <1>2, <1>3 DEF Busy, OwesEvent

\* The types after a step of one call, from those of what it changes.
LEMMA TypesFrom ==
    ASSUME MessageRows, NEW s \in Sockets,
           DOMAIN messages' \subseteq Ids, \A i \in DOMAIN messages' : messages'[i] \in Message,
           blocks' \subseteq BlockIds, cached' \subseteq BlockIds, attached' \in Attachments,
           room' \in [Sockets -> Rooms], handler' \in [Sockets -> Handler],
           told' \in [Ids -> [kind : Kinds, place : Rooms, version : 0 .. MaxEdits]],
           {apart', intact', local'} \subseteq BOOLEAN,
           messagesMade' \in 0 .. MaxMessages, messagesMade <= messagesMade',
           blocksMade' \in 0 .. MaxBlocks,
           \A i \in DOMAIN messages' : i <= messagesMade',
           \A t \in Sockets \ {s} : handler'[t] = handler[t],
           CallOK(s)'
    PROVE  MessageRows'
<1>1. ASSUME NEW t \in Sockets PROVE CallOK(t)'
  <2>1. CASE t = s
    BY <2>1
  <2>2. CASE t # s
    <3>1. CallOK(t) /\ handler'[t] = handler[t] /\ handler[t] \in Handler
      BY <2>2 DEF MessageRows, MessagesTypeOK
    <3>2. handler[t].id \in Nat
      BY <3>1, MessagesBounds DEF Handler, Ids, Null
    <3>3. handler[t].id <= messagesMade'
      BY <3>1, <3>2, MessageNumbers, MessagesBounds DEF CallOK
    <3>4. QED
      BY <3>1, <3>3 DEF CallOK
  <2>3. QED
    BY <2>1, <2>2
<1>2. MessagesTypeOK'
    BY DEF MessagesTypeOK
<1>3. QED
    BY <1>1, <1>2 DEF MessageRows

\* A step that makes no row and no block, and tells nobody.
LEMMA TypesOfMove ==
    ASSUME MessageRows, NEW s \in Sockets,
           UNCHANGED <<messages, room, messagesMade, blocksMade, told>>,
           blocks' \subseteq BlockIds, cached' \subseteq BlockIds, attached' \in Attachments,
           {apart', intact', local'} \subseteq BOOLEAN,
           handler' \in [Sockets -> Handler],
           \A t \in Sockets \ {s} : handler'[t] = handler[t],
           CallOK(s)'
    PROVE  MessageRows'
<1>1. /\ DOMAIN messages' \subseteq Ids /\ \A i \in DOMAIN messages' : messages'[i] \in Message
      /\ room' \in [Sockets -> Rooms]
      /\ told' \in [Ids -> [kind : Kinds, place : Rooms, version : 0 .. MaxEdits]]
    BY DEF MessageRows, MessagesTypeOK
<1>2. /\ messagesMade' \in 0 .. MaxMessages /\ messagesMade <= messagesMade'
      /\ blocksMade' \in 0 .. MaxBlocks /\ \A i \in DOMAIN messages' : i <= messagesMade'
    BY MessageNumbers DEF MessageRows
<1>3. QED
    BY <1>1, <1>2, TypesFrom

\* The row, its block and the call after a send has saved them.
SavedBy(s, kind) ==
    /\ \E b \in BlockIds \cup {Null}, m \in Message :
          /\ m.block = b /\ m.kind = kind
          /\ m.place = IF kind = "direct" THEN AnyRoom ELSE room[s]
          /\ messages' = [j \in DOMAIN messages \cup {messagesMade + 1} |->
                              IF j = messagesMade + 1 THEN m ELSE messages[j]]
          /\ blocks' = blocks \cup ({b} \ {Null})
          /\ handler'[s].entity = m
    /\ handler'[s].pc = "reload" /\ handler'[s].op = "send"
    /\ handler'[s].id = messagesMade + 1
    /\ \A t \in Sockets \ {s} : handler'[t] = handler[t]

LEMMA SaveNewTypes ==
    ASSUME MessageRows, NEW s \in Sockets, NEW kind \in Kinds, NEW code \in {"keep", "given"},
           NEW files \in SUBSET Files, NEW mention \in BOOLEAN,
           SaveNew(s, kind, code, files, mention)
    PROVE  MessageRows' /\ SavedBy(s, kind)
<1> DEFINE i == messagesMade + 1
           b == IF code = "given" THEN blocksMade + 1 ELSE Null
           m == [NoMessage EXCEPT !.kind = kind, !.block = b,
                     !.place = IF kind = "direct" THEN AnyRoom ELSE room[s]]
           h == [NoHandler EXCEPT !.pc = "reload", !.op = "send", !.id = i, !.entity = m,
                                  !.files = files, !.mention = mention]
<1>0. /\ messagesMade < MaxMessages /\ (code = "given" => blocksMade < MaxBlocks)
      /\ messages' = [j \in DOMAIN messages \cup {i} |-> IF j = i THEN m ELSE messages[j]]
      /\ messagesMade' = i
      /\ blocks' = blocks \cup ({b} \ {Null})
      /\ blocksMade' = IF b = Null THEN blocksMade ELSE b
      /\ handler' = [handler EXCEPT ![s] = h]
      /\ UNCHANGED <<cached, attached, room, told, intact, local>>
      /\ apart' = (apart /\ AllIdle)
    BY DEF SaveNew, Begin
<1>1. i \in Ids /\ b \in BlockIds \cup {Null}
    BY <1>0, MessageNumbers DEF Ids, BlockIds
<1>2. room[s] \in Rooms /\ handler \in [Sockets -> Handler]
    BY DEF MessageRows, MessagesTypeOK
<1>3. /\ m \in Message /\ m.block = b /\ m.kind = kind
      /\ m.place = IF kind = "direct" THEN AnyRoom ELSE room[s]
    BY <1>1, <1>2, MessageFillers, MessagesBounds DEF Message, NoMessage, Kinds
<1>4. h \in Handler /\ h.pc = "reload" /\ h.op = "send" /\ h.id = i /\ h.entity = m
      /\ h.code = "keep"
    BY <1>1, <1>3 DEF Handler, NoHandler
<1>5. handler' \in [Sockets -> Handler] /\ handler'[s] = h /\ \A t \in Sockets \ {s} : handler'[t] = handler[t]
    BY <1>0, <1>2, <1>4
<1>6. CallOK(s)'
    BY <1>0, <1>4, <1>5, MessageNumbers DEF CallOK, Null
<1> HIDE DEF m, h
<1>7. DOMAIN messages' \subseteq Ids /\ \A j \in DOMAIN messages' : messages'[j] \in Message
    BY <1>0, <1>1, <1>3 DEF MessageRows, MessagesTypeOK
<1>8. \A j \in DOMAIN messages' : j <= messagesMade'
  <2>1. \A j \in DOMAIN messages : j \in Nat /\ j <= messagesMade
    BY MessagesBounds DEF MessageRows, MessagesTypeOK, Ids
  <2>2. QED
    BY <1>0, <2>1, MessageNumbers
<1>9. blocks' \subseteq BlockIds /\ blocksMade' \in 0 .. MaxBlocks
      /\ messagesMade' \in 0 .. MaxMessages /\ messagesMade <= messagesMade'
    BY <1>0, <1>1, MessageNumbers DEF BlockIds, Null, MessageRows
<1>10. /\ cached' \subseteq BlockIds /\ attached' \in Attachments /\ room' \in [Sockets -> Rooms]
       /\ told' \in [Ids -> [kind : Kinds, place : Rooms, version : 0 .. MaxEdits]]
       /\ {apart', intact', local'} \subseteq BOOLEAN
    BY <1>0 DEF MessageRows, MessagesTypeOK
<1>11. MessageRows'
    BY <1>5, <1>6, <1>7, <1>8, <1>9, <1>10, TypesFrom
<1>12. SavedBy(s, kind)
    BY <1>0, <1>1, <1>3, <1>4, <1>5 DEF SavedBy
<1>13. QED
    BY <1>11, <1>12

LEMMA ReloadTypes ==
    ASSUME MessageRows, NEW s \in Sockets, Reload(s)
    PROVE  /\ MessageRows'
           /\ \/ handler'[s] = NoHandler /\ handler[s].op = "send" /\ ~intact'
                 /\ handler[s].id \notin DOMAIN messages
              \/ /\ handler'[s].op = handler[s].op /\ handler'[s].id = handler[s].id
                 /\ \/ handler'[s].pc = "tell"
                    \/ handler'[s].pc = "attach" /\ handler[s].op = "send"
                 /\ handler'[s].entity = IF handler[s].id \in DOMAIN messages
                                          THEN messages[handler[s].id] ELSE handler[s].entity
           /\ \A t \in Sockets \ {s} : handler'[t] = handler[t]
<1> USE DEF MessageRows, MessagesTypeOK
<1>0. handler[s].pc = "reload" /\ handler[s] \in Handler /\ CallOK(s)
    BY DEF Reload
<1>1. CASE handler[s].id \in DOMAIN messages
  <2> DEFINE e == messages[handler[s].id]
             pc == IF handler[s].op = "send" /\ handler[s].files # {} THEN "attach" ELSE "tell"
             h == [handler[s] EXCEPT !.entity = e, !.pc = pc]
  <2>1. handler' = [handler EXCEPT ![s].entity = e, ![s].pc = pc]
        /\ UNCHANGED <<requests, apart, intact, local>>
    BY <1>1 DEF Reload, Kept
  <2>a. pc \in {"attach", "tell"} /\ (pc = "attach" => handler[s].op = "send") /\ e \in Message
    BY <1>1
  <2> HIDE DEF pc, e
  <2>2. /\ h \in Handler /\ h.op = handler[s].op /\ h.id = handler[s].id /\ h.pc = pc /\ h.entity = e
        /\ h.mention = handler[s].mention /\ h.code = handler[s].code
    BY <1>0, <2>a DEF Handler
  <2>3. handler' = [handler EXCEPT ![s] = h]
    BY <2>1 DEF Handler
  <2>4. handler' \in [Sockets -> Handler] /\ handler'[s] = h /\ \A t \in Sockets \ {s} : handler'[t] = handler[t]
    BY <2>2, <2>3
  <2> HIDE DEF h
  <2>5. CallOK(s)'
    BY <1>0, <2>a, <2>2, <2>4 DEF CallOK, Reload, EditPcs
  <2>6. MessageRows'
    BY <2>1, <2>4, <2>5, TypesOfMove DEF Reload
  <2>7. QED
    BY <1>1, <2>a, <2>2, <2>4, <2>6 DEF e
<1>2. CASE handler[s].id \notin DOMAIN messages /\ handler[s].op = "send"
  <2>1. Finished(s) /\ intact' = FALSE /\ UNCHANGED <<requests, apart, local>>
    BY <1>2 DEF Reload, Fail
  <2>2. CallOK(s)'
    BY <2>1, FinishedFields, IdleCall DEF Reload
  <2>3. MessageRows'
    BY <2>1, <2>2, FinishedFields, TypesOfMove DEF Reload
  <2>4. QED
    BY <1>2, <2>1, <2>3, FinishedFields
<1>3. CASE handler[s].id \notin DOMAIN messages /\ handler[s].op # "send"
  <2>1. Goto(s, "tell") /\ UNCHANGED <<requests, apart, intact, local>>
    BY <1>3 DEF Reload, Kept
  <2>2. CallOK(s)'
    BY <1>0, <2>1, GotoFields DEF Reload, CallOK, NextPcs, EditPcs
  <2>3. MessageRows'
    BY <2>1, <2>2, GotoFields, TypesOfMove DEF Reload, NextPcs
  <2>4. QED
    BY <1>3, <2>1, <2>3, GotoFields DEF NextPcs
<1>4. QED
    BY <1>1, <1>2, <1>3

\* The call is in flight, and is one of the three kinds.
LEMMA CallTyped ==
    ASSUME MessageRows, NEW s \in Sockets
    PROVE  /\ handler \in [Sockets -> Handler] /\ handler[s] \in Handler /\ CallOK(s)
           /\ handler[s].op \in {"send", "edit", "delete"}
           /\ handler[s].pc # "idle" => handler[s].id \in Ids
           /\ {apart, intact, local} \subseteq BOOLEAN
           /\ blocks \subseteq BlockIds /\ cached \subseteq BlockIds /\ attached \in Attachments
    BY DEF MessageRows, MessagesTypeOK, Handler, CallOK

LEMMA AttachTypes ==
    ASSUME MessageRows, NEW s \in Sockets, Attach(s)
    PROVE  MessageRows'
<1>1. handler[s].pc = "attach" /\ handler[s].op # "delete" /\ handler[s].id \in Ids
    BY CallTyped DEF Attach, CallOK, DeletePcs
<1>2. attached' \in Attachments
    BY <1>1, CallTyped DEF Attach, Attachments
<1>3. PICK pc \in {"tell", "save"} : Goto(s, pc) /\ (pc = "save" <=> handler[s].op # "send")
    BY DEF Attach
<1>4. CallOK(s)'
    BY ZenonT(40), <1>1, <1>3, GotoFields, CallTyped DEF Attach, CallOK, NextPcs, EditPcs
<1>5. QED
    BY <1>2, <1>3, <1>4, GotoFields, CallTyped, TypesOfMove DEF Attach, Kept, NextPcs

LEMMA AskTypes ==
    ASSUME MessageRows, NEW s \in Sockets, Ask(s)
    PROVE  MessageRows'
<1>1. handler[s].pc = "ask" /\ handler[s].op = "send"
    BY CallTyped DEF Ask, CallOK, DeletePcs, EditPcs
<1>2. CASE Goto(s, "answer") /\ Kept
  <2>1. CallOK(s)'
    BY ZenonT(40), <1>1, <1>2, GotoFields, CallTyped DEF Ask, CallOK, NextPcs
  <2>2. QED
    BY <1>2, <2>1, GotoFields, CallTyped, TypesOfMove DEF Ask, Kept, NextPcs
<1>3. CASE Fail(s)
  <2>1. CallOK(s)'
    BY <1>3, FinishedFields, IdleCall, CallTyped, MessageNumbers DEF Ask, Fail
  <2>2. QED
    BY <1>3, <2>1, FinishedFields, CallTyped, TypesOfMove DEF Ask, Fail
<1>4. QED
    BY <1>2, <1>3 DEF Ask

LEMMA ClearTypes ==
    ASSUME MessageRows, NEW s \in Sockets, ClearCodeBlockCache(s)
    PROVE  /\ MessageRows'
           /\ \E pc \in {"drop", "existing", "save"} :
                 /\ Goto(s, pc)
                 /\ pc = "drop" <=> handler[s].code = "null"
                 /\ pc # "drop" => handler[s].op = "edit"
<1>1. handler[s].pc = "clear" /\ handler[s].op # "send"
    BY CallTyped DEF ClearCodeBlockCache, CallOK
<1>2. PICK pc \in {"drop", "existing", "save"} :
          Goto(s, pc) /\ (pc = "drop" <=> handler[s].code = "null")
    BY DEF ClearCodeBlockCache, AfterCode
<1>3. pc # "drop" => handler[s].op = "edit"
    BY <1>1, <1>2, CallTyped DEF CallOK
<1>4. CallOK(s)'
    BY ZenonT(40), <1>1, <1>2, <1>3, GotoFields, CallTyped
    DEF ClearCodeBlockCache, CallOK, NextPcs, EditPcs, DeletePcs
<1>5. MessageRows'
    BY <1>2, <1>4, GotoFields, CallTyped, TypesOfMove DEF ClearCodeBlockCache, Kept, NextPcs
<1>6. QED
    BY <1>2, <1>3, <1>5

LEMMA DropTypes ==
    ASSUME MessageRows, NEW s \in Sockets, DropBlock(s)
    PROVE  /\ MessageRows'
           /\ \E pc \in {"deleteRow", "existing", "save"} :
                 Goto(s, pc) /\ (pc = "deleteRow" <=> handler[s].op = "delete")
           /\ handler[s].op # "send" /\ handler[s].code = "null"
<1>1. handler[s].pc = "drop" /\ handler[s].op # "send" /\ handler[s].code = "null"
    BY CallTyped DEF DropBlock, CallOK
<1>2. PICK pc \in {"deleteRow", "existing", "save"} :
          Goto(s, pc) /\ (pc = "deleteRow" <=> handler[s].op = "delete")
    BY DEF DropBlock, AfterCode
<1>4. CallOK(s)'
    BY ZenonT(40), <1>1, <1>2, GotoFields, CallTyped DEF DropBlock, CallOK, NextPcs, EditPcs, DeletePcs
<1>5. MessageRows'
    BY <1>2, <1>4, GotoFields, CallTyped, TypesOfMove DEF DropBlock, Kept, NextPcs
<1>6. QED
    BY <1>1, <1>2, <1>5

LEMMA ExistingTypes ==
    ASSUME MessageRows, NEW s \in Sockets, FindExisting(s)
    PROVE  /\ MessageRows'
           /\ handler[s].op = "edit" /\ handler'[s].op = "edit"
           /\ handler'[s].pc \in {"detach", "attach", "save"} /\ handler'[s].id = handler[s].id
           /\ handler'[s].entity = handler[s].entity /\ handler'[s].code = handler[s].code
           /\ handler'[s].loaded = handler[s].loaded
           /\ \A t \in Sockets \ {s} : handler'[t] = handler[t]
<1>1. handler[s].pc = "existing" /\ handler[s].op = "edit"
    BY CallTyped DEF FindExisting, CallOK, DeletePcs
<1>2. PICK pc \in {"detach", "attach", "save"}, out \in SUBSET Files :
          handler' = [handler EXCEPT ![s].detaching = out, ![s].pc = pc]
    BY DEF FindExisting
<1> DEFINE h == [handler[s] EXCEPT !.detaching = out, !.pc = pc]
<1>3. /\ h \in Handler /\ h.op = "edit" /\ h.pc = pc /\ h.id = handler[s].id
      /\ h.entity = handler[s].entity /\ h.code = handler[s].code
      /\ h.loaded = handler[s].loaded /\ h.mention = handler[s].mention
    BY ZenonT(40), <1>1, CallTyped DEF Handler
<1>4. handler' = [handler EXCEPT ![s] = h]
    BY <1>2, CallTyped DEF Handler
<1> HIDE DEF h
<1>5. handler' \in [Sockets -> Handler] /\ handler'[s] = h /\ \A t \in Sockets \ {s} : handler'[t] = handler[t]
    BY <1>3, <1>4, CallTyped
<1>6. CallOK(s)'
    BY <1>1, <1>3, <1>5, CallTyped DEF FindExisting, CallOK, EditPcs
<1>7. MessageRows'
    BY <1>5, <1>6, CallTyped, TypesOfMove DEF FindExisting, Kept
<1>8. QED
    BY <1>1, <1>3, <1>5, <1>7

LEMMA DetachTypes ==
    ASSUME MessageRows, NEW s \in Sockets, Detach(s)
    PROVE  /\ MessageRows'
           /\ \E pc \in {"attach", "save", "clear", "deleteRow"} :
                 /\ Goto(s, pc)
                 /\ IF handler[s].op = "edit" THEN pc \in {"attach", "save"}
                    ELSE pc = IF handler[s].entity.block # Null THEN "clear" ELSE "deleteRow"
           /\ handler[s].op # "send"
<1>1. handler[s].pc = "detach" /\ handler[s].op # "send"
    BY CallTyped DEF Detach, CallOK
<1>2. PICK pc \in {"attach", "save", "clear", "deleteRow"} :
          /\ Goto(s, pc)
          /\ IF handler[s].op = "edit" THEN pc \in {"attach", "save"}
             ELSE pc = IF handler[s].entity.block # Null THEN "clear" ELSE "deleteRow"
    BY DEF Detach
<1>3. attached' \in Attachments
    BY CallTyped DEF Detach, Attachments
<1>4. CallOK(s)'
    BY ZenonT(40), <1>1, <1>2, GotoFields, CallTyped DEF Detach, CallOK, NextPcs, EditPcs, DeletePcs
<1>5. MessageRows'
    BY <1>2, <1>3, <1>4, GotoFields, CallTyped, TypesOfMove DEF Detach, Kept, NextPcs
<1>6. QED
    BY <1>1, <1>2, <1>5

LEMMA DieTypes ==
    ASSUME MessageRows, NEW s \in Sockets, DieHandling(s)
    PROVE  MessageRows'
<1>1. CallOK(s)'
    BY FinishedFields, IdleCall, CallTyped, MessageNumbers DEF DieHandling, Fail
<1>2. QED
    BY <1>1, FinishedFields, CallTyped, TypesOfMove DEF DieHandling, Fail

LEMMA TellTypes ==
    ASSUME MessageRows, NEW s \in Sockets, TellOf(s)
    PROVE  /\ MessageRows'
           /\ \/ Goto(s, "ask") /\ handler[s].op = "send"
              \/ Finished(s)
<1>1. handler[s].pc = "tell" /\ handler[s].id \in Ids
    BY CallTyped DEF TellOf
<1>2. (Goto(s, "ask") /\ handler[s].op = "send") \/ Finished(s)
    BY CallTyped DEF TellOf, CallOK
<1>3. CallOK(s)' /\ handler' \in [Sockets -> Handler] /\ \A t \in Sockets \ {s} : handler'[t] = handler[t]
  <2>1. CASE Goto(s, "ask") /\ handler[s].op = "send"
    BY ZenonT(40), <1>1, <2>1, GotoFields, CallTyped DEF TellOf, CallOK, NextPcs
  <2>2. CASE Finished(s)
    BY <2>2, FinishedFields, IdleCall, CallTyped, MessageNumbers DEF TellOf
  <2>3. QED
    BY <1>2, <2>1, <2>2
<1>4. told' \in [Ids -> [kind : Kinds, place : Rooms, version : 0 .. MaxEdits]]
  <2> DEFINE i == handler[s].id
             e == handler[s].entity
             v == IF handler[s].op = "delete" THEN 0 ELSE e.version
  <2>1. told' = [told EXCEPT ![i] = [kind |-> e.kind, place |-> Audience(s, e.kind, e.place), version |-> v]]
    BY DEF TellOf, Tell
  <2>2. e \in Message
    BY CallTyped DEF Handler
  <2>3. e.kind \in Kinds /\ e.place \in Rooms /\ e.version \in 1 .. MaxEdits
    BY <2>2 DEF Message
  <2>4. Audience(s, e.kind, e.place) \in Rooms
    BY <2>3 DEF Audience, MessageRows, MessagesTypeOK
  <2>5. v \in 0 .. MaxEdits
    BY <2>3, MessagesBounds
  <2> HIDE DEF e, v
  <2>6. QED
    BY <2>1, <2>3, <2>4, <2>5 DEF MessageRows, MessagesTypeOK
<1>5. /\ DOMAIN messages' \subseteq Ids /\ \A i \in DOMAIN messages' : messages'[i] \in Message
      /\ blocks' \subseteq BlockIds /\ cached' \subseteq BlockIds /\ attached' \in Attachments
      /\ room' \in [Sockets -> Rooms] /\ {apart', intact', local'} \subseteq BOOLEAN
      /\ messagesMade' \in 0 .. MaxMessages /\ messagesMade <= messagesMade'
      /\ blocksMade' \in 0 .. MaxBlocks /\ \A i \in DOMAIN messages' : i <= messagesMade'
    BY MessageNumbers DEF TellOf, Kept, MessageRows, MessagesTypeOK
<1>6. MessageRows'
    BY <1>3, <1>4, <1>5, TypesFrom
<1>7. QED
    BY <1>2, <1>6

LEMMA InsertTypes ==
    ASSUME MessageRows, NEW s \in Sockets, InsertAnswer(s)
    PROVE  /\ MessageRows'
           /\ \E m \in Message :
                 /\ m.block = Null /\ m.place = room[s]
                 /\ messages' = [j \in DOMAIN messages \cup {messagesMade + 1} |->
                                     IF j = messagesMade + 1 THEN m ELSE messages[j]]
                 /\ handler'[s].entity = m
           /\ handler'[s].pc = "tell" /\ handler'[s].op = "send"
           /\ handler'[s].id = messagesMade + 1
           /\ \A t \in Sockets \ {s} : handler'[t] = handler[t]
<1> DEFINE i == messagesMade + 1
           m == [NoMessage EXCEPT !.kind = "channel", !.place = room[s], !.parent = handler[s].id]
           h == [NoHandler EXCEPT !.pc = "tell", !.id = i, !.entity = m]
<1>0. /\ messagesMade < MaxMessages /\ handler[s].pc = "answer"
      /\ messages' = [j \in DOMAIN messages \cup {i} |-> IF j = i THEN m ELSE messages[j]]
      /\ messagesMade' = i
      /\ handler' = [handler EXCEPT ![s] = h]
      /\ UNCHANGED <<blocks, cached, attached, room, blocksMade, told, apart, intact, local>>
    BY DEF InsertAnswer, Kept
<1>1. i \in Ids
    BY <1>0, MessageNumbers DEF Ids
<1>2. room[s] \in Rooms /\ handler \in [Sockets -> Handler] /\ handler[s].id \in Ids
    BY <1>0, CallTyped DEF MessageRows, MessagesTypeOK
<1>3. m \in Message /\ m.block = Null /\ m.place = room[s]
    BY <1>2, MessageFillers, MessagesBounds DEF Message, NoMessage, Kinds
<1>4. h \in Handler /\ h.pc = "tell" /\ h.op = "send" /\ h.id = i /\ h.entity = m /\ h.code = "keep"
    BY <1>1, <1>3 DEF Handler, NoHandler
<1>5. handler' \in [Sockets -> Handler] /\ handler'[s] = h /\ \A t \in Sockets \ {s} : handler'[t] = handler[t]
    BY <1>0, <1>2, <1>4
<1>6. CallOK(s)'
    BY <1>0, <1>4, <1>5, MessageNumbers DEF CallOK, Null
<1> HIDE DEF m, h
<1>7. DOMAIN messages' \subseteq Ids /\ \A j \in DOMAIN messages' : messages'[j] \in Message
    BY <1>0, <1>1, <1>3 DEF MessageRows, MessagesTypeOK
<1>8. \A j \in DOMAIN messages' : j <= messagesMade'
  <2>1. \A j \in DOMAIN messages : j \in Nat /\ j <= messagesMade
    BY MessagesBounds DEF MessageRows, MessagesTypeOK, Ids
  <2>2. QED
    BY <1>0, <2>1, MessageNumbers
<1>9. messagesMade' \in 0 .. MaxMessages /\ messagesMade <= messagesMade'
    BY <1>0, MessageNumbers
<1>10. /\ blocks' \subseteq BlockIds /\ blocksMade' \in 0 .. MaxBlocks
       /\ cached' \subseteq BlockIds /\ attached' \in Attachments /\ room' \in [Sockets -> Rooms]
       /\ told' \in [Ids -> [kind : Kinds, place : Rooms, version : 0 .. MaxEdits]]
       /\ {apart', intact', local'} \subseteq BOOLEAN
    BY <1>0 DEF MessageRows, MessagesTypeOK
<1>11. MessageRows'
    BY <1>5, <1>6, <1>7, <1>8, <1>9, <1>10, TypesFrom
<1>12. QED
    BY <1>0, <1>3, <1>4, <1>5, <1>11

\* What an edit saves: the block it has loaded, a new one, or none.
LEMMA SaveTypes ==
    ASSUME MessageRows, NEW s \in Sockets, SaveEdited(s)
    PROVE  /\ MessageRows'
           /\ handler[s].op = "edit"
           /\ \E m \in Message :
                 /\ m.kind = handler[s].entity.kind /\ m.place = handler[s].entity.place
                 /\ messages' = [j \in DOMAIN messages \cup {handler[s].id} |->
                                     IF j = handler[s].id THEN m ELSE messages[j]]
                 /\ blocks' = blocks \cup ({m.block} \ {Null})
                 /\ handler[s].code # "null" /\ handler[s].loaded => m.block = handler[s].entity.block
                 /\ handler'[s].entity = m
           /\ handler'[s].pc = "reload" /\ handler'[s].op = "edit" /\ handler'[s].id = handler[s].id
           /\ \A t \in Sockets \ {s} : handler'[t] = handler[t]
<1> DEFINE h == handler[s]
           created == h.code = "given" /\ ~h.loaded
           b == IF created THEN blocksMade + 1
                ELSE IF h.code # "null" /\ h.loaded THEN h.entity.block ELSE Null
           m == [h.entity EXCEPT !.version = @ + 1, !.block = b]
           g == [h EXCEPT !.entity = m, !.pc = "reload"]
<1>0. /\ h.pc = "save" /\ (created => blocksMade < MaxBlocks)
      /\ messages' = [j \in DOMAIN messages \cup {h.id} |-> IF j = h.id THEN m ELSE messages[j]]
      /\ blocks' = blocks \cup ({b} \ {Null})
      /\ blocksMade' = IF created THEN b ELSE blocksMade
      /\ handler' = [handler EXCEPT ![s].entity = m, ![s].pc = "reload"]
      /\ UNCHANGED <<cached, attached, room, messagesMade, told, apart, intact, local>>
    BY DEF SaveEdited, Kept
<1>1. /\ h \in Handler /\ h.op = "edit" /\ h.id \in Ids /\ h.entity \in Message
      /\ h.entity.version < MaxEdits /\ (h.loaded => h.entity.block \in BlockIds)
      /\ h.id <= messagesMade /\ ~h.mention
    BY <1>0, CallTyped DEF CallOK, DeletePcs, EditPcs, Handler
<1>2. b \in BlockIds \cup {Null}
    BY <1>0, <1>1, MessageNumbers DEF BlockIds
<1>3. blocks' \subseteq BlockIds /\ blocksMade' \in 0 .. MaxBlocks
    BY <1>0, <1>2, MessageNumbers DEF BlockIds, Null, MessageRows
<1>4. h.code # "null" /\ h.loaded => b = h.entity.block
    OBVIOUS
<1> HIDE DEF b
<1>5. h.entity.version + 1 \in 1 .. MaxEdits
    BY <1>1, MessagesBounds DEF Message
<1>6. m \in Message /\ m.block = b /\ m.kind = h.entity.kind /\ m.place = h.entity.place
    BY <1>1, <1>2, <1>5 DEF Message
<1> HIDE DEF m
<1>7. g \in Handler /\ g.entity = m /\ g.pc = "reload" /\ g.op = "edit" /\ g.id = h.id /\ ~g.mention
    BY <1>1, <1>6 DEF Handler
<1>8. handler' = [handler EXCEPT ![s] = g]
    BY <1>0, CallTyped DEF Handler
<1> HIDE DEF g
<1>9. handler' \in [Sockets -> Handler] /\ handler'[s] = g /\ \A t \in Sockets \ {s} : handler'[t] = handler[t]
    BY <1>7, <1>8, CallTyped
<1>10. CallOK(s)'
    BY <1>0, <1>1, <1>7, <1>9, MessagesBounds DEF CallOK, EditPcs, Ids, Null
<1>11. DOMAIN messages' \subseteq Ids /\ \A j \in DOMAIN messages' : messages'[j] \in Message
    BY <1>0, <1>1, <1>6 DEF MessageRows, MessagesTypeOK
<1>12. /\ \A j \in DOMAIN messages' : j <= messagesMade'
       /\ messagesMade' \in 0 .. MaxMessages /\ messagesMade <= messagesMade'
    BY <1>0, <1>1, MessageNumbers DEF MessageRows
<1>13. /\ cached' \subseteq BlockIds /\ attached' \in Attachments /\ room' \in [Sockets -> Rooms]
       /\ told' \in [Ids -> [kind : Kinds, place : Rooms, version : 0 .. MaxEdits]]
       /\ {apart', intact', local'} \subseteq BOOLEAN
    BY <1>0 DEF MessageRows, MessagesTypeOK
<1>14. MessageRows'
    BY <1>3, <1>9, <1>10, <1>11, <1>12, <1>13, TypesFrom
<1>15. blocks' = blocks \cup ({m.block} \ {Null})
    BY <1>0, <1>6
<1>16. QED
    BY <1>0, <1>1, <1>4, <1>6, <1>7, <1>9, <1>14, <1>15

LEMMA DeleteRowTypes ==
    ASSUME MessageRows, NEW s \in Sockets, DeleteRow(s)
    PROVE  MessageRows' /\ handler[s].op = "delete" /\ handler[s].id \in Ids
<1>1. handler[s].pc = "deleteRow" /\ handler[s].op = "delete" /\ handler[s].id \in Ids
    BY CallTyped DEF DeleteRow, CallOK, EditPcs
<1>2. Goto(s, "tell") /\ messages' = [j \in DOMAIN messages \ {handler[s].id} |-> messages[j]]
    BY DEF DeleteRow
<1>3. CallOK(s)' /\ handler' \in [Sockets -> Handler] /\ \A t \in Sockets \ {s} : handler'[t] = handler[t]
    BY ZenonT(40), <1>1, <1>2, GotoFields, CallTyped DEF DeleteRow, CallOK, NextPcs, DeletePcs
<1>4. /\ DOMAIN messages' \subseteq Ids /\ \A i \in DOMAIN messages' : messages'[i] \in Message
      /\ \A i \in DOMAIN messages' : i <= messagesMade'
    BY <1>2 DEF DeleteRow, MessageRows, MessagesTypeOK
<1>5. /\ blocks' \subseteq BlockIds /\ cached' \subseteq BlockIds /\ attached' \in Attachments
      /\ room' \in [Sockets -> Rooms] /\ {apart', intact', local'} \subseteq BOOLEAN
      /\ told' \in [Ids -> [kind : Kinds, place : Rooms, version : 0 .. MaxEdits]]
      /\ messagesMade' \in 0 .. MaxMessages /\ messagesMade <= messagesMade'
      /\ blocksMade' \in 0 .. MaxBlocks
    BY MessageNumbers DEF DeleteRow, Kept, MessageRows, MessagesTypeOK
<1>6. MessageRows'
    BY <1>3, <1>4, <1>5, TypesFrom
<1>7. QED
    BY <1>1, <1>6

\* What a call that has found its message holds.
FoundBy(s, i, h) ==
    /\ handler[s] = NoHandler /\ i \in DOMAIN messages
    /\ handler'[s].op = h.op /\ handler'[s].pc = h.pc /\ handler'[s].code = h.code
    /\ handler'[s].id = i /\ handler'[s].entity = messages[i]
    /\ handler'[s].loaded <=> messages[i].block \in blocks
    /\ \A t \in Sockets \ {s} : handler'[t] = handler[t]
    /\ apart' = (apart /\ AllIdle)
    /\ local' = (local /\ Audience(s, messages[i].kind, messages[i].place) = messages[i].place)
    /\ UNCHANGED <<messages, blocks, cached, attached, room, told, intact>>

BeginsEdit(i, h) ==
    /\ h.op = "edit" /\ h.pc \in {"clear", "existing", "save"} /\ ~h.mention
    /\ messages[i].version < MaxEdits
BeginsDelete(h) == h.op = "delete" /\ h.pc = "detach" /\ h.code = "null" /\ ~h.mention

LEMMA FindTypes ==
    ASSUME MessageRows, NEW s \in Sockets, NEW i, NEW h \in Handler, Find(s, i, h),
           BeginsEdit(i, h) \/ BeginsDelete(h)
    PROVE  MessageRows' /\ FoundBy(s, i, h)
<1> DEFINE found == messages[i].block \in blocks
           g == [h EXCEPT !.id = i, !.entity = messages[i], !.loaded = found]
<1>0. /\ handler[s] = NoHandler /\ i \in DOMAIN messages
      /\ handler' = [handler EXCEPT ![s] = g]
      /\ apart' = (apart /\ AllIdle)
      /\ local' = (local /\ Audience(s, messages[i].kind, messages[i].place) = messages[i].place)
      /\ UNCHANGED <<messages, blocks, cached, attached, room, messagesMade, blocksMade, told, intact>>
    BY DEF Find, Begin
<1>1. i \in Ids /\ i <= messagesMade /\ messages[i] \in Message
    BY <1>0 DEF MessageRows, MessagesTypeOK
<1>a. found \in BOOLEAN /\ (found <=> messages[i].block \in blocks)
    OBVIOUS
<1> HIDE DEF found
<1>2. /\ g \in Handler /\ g.op = h.op /\ g.pc = h.pc /\ g.code = h.code /\ g.id = i
      /\ g.entity = messages[i] /\ g.loaded = found /\ ~g.mention
    BY <1>1, <1>a DEF Handler, BeginsEdit, BeginsDelete
<1> HIDE DEF g
<1>3. handler' \in [Sockets -> Handler] /\ handler'[s] = g /\ \A t \in Sockets \ {s} : handler'[t] = handler[t]
    BY <1>0, <1>2, CallTyped
<1>4. i # Null
    BY <1>1 DEF Ids, Null
<1>5. CallOK(s)'
    BY <1>0, <1>1, <1>a, <1>2, <1>3, <1>4, CallTyped DEF CallOK, EditPcs, DeletePcs, BeginsEdit, BeginsDelete
<1>b. {apart', intact', local'} \subseteq BOOLEAN
    BY <1>0, CallTyped
<1>c. blocks' \subseteq BlockIds /\ cached' \subseteq BlockIds /\ attached' \in Attachments
    BY <1>0, CallTyped
<1>d. UNCHANGED <<messages, room, messagesMade, blocksMade, told>>
    BY <1>0
<1>6. MessageRows'
    BY <1>3, <1>5, <1>b, <1>c, <1>d, TypesOfMove
<1>7. QED
    BY <1>0, <1>a, <1>2, <1>3, <1>6 DEF FoundBy

\* What an edit begins with.
LEMMA EditCallTypes ==
    ASSUME MessageRows, NEW s \in Sockets, NEW i, NEW code \in {"keep", "null", "given"},
           NEW replace \in BOOLEAN, NEW files \in SUBSET Files, Edit(s, i, code, replace, files)
    PROVE  /\ MessageRows'
           /\ \E h \in Handler :
                 /\ FoundBy(s, i, h) /\ h.op = "edit" /\ h.code = code
                 /\ IF ClearsFirst(i, code) THEN h.pc = "clear" ELSE h.pc \in {"existing", "save"}
<1> DEFINE g == [NoHandler EXCEPT !.op = "edit", !.code = code, !.replace = replace, !.files = files]
           h == [g EXCEPT !.pc = IF ClearsFirst(i, code) THEN "clear" ELSE AfterCode(g)]
<1>1. messages[i].version < MaxEdits /\ Find(s, i, h)
    BY DEF Edit
<1>2. g \in Handler /\ g.op = "edit" /\ g.code = code /\ ~g.mention
    BY MessageFillers DEF Handler, NoHandler
<1>3. AfterCode(g) \in {"existing", "save"}
    BY DEF AfterCode
<1> HIDE DEF g
<1>4. /\ h \in Handler /\ h.op = "edit" /\ h.code = code /\ ~h.mention
      /\ IF ClearsFirst(i, code) THEN h.pc = "clear" ELSE h.pc \in {"existing", "save"}
    BY <1>2, <1>3 DEF Handler
<1> HIDE DEF h
<1>5. BeginsEdit(i, h)
    BY <1>1, <1>4 DEF BeginsEdit
<1>6. MessageRows' /\ FoundBy(s, i, h)
    BY <1>1, <1>4, <1>5, FindTypes
<1>7. QED
    BY <1>4, <1>6

LEMMA DeleteTypes ==
    ASSUME MessageRows, NEW s \in Sockets, NEW i, DeleteRequest(s, i)
    PROVE  /\ MessageRows'
           /\ \E h \in Handler : FoundBy(s, i, h) /\ h.op = "delete" /\ h.pc = "detach" /\ h.code = "null"
<1> DEFINE h == [NoHandler EXCEPT !.op = "delete", !.code = "null", !.pc = "detach"]
<1>1. h \in Handler /\ h.op = "delete" /\ h.pc = "detach" /\ h.code = "null" /\ ~h.mention
    BY MessageFillers DEF Handler, NoHandler
<1>2. Find(s, i, h)
    BY DEF DeleteRequest
<1>3. BeginsDelete(h)
    BY <1>1 DEF BeginsDelete
<1> HIDE DEF h
<1>4. QED
    BY <1>1, <1>2, <1>3, FindTypes

\* Steps around the calls.
LEMMA AroundTypes ==
    ASSUME MessageRows, NEW s \in Sockets,
           (\E r \in Rooms : JoinRoom(s, r)) \/ (\E b \in BlockIds : CacheResult(b))
    PROVE  MessageRows'
<1>1. handler' = handler /\ messagesMade' = messagesMade
    BY DEF JoinRoom, CacheResult
<1>2. CallOK(s)'
    BY <1>1 DEF MessageRows, CallOK
<1>3. room' \in [Sockets -> Rooms] /\ cached' \subseteq BlockIds
    BY DEF JoinRoom, CacheResult, MessageRows, MessagesTypeOK
<1>4. {apart', intact', local'} \subseteq BOOLEAN
    BY CallTyped DEF JoinRoom, CacheResult
<1>5. UNCHANGED <<messages, blocks, attached, told, messagesMade, blocksMade>>
    BY DEF JoinRoom, CacheResult
<1>6. /\ DOMAIN messages' \subseteq Ids /\ \A i \in DOMAIN messages' : messages'[i] \in Message
      /\ blocks' \subseteq BlockIds /\ attached' \in Attachments
      /\ told' \in [Ids -> [kind : Kinds, place : Rooms, version : 0 .. MaxEdits]]
      /\ messagesMade' \in 0 .. MaxMessages /\ messagesMade <= messagesMade'
      /\ blocksMade' \in 0 .. MaxBlocks /\ \A i \in DOMAIN messages' : i <= messagesMade'
      /\ handler' \in [Sockets -> Handler]
    BY <1>1, <1>5, MessageNumbers DEF MessageRows, MessagesTypeOK
<1>7. QED
    BY <1>1, <1>2, <1>3, <1>4, <1>6, TypesFrom

-----------------------------------------------------------------------------
(* Messages: one call at a time *)

\* The other calls of a step: none is in flight, before or after.
OthersIdle(s) == \A t \in Sockets \ {s} : handler[t] = NoHandler /\ handler'[t] = NoHandler

LEMMA Alone ==
    ASSUME OneCall, NEW s \in Sockets, Busy(s), \A t \in Sockets \ {s} : handler'[t] = handler[t]
    PROVE  OthersIdle(s)
    BY DEF OneCall, OthersIdle, Busy

LEMMA OrderlyFrom ==
    ASSUME MessageRows, MessageRows', NEW s \in Sockets, OthersIdle(s), Knows(s)', NoOrphans'
    PROVE  Orderly'
<1>1. messagesMade' \in Nat
    BY DEF MessageRows
<1>2. \A t \in Sockets \ {s} : Knows(t)' /\ ~Busy(t)'
    BY <1>1, IdleCall DEF OthersIdle
<1>3. OneCall'
    BY <1>2 DEF OneCall
<1>4. QED
    BY <1>2, <1>3 DEF Orderly

\* What the call in flight owes is all that is owed.
LEMMA OwedBy ==
    ASSUME MessageRows, Telling, NEW s \in Sockets, OthersIdle(s)
    PROVE  \A i \in Ids : Agrees(i) \/ (OwesEvent(s) /\ handler[s].id = i)
<1>1. \A t \in Sockets \ {s} : ~OwesEvent(t)
    BY DEF OthersIdle, OwesEvent, NoHandler
<1>2. QED
    BY <1>1 DEF Telling

LEMMA TellingFrom ==
    ASSUME NEW s \in Sockets, OthersIdle(s), Busy(s)' => InPlace(s)',
           \A i \in Ids : Agrees(i)' \/ (OwesEvent(s)' /\ handler'[s].id = i)
    PROVE  Telling'
<1>1. \A t \in Sockets \ {s} : ~Busy(t)'
    BY DEF OthersIdle, Busy
<1>2. QED
    BY <1>1 DEF Telling

\* A step between two statements that saves and tells nothing.
LEMMA TellingOfMove ==
    ASSUME MessageRows, Telling, NEW s \in Sockets, OthersIdle(s), Busy(s),
           UNCHANGED <<messages, told, room>>,
           handler'[s].entity = handler[s].entity, handler'[s].id = handler[s].id,
           OwesEvent(s) => OwesEvent(s)'
    PROVE  Telling'
<1>1. \A i \in Ids : Agrees(i) => Agrees(i)'
    BY DEF Agrees
<1>2. \A i \in Ids : Agrees(i)' \/ (OwesEvent(s)' /\ handler'[s].id = i)
    BY <1>1, OwedBy
<1>3. InPlace(s)'
    BY DEF Telling, InPlace, Audience
<1>4. QED
    BY <1>2, <1>3, TellingFrom

LEMMA BusyAt ==
    ASSUME NEW s \in Sockets, handler[s].pc # "idle"
    PROVE  Busy(s)
    BY DEF Busy, NoHandler

StepKept == /\ apart' => Orderly'
            /\ apart' /\ intact' /\ local' => Telling'

LEMMA AttachKept ==
    ASSUME MessagesInv, NEW s \in Sockets, Attach(s)
    PROVE  StepKept
<1>0. MessageRows /\ MessageRows' /\ UNCHANGED <<apart, intact, local>> /\ Busy(s)
    BY AttachTypes, BusyAt DEF MessagesInv, Attach, Kept
<1>1. PICK pc \in {"tell", "save"} : Goto(s, pc) /\ (pc = "save" <=> handler[s].op # "send")
    BY DEF Attach
<1>2. /\ handler'[s].pc = pc /\ handler'[s].op = handler[s].op /\ handler'[s].id = handler[s].id
      /\ handler'[s].entity = handler[s].entity /\ handler'[s].loaded = handler[s].loaded
      /\ handler'[s].code = handler[s].code
      /\ \A t \in Sockets \ {s} : handler'[t] = handler[t]
    BY <1>0, <1>1, CallTyped, GotoFields DEF NextPcs
<1>3. handler[s].op # "delete" /\ handler[s].pc = "attach"
    BY <1>0, CallTyped DEF Attach, CallOK, DeletePcs
<1>4. ASSUME apart PROVE Orderly'
  <2>1. Orderly /\ OthersIdle(s)
    BY <1>0, <1>2, <1>4, Alone DEF MessagesInv, Orderly
  <2>2. Knows(s) /\ Knows(s)'
    BY <1>1, <1>2, <1>3, <2>1 DEF Orderly, Knows, Attach, EditPcs
  <2>3. NoOrphans'
    BY <1>3, <2>1, <2>2 DEF Orderly, NoOrphans, Knows, Attach
  <2>4. QED
    BY <1>0, <2>1, <2>2, <2>3, OrderlyFrom
<1>5. ASSUME apart, intact, local PROVE Telling'
  <2>1. Telling /\ OthersIdle(s)
    BY <1>0, <1>2, <1>5, Alone DEF MessagesInv, Orderly
  <2>2. OwesEvent(s) => OwesEvent(s)'
    BY <1>1, <1>2, <1>3 DEF OwesEvent
  <2>3. QED
    BY <1>0, <1>2, <2>1, <2>2, TellingOfMove DEF Attach
<1>6. QED
    BY <1>0, <1>4, <1>5 DEF StepKept

LEMMA ClearKept ==
    ASSUME MessagesInv, NEW s \in Sockets, ClearCodeBlockCache(s)
    PROVE  StepKept
<1>0. MessageRows /\ MessageRows' /\ UNCHANGED <<apart, intact, local>> /\ Busy(s)
    BY ClearTypes, BusyAt DEF MessagesInv, ClearCodeBlockCache, Kept
<1>1. PICK pc \in {"drop", "existing", "save"} :
          /\ Goto(s, pc)
          /\ pc = "drop" <=> handler[s].code = "null"
          /\ pc # "drop" => handler[s].op = "edit"
    BY <1>0, ClearTypes
<1>2. /\ handler'[s].pc = pc /\ handler'[s].op = handler[s].op /\ handler'[s].id = handler[s].id
      /\ handler'[s].entity = handler[s].entity /\ handler'[s].loaded = handler[s].loaded
      /\ handler'[s].code = handler[s].code
      /\ \A t \in Sockets \ {s} : handler'[t] = handler[t]
    BY <1>0, <1>1, CallTyped, GotoFields DEF NextPcs
<1>3. handler[s].pc = "clear"
    BY DEF ClearCodeBlockCache
<1>4. ASSUME apart PROVE Orderly'
  <2>1. Orderly /\ OthersIdle(s)
    BY <1>0, <1>2, <1>4, Alone DEF MessagesInv, Orderly
  <2>2. Knows(s) /\ Knows(s)'
    BY <1>1, <1>2, <1>3, <2>1 DEF Orderly, Knows, ClearCodeBlockCache, EditPcs
  <2>3. NoOrphans'
    BY <2>1 DEF Orderly, NoOrphans, ClearCodeBlockCache
  <2>4. QED
    BY <1>0, <2>1, <2>2, <2>3, OrderlyFrom
<1>5. ASSUME apart, intact, local PROVE Telling'
  <2>1. Telling /\ OthersIdle(s)
    BY <1>0, <1>2, <1>5, Alone DEF MessagesInv, Orderly
  <2>2. ~OwesEvent(s)
    BY <1>3 DEF OwesEvent
  <2>3. QED
    BY <1>0, <1>2, <2>1, <2>2, TellingOfMove DEF ClearCodeBlockCache
<1>6. QED
    BY <1>0, <1>4, <1>5 DEF StepKept

LEMMA DropKept ==
    ASSUME MessagesInv, NEW s \in Sockets, DropBlock(s)
    PROVE  StepKept
<1>0. MessageRows /\ MessageRows' /\ UNCHANGED <<apart, intact, local>> /\ Busy(s)
    BY DropTypes, BusyAt DEF MessagesInv, DropBlock, Kept
<1>1. PICK pc \in {"deleteRow", "existing", "save"} :
          Goto(s, pc) /\ (pc = "deleteRow" <=> handler[s].op = "delete")
    BY <1>0, DropTypes
<1>2. /\ handler'[s].pc = pc /\ handler'[s].op = handler[s].op /\ handler'[s].id = handler[s].id
      /\ handler'[s].entity = handler[s].entity /\ handler'[s].loaded = handler[s].loaded
      /\ handler'[s].code = handler[s].code
      /\ \A t \in Sockets \ {s} : handler'[t] = handler[t]
    BY <1>0, <1>1, CallTyped, GotoFields DEF NextPcs
<1>3. handler[s].pc = "drop" /\ handler[s].code = "null"
    BY <1>0, DropTypes DEF DropBlock
<1>4. ASSUME apart PROVE Orderly'
  <2>1. Orderly /\ OthersIdle(s)
    BY <1>0, <1>2, <1>4, Alone DEF MessagesInv, Orderly
  <2>2. Knows(s) /\ Knows(s)'
    BY <1>1, <1>2, <1>3, <2>1 DEF Orderly, Knows, DropBlock, EditPcs
  <2>3. NoOrphans'
    BY <1>3, <2>1, <2>2 DEF Orderly, NoOrphans, Knows, DropBlock
  <2>4. QED
    BY <1>0, <2>1, <2>2, <2>3, OrderlyFrom
<1>5. ASSUME apart, intact, local PROVE Telling'
  <2>1. Telling /\ OthersIdle(s)
    BY <1>0, <1>2, <1>5, Alone DEF MessagesInv, Orderly
  <2>2. ~OwesEvent(s)
    BY <1>3 DEF OwesEvent
  <2>3. QED
    BY <1>0, <1>2, <2>1, <2>2, TellingOfMove DEF DropBlock
<1>6. QED
    BY <1>0, <1>4, <1>5 DEF StepKept

LEMMA ExistingKept ==
    ASSUME MessagesInv, NEW s \in Sockets, FindExisting(s)
    PROVE  StepKept
<1>0. MessageRows /\ MessageRows' /\ UNCHANGED <<apart, intact, local>> /\ Busy(s)
    BY ExistingTypes, BusyAt DEF MessagesInv, FindExisting, Kept
<1>1. /\ handler[s].op = "edit" /\ handler'[s].op = "edit"
      /\ handler'[s].pc \in {"detach", "attach", "save"} /\ handler'[s].id = handler[s].id
      /\ handler'[s].entity = handler[s].entity /\ handler'[s].code = handler[s].code
      /\ handler'[s].loaded = handler[s].loaded
      /\ \A t \in Sockets \ {s} : handler'[t] = handler[t]
    BY <1>0, ExistingTypes
<1>2. handler[s].pc = "existing"
    BY DEF FindExisting
<1>3. ASSUME apart PROVE Orderly'
  <2>1. Orderly /\ OthersIdle(s)
    BY <1>0, <1>1, <1>3, Alone DEF MessagesInv, Orderly
  <2>2. Knows(s) /\ Knows(s)'
    BY <1>1, <1>2, <2>1 DEF Orderly, Knows, FindExisting, EditPcs
  <2>3. NoOrphans'
    BY <2>1 DEF Orderly, NoOrphans, FindExisting
  <2>4. QED
    BY <1>0, <2>1, <2>2, <2>3, OrderlyFrom
<1>4. ASSUME apart, intact, local PROVE Telling'
  <2>1. Telling /\ OthersIdle(s)
    BY <1>0, <1>1, <1>4, Alone DEF MessagesInv, Orderly
  <2>2. ~OwesEvent(s)
    BY <1>2 DEF OwesEvent
  <2>3. QED
    BY <1>0, <1>1, <2>1, <2>2, TellingOfMove DEF FindExisting
<1>5. QED
    BY <1>0, <1>3, <1>4 DEF StepKept

LEMMA DetachKept ==
    ASSUME MessagesInv, NEW s \in Sockets, Detach(s)
    PROVE  StepKept
<1>0. MessageRows /\ MessageRows' /\ UNCHANGED <<apart, intact, local>> /\ Busy(s)
    BY DetachTypes, BusyAt DEF MessagesInv, Detach, Kept
<1>1. PICK pc \in {"attach", "save", "clear", "deleteRow"} :
          /\ Goto(s, pc)
          /\ IF handler[s].op = "edit" THEN pc \in {"attach", "save"}
             ELSE pc = IF handler[s].entity.block # Null THEN "clear" ELSE "deleteRow"
    BY <1>0, DetachTypes
<1>2. /\ handler'[s].pc = pc /\ handler'[s].op = handler[s].op /\ handler'[s].id = handler[s].id
      /\ handler'[s].entity = handler[s].entity /\ handler'[s].loaded = handler[s].loaded
      /\ handler'[s].code = handler[s].code
      /\ \A t \in Sockets \ {s} : handler'[t] = handler[t]
    BY ZenonT(40), <1>0, <1>1, CallTyped, GotoFields DEF NextPcs
<1>3. handler[s].pc = "detach" /\ handler[s].op \in {"edit", "delete"} /\ handler[s].id # Null
    BY <1>0, CallTyped, DetachTypes DEF Detach, CallOK
<1>4. ASSUME apart PROVE Orderly'
  <2>1. Orderly /\ OthersIdle(s)
    BY <1>0, <1>2, <1>4, Alone DEF MessagesInv, Orderly
  <2>2. handler[s].op = "delete" => \A f \in Files : attached'[f] # handler[s].id
    BY <1>3 DEF Detach
  <2>3. Null \notin blocks
    BY <1>0, MessageNumbers
  <2>4. Knows(s) /\ Knows(s)'
    BY <1>1, <1>2, <1>3, <2>1, <2>2, <2>3 DEF Orderly, Knows, Detach, EditPcs
  <2>5. NoOrphans'
    BY <2>1 DEF Orderly, NoOrphans, Detach
  <2>6. QED
    BY <1>0, <2>1, <2>4, <2>5, OrderlyFrom
<1>5. ASSUME apart, intact, local PROVE Telling'
  <2>1. Telling /\ OthersIdle(s)
    BY <1>0, <1>2, <1>5, Alone DEF MessagesInv, Orderly
  <2>2. ~OwesEvent(s)
    BY <1>3 DEF OwesEvent
  <2>3. QED
    BY <1>0, <1>2, <2>1, <2>2, TellingOfMove DEF Detach
<1>6. QED
    BY <1>0, <1>4, <1>5 DEF StepKept

\* The row read again is the one the call holds.
LEMMA ReloadKept ==
    ASSUME MessagesInv, NEW s \in Sockets, Reload(s)
    PROVE  StepKept
<1>0. MessageRows /\ MessageRows' /\ Busy(s) /\ handler[s].pc = "reload"
      /\ UNCHANGED <<apart, local, messages, blocks, cached, attached, room, told>>
      /\ (intact' => intact)
    BY ReloadTypes, BusyAt DEF MessagesInv, Reload, Kept, Fail
<1>1. /\ \/ handler'[s] = NoHandler /\ handler[s].op = "send" /\ ~intact'
            /\ handler[s].id \notin DOMAIN messages
         \/ /\ handler'[s].op = handler[s].op /\ handler'[s].id = handler[s].id
            /\ \/ handler'[s].pc = "tell"
               \/ handler'[s].pc = "attach" /\ handler[s].op = "send"
            /\ handler'[s].entity = IF handler[s].id \in DOMAIN messages
                                     THEN messages[handler[s].id] ELSE handler[s].entity
      /\ \A t \in Sockets \ {s} : handler'[t] = handler[t]
    BY <1>0, ReloadTypes
<1>2. ASSUME apart
      PROVE  /\ OthersIdle(s) /\ Orderly /\ handler'[s].op = handler[s].op
             /\ handler'[s].id = handler[s].id
             /\ handler'[s].pc = "tell" \/ (handler'[s].pc = "attach" /\ handler[s].op = "send")
             /\ handler'[s].entity = handler[s].entity
             /\ handler[s].id \in DOMAIN messages /\ messages[handler[s].id] = handler[s].entity
             /\ handler[s].op # "delete"
  <2>1. Orderly /\ OthersIdle(s)
    BY <1>0, <1>1, <1>2, Alone DEF MessagesInv, Orderly
  <2>2. handler[s].id \in DOMAIN messages /\ messages[handler[s].id] = handler[s].entity
    BY <1>0, <2>1 DEF Orderly, Knows
  <2>3. handler[s].op # "delete"
    BY <1>0, CallTyped DEF CallOK, DeletePcs
  <2>4. /\ handler'[s].op = handler[s].op /\ handler'[s].id = handler[s].id
        /\ handler'[s].pc = "tell" \/ (handler'[s].pc = "attach" /\ handler[s].op = "send")
        /\ handler'[s].entity = IF handler[s].id \in DOMAIN messages
                                 THEN messages[handler[s].id] ELSE handler[s].entity
    BY <1>1, <2>2
  <2>5. handler'[s].entity = handler[s].entity
    BY <2>2, <2>4
  <2>6. QED
    BY <2>1, <2>2, <2>3, <2>4, <2>5
<1>3. ASSUME apart PROVE Orderly'
  <2>1. Knows(s)'
    BY <1>0, <1>2, <1>3 DEF Knows, EditPcs
  <2>2. NoOrphans'
    BY <1>0, <1>2, <1>3 DEF Orderly, NoOrphans
  <2>3. QED
    BY <1>0, <1>2, <1>3, <2>1, <2>2, OrderlyFrom
<1>4. ASSUME apart, intact', local PROVE Telling'
  <2>1. Telling
    BY <1>0, <1>4 DEF MessagesInv
  <2>2. OwesEvent(s)'
    BY <1>2, <1>4 DEF OwesEvent
  <2>3. QED
    BY <1>0, <1>2, <1>4, <2>1, <2>2, TellingOfMove
<1>5. QED
    BY <1>0, <1>3, <1>4 DEF StepKept

\* After the event, what was told of the message is what its row says.
LEMMA TellKept ==
    ASSUME MessagesInv, NEW s \in Sockets, TellOf(s)
    PROVE  StepKept
<1>0. MessageRows /\ MessageRows' /\ Busy(s) /\ handler[s].pc = "tell" /\ handler[s].id \in Ids
      /\ UNCHANGED <<apart, intact, local, messages, blocks, cached, attached, room>>
    BY TellTypes, BusyAt, CallTyped DEF MessagesInv, TellOf, Kept
<1>1. /\ \/ handler'[s].pc = "ask" /\ handler'[s].op = "send" /\ handler'[s].id = handler[s].id
            /\ handler'[s].entity = handler[s].entity
         \/ handler'[s] = NoHandler
      /\ \A t \in Sockets \ {s} : handler'[t] = handler[t]
    BY <1>0, TellTypes, CallTyped, GotoFields, FinishedFields DEF NextPcs
<1>2. ASSUME apart PROVE Orderly' /\ OthersIdle(s) /\ Orderly
  <2>1. Orderly /\ OthersIdle(s)
    BY <1>0, <1>1, <1>2, Alone DEF MessagesInv, Orderly
  <2>2. messagesMade' \in Nat
    BY <1>0 DEF MessageRows
  <2>3. Knows(s)'
    <3>1. CASE handler'[s] = NoHandler
      BY <1>0, <2>2, <3>1, IdleCall
    <3>2. CASE handler'[s].pc = "ask" /\ handler'[s].op = "send"
      BY <3>2 DEF Knows
    <3>3. QED
      BY <1>1, <3>1, <3>2
  <2>4. NoOrphans'
    BY <1>0, <2>1 DEF Orderly, NoOrphans
  <2>5. QED
    BY <1>0, <2>1, <2>3, <2>4, OrderlyFrom
<1>3. ASSUME apart, intact, local PROVE Telling'
  <2> DEFINE e == handler[s].entity
             v == IF handler[s].op = "delete" THEN 0 ELSE e.version
  <2>1. Telling /\ InPlace(s)
    BY <1>0, <1>3 DEF MessagesInv, Telling
  <2>2. told' = [told EXCEPT ![handler[s].id] = [kind |-> e.kind, place |-> e.place, version |-> v]]
    BY <2>1 DEF TellOf, Tell, InPlace
  <2>3. told \in [Ids -> [kind : Kinds, place : Rooms, version : 0 .. MaxEdits]]
    BY <1>0 DEF MessageRows, MessagesTypeOK
  <2>4. told'[handler[s].id] = [kind |-> e.kind, place |-> e.place, version |-> v]
    BY <1>0, <2>2, <2>3
  <2>5. Knows(s)
    BY <1>2, <1>3 DEF Orderly
  <2>6. ASSUME NEW i \in Ids, i = handler[s].id PROVE Agrees(i)'
    <3>1. CASE handler[s].op = "delete"
      BY <1>0, <2>4, <2>5, <2>6, <3>1 DEF Agrees, Knows
    <3>2. CASE handler[s].op # "delete"
      <4>1. handler[s].id \in DOMAIN messages /\ messages[handler[s].id] = e /\ v = e.version
        BY <1>0, <2>5, <3>2 DEF Knows
      <4>2. QED
        BY <1>0, <2>4, <2>6, <4>1 DEF Agrees
    <3>3. QED
      BY <3>1, <3>2
  <2>7. ASSUME NEW i \in Ids, i # handler[s].id PROVE Agrees(i)'
    <3>1. Agrees(i)
      BY <1>0, <1>2, <1>3, <2>1, <2>7, OwedBy
    <3>2. told'[i] = told[i]
      BY <2>2, <2>3, <2>7
    <3>3. QED
      BY <1>0, <3>1, <3>2 DEF Agrees
  <2>8. Busy(s)' => InPlace(s)'
    BY <1>0, <1>1, <2>1 DEF Busy, InPlace, Audience
  <2>9. QED
    BY <1>2, <1>3, <2>6, <2>7, <2>8, TellingFrom
<1>4. QED
    BY <1>0, <1>2, <1>3 DEF StepKept

LEMMA AskKept ==
    ASSUME MessagesInv, NEW s \in Sockets, Ask(s)
    PROVE  StepKept
<1>0. MessageRows /\ MessageRows' /\ Busy(s) /\ handler[s].pc = "ask"
      /\ UNCHANGED <<apart, local, messages, blocks, cached, attached, room, told>>
      /\ (intact' => intact)
    BY AskTypes, BusyAt DEF MessagesInv, Ask, Kept, Fail
<1>1. /\ \/ handler'[s].pc = "answer" /\ handler'[s].op = "send" /\ handler'[s].id = handler[s].id
            /\ handler'[s].entity = handler[s].entity
         \/ handler'[s] = NoHandler /\ ~intact'
      /\ \A t \in Sockets \ {s} : handler'[t] = handler[t]
  <2>1. handler[s].op = "send"
    BY <1>0, CallTyped DEF CallOK, EditPcs, DeletePcs
  <2>2. CASE Goto(s, "answer")
    BY <1>0, <2>1, <2>2, CallTyped, GotoFields DEF NextPcs
  <2>3. CASE Fail(s)
    BY <1>0, <2>3, CallTyped, FinishedFields DEF Fail
  <2>4. QED
    BY <2>2, <2>3 DEF Ask
<1>2. ASSUME apart PROVE Orderly' /\ OthersIdle(s) /\ Orderly
  <2>1. Orderly /\ OthersIdle(s)
    BY <1>0, <1>1, <1>2, Alone DEF MessagesInv, Orderly
  <2>2. messagesMade' \in Nat
    BY <1>0 DEF MessageRows
  <2>3. Knows(s)'
    <3>1. CASE handler'[s] = NoHandler
      BY <1>0, <2>2, <3>1, IdleCall
    <3>2. CASE handler'[s].pc = "answer" /\ handler'[s].op = "send"
      BY <3>2 DEF Knows
    <3>3. QED
      BY <1>1, <3>1, <3>2
  <2>4. NoOrphans'
    BY <1>0, <2>1 DEF Orderly, NoOrphans
  <2>5. QED
    BY <1>0, <2>1, <2>3, <2>4, OrderlyFrom
<1>3. ASSUME apart, intact', local PROVE Telling'
  <2>1. Telling
    BY <1>0, <1>3 DEF MessagesInv
  <2>2. ~OwesEvent(s)
    BY <1>0 DEF OwesEvent
  <2>3. QED
    BY <1>0, <1>1, <1>2, <1>3, <2>1, <2>2, TellingOfMove
<1>4. QED
    BY <1>0, <1>2, <1>3 DEF StepKept

\* A call that dies leaves rows that belong together.
LEMMA DieKept ==
    ASSUME MessagesInv, NEW s \in Sockets, DieHandling(s)
    PROVE  StepKept
<1>0. MessageRows /\ MessageRows' /\ Busy(s) /\ intact' = FALSE
      /\ UNCHANGED <<apart, messages, blocks, cached, attached>>
    BY DieTypes DEF MessagesInv, DieHandling, Fail, Busy
<1>1. handler'[s] = NoHandler /\ \A t \in Sockets \ {s} : handler'[t] = handler[t]
    BY <1>0, CallTyped, FinishedFields DEF DieHandling, Fail
<1>2. ASSUME apart PROVE Orderly'
  <2>1. Orderly /\ OthersIdle(s)
    BY <1>0, <1>1, <1>2, Alone DEF MessagesInv, Orderly
  <2>2. messagesMade' \in Nat
    BY <1>0 DEF MessageRows
  <2>3. Knows(s)'
    BY <1>0, <1>1, <2>2, IdleCall
  <2>4. NoOrphans'
    BY <1>0, <2>1 DEF Orderly, NoOrphans
  <2>5. QED
    BY <1>0, <2>1, <2>3, <2>4, OrderlyFrom
<1>3. QED
    BY <1>0, <1>2 DEF StepKept

\* A new row, told of or not, takes nothing from the others.
LEMMA InsertKept ==
    ASSUME MessagesInv, NEW s \in Sockets, InsertAnswer(s)
    PROVE  StepKept
<1>0. MessageRows /\ MessageRows' /\ Busy(s) /\ handler[s].pc = "answer"
      /\ UNCHANGED <<apart, intact, local, blocks, cached, attached, room, told>>
    BY InsertTypes, BusyAt DEF MessagesInv, InsertAnswer, Kept
<1>1. /\ handler'[s].pc = "tell" /\ handler'[s].op = "send"
      /\ handler'[s].id = messagesMade + 1
      /\ \A t \in Sockets \ {s} : handler'[t] = handler[t]
    BY <1>0, InsertTypes
<1>2. PICK m \in Message :
         /\ m.block = Null /\ m.place = room[s]
         /\ messages' = [j \in DOMAIN messages \cup {messagesMade + 1} |->
                             IF j = messagesMade + 1 THEN m ELSE messages[j]]
         /\ handler'[s].entity = m
    BY <1>0, InsertTypes
<1>3. /\ messagesMade + 1 \in DOMAIN messages' /\ messages'[messagesMade + 1] = m
      /\ \A j \in DOMAIN messages : j # messagesMade + 1 /\ j \in DOMAIN messages' /\ messages'[j] = messages[j]
      /\ \A j \in DOMAIN messages' : j # messagesMade + 1 => j \in DOMAIN messages
    BY <1>0, <1>2, MessageNumbers
<1>4. ASSUME apart PROVE Orderly' /\ OthersIdle(s) /\ Orderly
  <2>1. Orderly /\ OthersIdle(s)
    BY <1>0, <1>1, <1>4, Alone DEF MessagesInv, Orderly
  <2>2. Knows(s)'
    BY <1>1, <1>2, <1>3 DEF Knows
  <2>3. NoOrphans'
    BY <1>0, <1>3, <2>1 DEF Orderly, NoOrphans
  <2>4. QED
    BY <1>0, <2>1, <2>2, <2>3, OrderlyFrom
<1>5. ASSUME apart, intact, local PROVE Telling'
  <2>1. Telling
    BY <1>5 DEF MessagesInv
  <2>2. ~OwesEvent(s)
    BY <1>0 DEF OwesEvent
  <2>3. \A i \in Ids : Agrees(i)
    BY <1>0, <1>4, <1>5, <2>1, <2>2, OwedBy
  <2>4. \A i \in Ids : i # messagesMade + 1 => Agrees(i)'
    BY <1>0, <1>3, <2>3 DEF Agrees
  <2>5. InPlace(s)'
    BY <1>0, <1>2 DEF InPlace, Audience
  <2>6. OwesEvent(s)'
    BY <1>1 DEF OwesEvent
  <2>7. QED
    BY <1>1, <1>4, <1>5, <2>4, <2>5, <2>6, TellingFrom
<1>6. QED
    BY <1>0, <1>4, <1>5 DEF StepKept

\* What an edit saves replaces the row it has loaded, and keeps its block unless
\* the block is gone.
LEMMA SaveKept ==
    ASSUME MessagesInv, NEW s \in Sockets, SaveEdited(s)
    PROVE  StepKept
<1>0. MessageRows /\ MessageRows' /\ Busy(s) /\ handler[s].pc = "save"
      /\ UNCHANGED <<apart, intact, local, cached, attached, room, told>>
    BY SaveTypes, BusyAt DEF MessagesInv, SaveEdited, Kept
<1>1. /\ handler[s].op = "edit"
      /\ handler'[s].pc = "reload" /\ handler'[s].op = "edit" /\ handler'[s].id = handler[s].id
      /\ \A t \in Sockets \ {s} : handler'[t] = handler[t]
    BY <1>0, SaveTypes
<1>2. PICK m \in Message :
         /\ m.kind = handler[s].entity.kind /\ m.place = handler[s].entity.place
         /\ messages' = [j \in DOMAIN messages \cup {handler[s].id} |->
                             IF j = handler[s].id THEN m ELSE messages[j]]
         /\ blocks' = blocks \cup ({m.block} \ {Null})
         /\ handler[s].code # "null" /\ handler[s].loaded => m.block = handler[s].entity.block
         /\ handler'[s].entity = m
    BY <1>0, SaveTypes
<1>3. /\ handler[s].id \in DOMAIN messages' /\ messages'[handler[s].id] = m
      /\ \A j \in DOMAIN messages : j \in DOMAIN messages'
      /\ \A j \in DOMAIN messages' : j # handler[s].id => j \in DOMAIN messages /\ messages'[j] = messages[j]
    BY <1>2
<1>4. ASSUME apart PROVE Orderly' /\ OthersIdle(s) /\ Orderly
  <2>1. Orderly /\ OthersIdle(s)
    BY <1>0, <1>1, <1>4, Alone DEF MessagesInv, Orderly
  <2>2. Knows(s)'
    BY <1>1, <1>2, <1>3 DEF Knows, EditPcs
  <2>3. /\ messages[handler[s].id] = handler[s].entity
        /\ IF handler[s].code = "null" THEN handler[s].entity.block \notin blocks
           ELSE handler[s].loaded <=> handler[s].entity.block \in blocks
    BY <1>0, <1>1, <2>1 DEF Orderly, Knows, EditPcs
  <2>4. ASSUME NEW b \in blocks' PROVE \E i \in DOMAIN messages' : messages'[i].block = b
    <3>1. CASE b = m.block
      BY <1>3, <3>1
    <3>2. CASE b # m.block
      <4>1. PICK i \in DOMAIN messages : messages[i].block = b
        BY <1>2, <2>1, <3>2 DEF Orderly, NoOrphans
      <4>2. b \in blocks
        BY <1>2, <3>2
      <4>3. i # handler[s].id
        BY <1>2, <2>3, <3>2, <4>1, <4>2
      <4>4. QED
        BY <1>3, <4>1, <4>3
    <3>3. QED
      BY <3>1, <3>2
  <2>5. NoOrphans'
    BY <1>0, <1>2, <1>3, <2>1, <2>4 DEF Orderly, NoOrphans
  <2>6. QED
    BY <1>0, <2>1, <2>2, <2>5, OrderlyFrom
<1>5. ASSUME apart, intact, local PROVE Telling'
  <2>1. Telling
    BY <1>5 DEF MessagesInv
  <2>2. ~OwesEvent(s)
    BY <1>0 DEF OwesEvent
  <2>3. \A i \in Ids : Agrees(i)
    BY <1>0, <1>4, <1>5, <2>1, <2>2, OwedBy
  <2>4. \A i \in Ids : i # handler[s].id => Agrees(i)'
    BY <1>0, <1>3, <2>3 DEF Agrees
  <2>5. InPlace(s)'
    BY <1>0, <1>2, <2>1 DEF Telling, InPlace, Audience
  <2>6. OwesEvent(s)'
    BY <1>1 DEF OwesEvent
  <2>7. QED
    BY <1>1, <1>4, <1>5, <2>4, <2>5, <2>6, TellingFrom
<1>6. QED
    BY <1>0, <1>4, <1>5 DEF StepKept

\* What hung on the row is gone before the row.
LEMMA DeleteRowKept ==
    ASSUME MessagesInv, NEW s \in Sockets, DeleteRow(s)
    PROVE  StepKept
<1>0. MessageRows /\ MessageRows' /\ Busy(s) /\ handler[s].pc = "deleteRow" /\ handler[s].op = "delete"
      /\ handler[s].id \in Ids
      /\ messages' = [j \in DOMAIN messages \ {handler[s].id} |-> messages[j]]
      /\ UNCHANGED <<apart, intact, local, blocks, cached, attached, room, told>>
    BY DeleteRowTypes, BusyAt DEF MessagesInv, DeleteRow, Kept
<1>1. /\ handler'[s].pc = "tell" /\ handler'[s].op = "delete" /\ handler'[s].id = handler[s].id
      /\ handler'[s].entity = handler[s].entity
      /\ \A t \in Sockets \ {s} : handler'[t] = handler[t]
    BY <1>0, CallTyped, GotoFields DEF DeleteRow, NextPcs
<1>2. DOMAIN messages' = DOMAIN messages \ {handler[s].id} /\ \A j \in DOMAIN messages' : messages'[j] = messages[j]
    BY <1>0
<1>3. ASSUME apart PROVE Orderly' /\ OthersIdle(s) /\ Orderly
  <2>1. Orderly /\ OthersIdle(s)
    BY <1>0, <1>1, <1>3, Alone DEF MessagesInv, Orderly
  <2>2. Knows(s)'
    BY <1>1, <1>2 DEF Knows
  <2>3. /\ messages[handler[s].id] = handler[s].entity /\ handler[s].entity.block \notin blocks
        /\ \A f \in Files : attached[f] # handler[s].id
    BY <1>0, <2>1 DEF Orderly, Knows
  <2>4. NoOrphans'
    BY <1>0, <1>2, <2>1, <2>3 DEF Orderly, NoOrphans
  <2>5. QED
    BY <1>0, <2>1, <2>2, <2>4, OrderlyFrom
<1>4. ASSUME apart, intact, local PROVE Telling'
  <2>1. Telling
    BY <1>4 DEF MessagesInv
  <2>2. ~OwesEvent(s)
    BY <1>0 DEF OwesEvent
  <2>3. \A i \in Ids : Agrees(i)
    BY <1>0, <1>3, <1>4, <2>1, <2>2, OwedBy
  <2>4. \A i \in Ids : i # handler[s].id => Agrees(i)'
    BY <1>0, <1>2, <2>3 DEF Agrees
  <2>5. InPlace(s)'
    BY <1>0, <1>1, <2>1 DEF Telling, InPlace, Audience
  <2>6. OwesEvent(s)'
    BY <1>1 DEF OwesEvent
  <2>7. QED
    BY <1>1, <1>3, <1>4, <2>4, <2>5, <2>6, TellingFrom
<1>5. QED
    BY <1>0, <1>3, <1>4 DEF StepKept

\* A call that begins while none is in flight.
LEMMA NewKept ==
    ASSUME MessagesInv, NEW s \in Sockets, NEW kind \in Kinds, NEW code \in {"keep", "given"},
           NEW files \in SUBSET Files, NEW mention \in BOOLEAN,
           SaveNew(s, kind, code, files, mention)
    PROVE  StepKept
<1>a. MessageRows
    BY DEF MessagesInv
<1>b. /\ apart' = (apart /\ AllIdle)
      /\ UNCHANGED <<intact, local, cached, attached, room, told>>
    BY DEF SaveNew, Begin
<1>0. MessageRows /\ MessageRows' /\ SavedBy(s, kind) /\ UNCHANGED <<intact, local, cached, attached, room, told>>
    BY <1>a, <1>b, SaveNewTypes
<1>1. /\ handler'[s].pc = "reload" /\ handler'[s].op = "send" /\ handler'[s].id = messagesMade + 1
      /\ \A t \in Sockets \ {s} : handler'[t] = handler[t]
    BY <1>0 DEF SavedBy
<1>2. PICK b \in BlockIds \cup {Null}, m \in Message :
         /\ m.block = b /\ m.kind = kind
         /\ m.place = IF kind = "direct" THEN AnyRoom ELSE room[s]
         /\ messages' = [j \in DOMAIN messages \cup {messagesMade + 1} |->
                             IF j = messagesMade + 1 THEN m ELSE messages[j]]
         /\ blocks' = blocks \cup ({b} \ {Null})
         /\ handler'[s].entity = m
    BY <1>0 DEF SavedBy
<1>3. /\ messagesMade + 1 \in DOMAIN messages' /\ messages'[messagesMade + 1] = m
      /\ \A j \in DOMAIN messages : j # messagesMade + 1 /\ j \in DOMAIN messages' /\ messages'[j] = messages[j]
      /\ \A j \in DOMAIN messages' : j # messagesMade + 1 => j \in DOMAIN messages
    BY <1>0, <1>2, MessageNumbers
<1>4. ASSUME apart' PROVE Orderly' /\ OthersIdle(s) /\ Orderly
  <2>1. Orderly /\ OthersIdle(s)
    BY <1>b, <1>1, <1>4 DEF MessagesInv, AllIdle, OthersIdle
  <2>2. Knows(s)'
    BY <1>1, <1>2, <1>3 DEF Knows
  <2>3. NoOrphans'
    BY <1>0, <1>2, <1>3, <2>1 DEF Orderly, NoOrphans
  <2>4. QED
    BY <1>0, <2>1, <2>2, <2>3, OrderlyFrom
<1>5. ASSUME apart', intact, local PROVE Telling'
  <2>a. apart /\ handler[s] = NoHandler
    BY <1>b, <1>5 DEF AllIdle
  <2>1. Telling /\ ~OwesEvent(s)
    BY <1>5, <2>a DEF MessagesInv, OwesEvent, NoHandler
  <2>2. \A i \in Ids : Agrees(i)
    BY <1>0, <1>4, <1>5, <2>1, OwedBy
  <2>3. \A i \in Ids : i # messagesMade + 1 => Agrees(i)'
    BY <1>0, <1>3, <2>2 DEF Agrees
  <2>4. InPlace(s)'
    BY <1>0, <1>2 DEF InPlace, Audience
  <2>5. OwesEvent(s)'
    BY <1>1 DEF OwesEvent
  <2>6. QED
    BY <1>1, <1>4, <1>5, <2>3, <2>4, <2>5, TellingFrom
<1>6. QED
    BY <1>0, <1>4, <1>5 DEF StepKept

\* A call that has found its message holds it as it is.
LEMMA FoundKept ==
    ASSUME MessagesInv, MessageRows', NEW s \in Sockets, NEW i, NEW h \in Handler, FoundBy(s, i, h),
           \/ /\ h.op = "edit"
              /\ IF ClearsFirst(i, h.code) THEN h.pc = "clear" ELSE h.pc \in {"existing", "save"}
           \/ h.op = "delete" /\ h.pc = "detach"
    PROVE  StepKept
<1>0. MessageRows /\ apart' = (apart /\ AllIdle)
      /\ UNCHANGED <<intact, messages, blocks, cached, attached, room, told>>
    BY DEF MessagesInv, FoundBy
<1>1. /\ i \in DOMAIN messages
      /\ handler'[s].op = h.op /\ handler'[s].pc = h.pc /\ handler'[s].code = h.code
      /\ handler'[s].id = i /\ handler'[s].entity = messages[i]
      /\ handler'[s].loaded <=> messages[i].block \in blocks
      /\ \A t \in Sockets \ {s} : handler'[t] = handler[t]
    BY DEF FoundBy
<1>2. ASSUME apart' PROVE Orderly' /\ OthersIdle(s) /\ Orderly
  <2>1. Orderly /\ OthersIdle(s)
    BY <1>0, <1>1, <1>2 DEF MessagesInv, AllIdle, OthersIdle
  <2>2. Null \notin blocks
    BY <1>0, MessageNumbers
  <2>3. Knows(s)'
    BY <1>0, <1>1, <2>2 DEF Knows, EditPcs, ClearsFirst
  <2>4. NoOrphans'
    BY <1>0, <2>1 DEF Orderly, NoOrphans
  <2>5. QED
    BY <1>0, <2>1, <2>3, <2>4, OrderlyFrom
<1>3. ASSUME apart', intact, local' PROVE Telling'
  <2>a. apart /\ local /\ handler[s] = NoHandler
    BY <1>3 DEF FoundBy
  <2>1. Telling /\ ~OwesEvent(s)
    BY <1>3, <2>a DEF MessagesInv, OwesEvent, NoHandler
  <2>2. \A j \in Ids : Agrees(j)
    BY <1>0, <1>2, <1>3, <2>1, OwedBy
  <2>3. \A j \in Ids : Agrees(j)'
    BY <1>0, <2>2 DEF Agrees
  <2>4. InPlace(s)'
    BY <1>0, <1>1, <1>3 DEF InPlace, Audience, FoundBy
  <2>5. QED
    BY <1>2, <1>3, <2>3, <2>4, TellingFrom
<1>4. QED
    BY <1>0, <1>2, <1>3 DEF StepKept

\* A join waits for the call of its socket, a run for all of them.
LEMMA AroundKept ==
    ASSUME MessagesInv, NEW s \in Sockets,
           (\E r \in Rooms : JoinRoom(s, r)) \/ (\E b \in BlockIds : CacheResult(b))
    PROVE  StepKept
<1>0. MessageRows /\ MessageRows' /\ UNCHANGED <<intact, local, messages, blocks, attached, handler, told>>
    BY AroundTypes DEF MessagesInv, JoinRoom, CacheResult
<1>1. ASSUME apart'
      PROVE  /\ apart /\ cached' \subseteq blocks' \cup cached
             /\ \A t \in Sockets : Busy(t) => UNCHANGED cached /\ room'[t] = room[t]
  <2>1. CASE \E r \in Rooms : JoinRoom(s, r)
    <3>1. apart /\ handler[s] = NoHandler /\ cached' = cached
      BY <1>1, <2>1 DEF JoinRoom
    <3>2. room \in [Sockets -> Rooms]
      BY <1>0 DEF MessageRows, MessagesTypeOK
    <3>3. \A t \in Sockets : t # s => room'[t] = room[t]
      BY <2>1, <3>2 DEF JoinRoom
    <3>4. QED
      BY <3>1, <3>3 DEF Busy
  <2>2. CASE \E b \in BlockIds : CacheResult(b)
    BY <1>1, <2>2 DEF CacheResult, AllIdle, Busy
  <2>3. QED
    BY <2>1, <2>2
<1>2. ASSUME apart' PROVE Orderly'
  <2>1. Orderly
    BY <1>1, <1>2 DEF MessagesInv
  <2>2. ASSUME NEW t \in Sockets PROVE Knows(t)'
    <3>1. CASE Busy(t)
      BY <1>0, <1>1, <1>2, <2>1, <3>1 DEF Orderly, Knows
    <3>2. CASE ~Busy(t)
      BY <1>0, <3>2 DEF Busy, Knows, NoHandler
    <3>3. QED
      BY <3>1, <3>2
  <2>3. OneCall'
    BY <1>0, <2>1 DEF Orderly, OneCall, Busy
  <2>4. NoOrphans'
    BY <1>0, <1>1, <1>2, <2>1 DEF Orderly, NoOrphans
  <2>5. QED
    BY <2>2, <2>3, <2>4 DEF Orderly
<1>3. ASSUME apart', intact, local PROVE Telling'
  <2>1. Telling
    BY <1>1, <1>3 DEF MessagesInv
  <2>2. \A t \in Sockets : Busy(t)' => InPlace(t)'
    BY <1>0, <1>1, <1>3, <2>1 DEF Telling, Busy, InPlace, Audience
  <2>3. \A i \in Ids : Agrees(i)' \/ \E t \in Sockets : OwesEvent(t)' /\ handler'[t].id = i
    BY <1>0, <2>1 DEF Telling, Agrees, OwesEvent
  <2>4. QED
    BY <2>2, <2>3 DEF Telling
<1>4. QED
    BY <1>0, <1>2, <1>3 DEF StepKept

LEMMA RequestKept ==
    ASSUME MessagesInv, NEW s \in Sockets, Requests(s)
    PROVE  MessagesInv'
<1>0. MessageRows
    BY DEF MessagesInv
<1>1. ASSUME NEW kind \in Kinds, NEW code \in {"keep", "given"}, NEW files \in SUBSET Files,
             NEW mention \in BOOLEAN, SaveNew(s, kind, code, files, mention)
      PROVE  MessagesInv'
    BY <1>0, <1>1, SaveNewTypes, NewKept DEF StepKept, MessagesInv
<1>2. ASSUME NEW i, NEW code \in {"keep", "null", "given"}, NEW replace \in BOOLEAN,
             NEW files \in SUBSET Files, Edit(s, i, code, replace, files)
      PROVE  MessagesInv'
  <2>1. MessageRows'
    BY <1>0, <1>2, EditCallTypes
  <2>2. PICK h \in Handler :
            /\ FoundBy(s, i, h) /\ h.op = "edit" /\ h.code = code
            /\ IF ClearsFirst(i, code) THEN h.pc = "clear" ELSE h.pc \in {"existing", "save"}
    BY <1>0, <1>2, EditCallTypes
  <2>3. StepKept
    BY <2>1, <2>2, FoundKept
  <2>4. QED
    BY <2>1, <2>3 DEF StepKept, MessagesInv
<1>3. ASSUME NEW i, DeleteRequest(s, i) PROVE MessagesInv'
  <2>1. MessageRows'
    BY <1>0, <1>3, DeleteTypes
  <2>2. PICK h \in Handler : FoundBy(s, i, h) /\ h.op = "delete" /\ h.pc = "detach"
    BY <1>0, <1>3, DeleteTypes
  <2>3. StepKept
    BY <2>1, <2>2, FoundKept
  <2>4. QED
    BY <2>1, <2>3 DEF StepKept, MessagesInv
<1>4. CASE SendMessage(s) \/ SendThreadMessage(s) \/ SendDirectMessage(s)
    BY <1>1, <1>4 DEF SendMessage, SendThreadMessage, SendDirectMessage, Kinds
<1>5. ASSUME NEW i, EditRequest(s, i) PROVE MessagesInv'
  <2>1. \E code \in {"keep", "null", "given"}, files \in SUBSET Files :
            Edit(s, i, code, TRUE, files) \/ Edit(s, i, code, FALSE, {})
    BY <1>5 DEF EditRequest
  <2>2. {} \in SUBSET Files
    OBVIOUS
  <2>3. QED
    BY <1>2, <2>1, <2>2
<1>6. CASE EditMessage(s) \/ EditThreadMessage(s) \/ EditDirectMessage(s)
    BY <1>5, <1>6 DEF EditMessage, EditThreadMessage, EditDirectMessage
<1>7. CASE DeleteMessage(s) \/ DeleteThreadMessage(s) \/ DeleteDirectMessage(s)
    BY <1>3, <1>7 DEF DeleteMessage, DeleteThreadMessage, DeleteDirectMessage
<1>8. QED
    BY <1>4, <1>6, <1>7 DEF Requests

LEMMA StatementKept ==
    ASSUME MessagesInv, NEW s \in Sockets,
           \/ Reload(s) \/ Attach(s) \/ TellOf(s) \/ Ask(s) \/ InsertAnswer(s)
           \/ ClearCodeBlockCache(s) \/ DropBlock(s) \/ FindExisting(s) \/ SaveEdited(s)
           \/ Detach(s) \/ DeleteRow(s) \/ DieHandling(s)
           \/ \E r \in Rooms : JoinRoom(s, r)
    PROVE  MessagesInv'
<1>0. MessageRows
    BY DEF MessagesInv
<1>1. MessageRows'
    BY <1>0, ReloadTypes, AttachTypes, TellTypes, AskTypes, InsertTypes, ClearTypes, DropTypes,
       ExistingTypes, SaveTypes, DetachTypes, DeleteRowTypes, DieTypes, AroundTypes
<1>2. StepKept
    BY ReloadKept, AttachKept, TellKept, AskKept, InsertKept, ClearKept, DropKept, ExistingKept,
       SaveKept, DetachKept, DeleteRowKept, DieKept, AroundKept
<1>3. QED
    BY <1>1, <1>2 DEF StepKept, MessagesInv

\* A result may be cached whether or not the author has a socket.
LEMMA CachedKept ==
    ASSUME MessagesInv, NEW b \in BlockIds, CacheResult(b)
    PROVE  MessagesInv'
<1>1. CASE Sockets = {}
  <2>1. UNCHANGED <<messages, blocks, attached, room, handler, messagesMade, blocksMade, told, intact, local>>
        /\ cached' = cached \cup {b} /\ b \in blocks /\ apart' = (apart /\ AllIdle)
    BY DEF CacheResult
  <2>2. MessageRows'
    BY <1>1, <2>1 DEF MessagesInv, MessageRows, MessagesTypeOK
  <2>3. apart' => Orderly'
    BY <1>1, <2>1 DEF MessagesInv, Orderly, OneCall, NoOrphans
  <2>4. apart' /\ intact' /\ local' => Telling'
    BY <1>1, <2>1 DEF MessagesInv, Telling, Agrees
  <2>5. QED
    BY <2>2, <2>3, <2>4 DEF MessagesInv
<1>2. CASE Sockets # {}
    BY <1>2, AroundTypes, AroundKept DEF StepKept, MessagesInv
<1>3. QED
    BY <1>1, <1>2

(***************************************************************************)
(* What the two theorems rest on: while calls do not overlap, what the one *)
(* in flight has loaded is the row, whose block, cached result and files   *)
(* go before it; and what was told of a message is what its row says,      *)
(* unless the call in flight is about to tell.                             *)
(***************************************************************************)
THEOREM MessagesInductive == MessagesSpec => []MessagesInv
<1>1. MessagesInit => MessagesInv
  <2> SUFFICES ASSUME MessagesInit PROVE MessagesInv
    OBVIOUS
  <2>1. \A s \in Sockets : handler[s] = NoHandler
    BY DEF MessagesInit
  <2>2. /\ NoHandler.op = "send" /\ NoHandler.pc = "idle" /\ NoHandler.mention = FALSE
        /\ NoHandler.id = 0
    BY DEF NoHandler, Null
  <2>3. \A s \in Sockets : CallOK(s) /\ Knows(s) /\ ~Busy(s)
    BY <2>1, <2>2 DEF CallOK, Knows, Busy, MessagesInit, Null
  <2>4. MessageRows
    BY <2>3, MessageFillers, MessagesBounds
    DEF MessagesInit, MessageRows, MessagesTypeOK, Attachments, Kinds
  <2>5. Orderly
    BY <2>3 DEF MessagesInit, Orderly, OneCall, NoOrphans
  <2>6. Telling
    BY <2>3 DEF MessagesInit, Telling, Agrees
  <2>7. QED
    BY <2>4, <2>5, <2>6 DEF MessagesInv
<1>2. MessagesInv /\ [MessagesNext]_messagesVars => MessagesInv'
  <2> SUFFICES ASSUME MessagesInv, [MessagesNext]_messagesVars PROVE MessagesInv'
    OBVIOUS
  <2>1. CASE UNCHANGED messagesVars
    <3>1. MessageRows'
      BY <2>1 DEF messagesVars, MessagesInv, MessageRows, MessagesTypeOK, CallOK
    <3>2. apart' => Orderly'
      BY <2>1 DEF messagesVars, MessagesInv, Orderly, OneCall, Busy, Knows, NoOrphans
    <3>3. apart' /\ intact' /\ local' => Telling'
      BY <2>1 DEF messagesVars, MessagesInv, Telling, Busy, InPlace, Audience, Agrees, OwesEvent
    <3>4. QED
      BY <3>1, <3>2, <3>3 DEF MessagesInv
  <2>2. QED
    BY <2>1, RequestKept, StatementKept, CachedKept DEF MessagesNext
<1>3. QED
    BY <1>1, <1>2, PTL DEF MessagesSpec

\* Rows, blocks, cached results, attachments, calls and events keep their types
\* (MessageService, AttachmentService).
THEOREM MessagesTypes == MessagesSpec => []MessagesTypeOK
<1>1. MessagesInv => MessagesTypeOK
    BY DEF MessagesInv, MessageRows
<1>2. QED
    BY <1>1, MessagesInductive, PTL

\* Calls that do not overlap leave no block, cached result or attachment that
\* belongs to no message, at whatever statement one of them dies (deleteMessage,
\* editMessage, AttachmentService).
THEOREM NothingIsLeft == MessagesSpec => []NothingLeftBehind
<1>1. MessagesInv => NothingLeftBehind
    BY DEF MessagesInv, Orderly, NoOrphans, NothingLeftBehind
<1>2. QED
    BY <1>1, MessagesInductive, PTL

\* Once calls that did not overlap are done, what a room was last told of each
\* message is what it would fetch and find (the events of sendMessage, editMessage
\* and deleteMessage).
THEOREM ToldAsFetched == MessagesSpec => []ToldIsFetched
<1>1. MessagesInv => ToldIsFetched
  <2> SUFFICES ASSUME MessagesInv, apart, intact, local, AllIdle, NEW i \in Ids
               PROVE  IF told[i].version = 0 THEN i \notin DOMAIN messages
                      ELSE /\ i \in CASE told[i].kind = "channel" -> FetchMessages(told[i].place)
                                      [] told[i].kind = "thread" -> FetchThreadMessages(told[i].place)
                                      [] told[i].kind = "direct" -> FetchDirectMessages
                           /\ i \in IF told[i].kind = "direct" THEN SearchDirectMessages
                                    ELSE SearchMessages(told[i].place)
                           /\ told[i].version = messages[i].version
    BY DEF ToldIsFetched
  <2>1. Agrees(i)
    BY DEF MessagesInv, Telling, AllIdle, OwesEvent, NoHandler
  <2>2. CASE i \notin DOMAIN messages
    BY <2>1, <2>2 DEF Agrees
  <2>3. CASE i \in DOMAIN messages
    <3>1. messages[i].kind \in Kinds /\ messages[i].version \in 1 .. MaxEdits
      BY <2>3 DEF MessagesInv, MessageRows, MessagesTypeOK, Message
    <3>2. /\ told[i].kind = messages[i].kind /\ told[i].place = messages[i].place
          /\ told[i].version = messages[i].version
      BY <2>1, <2>3 DEF Agrees
    <3>3. told[i].version # 0
      BY <3>1, <3>2, MessagesBounds
    <3>4. QED
      BY <2>3, <3>1, <3>2, <3>3
      DEF Kinds, FetchMessages, FetchThreadMessages, FetchDirectMessages, Fetched, SearchMessages,
          SearchDirectMessages
  <2>4. QED
    BY <2>2, <2>3
<1>2. QED
    BY <1>1, MessagesInductive, PTL
-----------------------------------------------------------------------------
(* Presence *)

Watched(v) == v.socket \in switched \/ (v.socket \in open /\ user[v.socket] = v.user)

ViewsAreWatched == \A v \in views : Watched(v)
ReadyIsSafe == ready \subseteq open /\ ready \cap deadline = {}
PresenceInv == PresenceTypeOK /\ ViewsAreWatched /\ ReadyIsSafe

-----------------------------------------------------------------------------
(* Views *)

LEMMA AcceptedUser ==
    ASSUME PresenceTypeOK, NEW s \in Clients, Ready(s)
    PROVE  user[s] \in Accounts
BY DEF PresenceTypeOK, Ready

LEMMA ContextIsView ==
    ASSUME PresenceTypeOK, NEW s \in Clients, Ready(s), NEW k \in ViewKinds, NEW r \in Views
    PROVE  Context(k, s, r) \in View
<1>1. user[s] \in Accounts BY AcceptedUser
<1>2. 0 \in 0 .. PresenceTtl + 1 BY PresenceAssumption
<1> QED BY <1>1, <1>2 DEF Context, View

LEMMA OlderIsView ==
    ASSUME NEW v \in View
    PROVE  /\ [v EXCEPT !.age = IF @ > PresenceTtl THEN @ ELSE @ + 1] \in View
           /\ [v EXCEPT !.age = IF @ > PresenceTtl THEN @ ELSE @ + 1].socket = v.socket
           /\ [v EXCEPT !.age = IF @ > PresenceTtl THEN @ ELSE @ + 1].user = v.user
<1> DEFINE age == IF v.age > PresenceTtl THEN v.age ELSE v.age + 1
<1>1. v.age \in 0 .. PresenceTtl + 1 BY DEF View
<1>2. age \in 0 .. PresenceTtl + 1 BY <1>1, PresenceAssumption
<1>3. [v EXCEPT !.age = age] \in View BY <1>2 DEF View
<1>4. [v EXCEPT !.age = age].socket = v.socket /\ [v EXCEPT !.age = age].user = v.user BY DEF View
<1> QED BY <1>3, <1>4

\* A socket that closes leaves only views it had as another user.
LEMMA CloseKeepsWatched ==
    ASSUME PresenceInv, NEW s \in Clients, Close(s), switched' = switched, user' = user
    PROVE  ViewsAreWatched'
<1> SUFFICES ASSUME NEW v \in views' PROVE Watched(v)'
    BY DEF ViewsAreWatched
<1>1. v \in views /\ ~(v.socket = s /\ v.user = user[s]) BY DEF Close
<1>2. Watched(v) BY <1>1 DEF PresenceInv, ViewsAreWatched
<1> QED BY <1>1, <1>2 DEF Watched, Close

-----------------------------------------------------------------------------
(* The invariant *)

THEOREM PresenceInitially == PresenceInit => PresenceInv
<1> SUFFICES ASSUME PresenceInit PROVE PresenceInv
    OBVIOUS
<1>1. PresenceTypeOK BY DEF PresenceInit, PresenceTypeOK
<1>2. ViewsAreWatched /\ ReadyIsSafe BY DEF PresenceInit, ViewsAreWatched, ReadyIsSafe
<1> QED BY <1>1, <1>2 DEF PresenceInv

\* Types, action by action.
LEMMA PresenceKeepsTypes == PresenceInv /\ [PresenceNext]_presenceVars => PresenceTypeOK'
<1> SUFFICES ASSUME PresenceInv, [PresenceNext]_presenceVars PROVE PresenceTypeOK'
    OBVIOUS
<1> USE DEF PresenceTypeOK
<1>t. PresenceTypeOK BY DEF PresenceInv
<1>1. ASSUME NEW s \in Clients, HandleConnection(s) PROVE PresenceTypeOK'
    BY <1>t, <1>1 DEF HandleConnection
<1>2. ASSUME NEW s \in Clients, HandleAuthenticate(s) PROVE PresenceTypeOK'
    BY <1>t, <1>2 DEF HandleAuthenticate
<1>3. ASSUME NEW s \in Clients, Authenticated(s) PROVE PresenceTypeOK'
    BY <1>t, <1>3 DEF Authenticated
<1>4. ASSUME NEW s \in Clients, AuthenticateFailed(s) PROVE PresenceTypeOK'
    BY <1>t, <1>4 DEF AuthenticateFailed, Close
<1>5. ASSUME NEW s \in Clients, DeadlinePasses(s) PROVE PresenceTypeOK'
    BY <1>t, <1>5 DEF DeadlinePasses, Close
<1>6. ASSUME NEW s \in Clients, HandleDisconnect(s) PROVE PresenceTypeOK'
    BY <1>t, <1>6 DEF HandleDisconnect, Close
<1>7. ASSUME NEW s \in Clients, TokenExpires(s) PROVE PresenceTypeOK'
    BY <1>t, <1>7 DEF TokenExpires
<1>8. ASSUME NEW s \in Clients, Rejected(s) PROVE PresenceTypeOK'
    BY <1>t, <1>8 DEF Rejected
<1>9. ASSUME NEW s \in Clients, UpdateChatView(s) PROVE PresenceTypeOK'
    <2>1. PICK kinds \in SUBSET ViewKinds, r \in Views : SetView(s, kinds, r)
        BY <1>9 DEF UpdateChatView, ViewKinds
    <2>2. Ready(s) BY <2>1 DEF SetView, Guarded
    <2>3. \A k \in kinds : Context(k, s, r) \in View BY <1>t, <2>2, ContextIsView
    <2>4. views' \subseteq View BY <1>t, <2>1, <2>3 DEF SetView
    <2> QED BY <1>t, <2>1, <2>4 DEF SetView
<1>10. ASSUME NEW s \in Clients, NEW kind \in ViewKinds, ClearView(s, kind) PROVE PresenceTypeOK'
    BY <1>t, <1>10 DEF ClearView
<1>11. CASE ViewsAge
    <2>1. views' \subseteq View BY <1>t, <1>11, OlderIsView DEF ViewsAge
    <2> QED BY <1>t, <1>11, <2>1 DEF ViewsAge
<1>12. ASSUME NEW u \in Accounts, Purge(u) PROVE PresenceTypeOK'
    BY <1>t, <1>12 DEF Purge
<1>13. CASE UNCHANGED presenceVars
    BY <1>t, <1>13 DEF presenceVars
<1> QED BY <1>1, <1>2, <1>3, <1>4, <1>5, <1>6, <1>7, <1>8, <1>9, <1>10, <1>11, <1>12, <1>13
        DEF PresenceNext

\* Views, action by action.
LEMMA NextKeepsWatched == PresenceInv /\ [PresenceNext]_presenceVars => ViewsAreWatched'
<1> SUFFICES ASSUME PresenceInv, [PresenceNext]_presenceVars PROVE ViewsAreWatched'
    OBVIOUS
<1>t. PresenceTypeOK /\ ViewsAreWatched BY DEF PresenceInv
<1>1. ASSUME NEW s \in Clients, HandleConnection(s) PROVE ViewsAreWatched'
    BY <1>t, <1>1 DEF HandleConnection, ViewsAreWatched, Watched
<1>2. ASSUME NEW s \in Clients, HandleAuthenticate(s) PROVE ViewsAreWatched'
    BY <1>t, <1>2 DEF HandleAuthenticate, ViewsAreWatched, Watched
<1>3. ASSUME NEW s \in Clients, Authenticated(s) PROVE ViewsAreWatched'
    <2> SUFFICES ASSUME NEW v \in views PROVE Watched(v)'
        BY <1>3 DEF Authenticated, ViewsAreWatched
    <2>1. Watched(v) BY <1>t DEF ViewsAreWatched
    <2>2. CASE v.socket # s
        BY <1>t, <1>3, <2>1, <2>2 DEF Authenticated, Watched, PresenceTypeOK, View
    <2>3. CASE v.socket = s /\ s \in switched
        BY <1>3, <2>3 DEF Authenticated, Watched
    <2>4. CASE v.socket = s /\ s \notin switched
        <3>1. s \in open /\ user[s] = v.user BY <2>1, <2>4 DEF Watched
        <3>2. user[s] # Nobody BY <1>t, <3>1, AccountsAssumption DEF PresenceTypeOK, View
        <3>3. user'[s] = checking[s] /\ open' = open BY <1>t, <1>3 DEF Authenticated, PresenceTypeOK
        <3>4. checking[s] # v.user => s \in switched' BY <1>3, <3>1, <3>2 DEF Authenticated
        <3> QED BY <2>4, <3>1, <3>3, <3>4 DEF Watched
    <2> QED BY <2>2, <2>3, <2>4
<1>4. ASSUME NEW s \in Clients, AuthenticateFailed(s) PROVE ViewsAreWatched'
    BY <1>4, CloseKeepsWatched DEF AuthenticateFailed
<1>5. ASSUME NEW s \in Clients, DeadlinePasses(s) PROVE ViewsAreWatched'
    BY <1>5, CloseKeepsWatched DEF DeadlinePasses
<1>6. ASSUME NEW s \in Clients, HandleDisconnect(s) PROVE ViewsAreWatched'
    BY <1>6, CloseKeepsWatched DEF HandleDisconnect
<1>7. ASSUME NEW s \in Clients, TokenExpires(s) PROVE ViewsAreWatched'
    BY <1>t, <1>7 DEF TokenExpires, ViewsAreWatched, Watched
<1>8. ASSUME NEW s \in Clients, Rejected(s) PROVE ViewsAreWatched'
    BY <1>t, <1>8 DEF Rejected, ViewsAreWatched, Watched
<1>9. ASSUME NEW s \in Clients, UpdateChatView(s) PROVE ViewsAreWatched'
    <2>1. PICK kinds \in SUBSET ViewKinds, r \in Views : SetView(s, kinds, r)
        BY <1>9 DEF UpdateChatView, ViewKinds
    <2>2. s \in open BY <2>1 DEF SetView, Guarded, Ready
    <2>3. \A k \in kinds : Context(k, s, r).socket = s /\ Context(k, s, r).user = user[s]
        BY DEF Context
    <2>4. \A v \in views' : v \in views \/ (v.socket = s /\ v.user = user[s])
        BY <2>1, <2>3 DEF SetView
    <2> QED BY <1>t, <2>1, <2>2, <2>4 DEF SetView, ViewsAreWatched, Watched
<1>10. ASSUME NEW s \in Clients, NEW kind \in ViewKinds, ClearView(s, kind) PROVE ViewsAreWatched'
    BY <1>t, <1>10 DEF ClearView, ViewsAreWatched, Watched
<1>11. CASE ViewsAge
    <2> SUFFICES ASSUME NEW w \in views' PROVE Watched(w)'
        BY DEF ViewsAreWatched
    <2>1. PICK v \in views : w = [v EXCEPT !.age = IF @ > PresenceTtl THEN @ ELSE @ + 1]
        BY <1>11 DEF ViewsAge
    <2>2. w.socket = v.socket /\ w.user = v.user BY <1>t, <2>1, OlderIsView DEF PresenceTypeOK
    <2>3. Watched(v) BY <1>t DEF ViewsAreWatched
    <2> QED BY <1>11, <2>2, <2>3 DEF ViewsAge, Watched
<1>12. ASSUME NEW u \in Accounts, Purge(u) PROVE ViewsAreWatched'
    BY <1>t, <1>12 DEF Purge, ViewsAreWatched, Watched
<1>13. CASE UNCHANGED presenceVars
    BY <1>t, <1>13 DEF presenceVars, ViewsAreWatched, Watched
<1> QED BY <1>1, <1>2, <1>3, <1>4, <1>5, <1>6, <1>7, <1>8, <1>9, <1>10, <1>11, <1>12, <1>13
        DEF PresenceNext

\* Sockets that are ready: only four actions touch open, deadline or ready.
LEMMA NextKeepsReady == PresenceInv /\ [PresenceNext]_presenceVars => ReadyIsSafe'
<1> SUFFICES ASSUME PresenceInv, [PresenceNext]_presenceVars PROVE ReadyIsSafe'
    OBVIOUS
<1>t. ReadyIsSafe BY DEF PresenceInv
<1>1. ASSUME NEW s \in Clients, HandleConnection(s) PROVE ReadyIsSafe'
    BY <1>t, <1>1 DEF HandleConnection, ReadyIsSafe
<1>2. ASSUME NEW s \in Clients, Authenticated(s) PROVE ReadyIsSafe'
    BY <1>t, <1>2 DEF Authenticated, ReadyIsSafe
<1>3. ASSUME NEW s \in Clients, AuthenticateFailed(s) \/ HandleDisconnect(s) PROVE ReadyIsSafe'
    BY <1>t, <1>3 DEF AuthenticateFailed, HandleDisconnect, Close, ReadyIsSafe
<1>4. ASSUME NEW s \in Clients, DeadlinePasses(s) PROVE ReadyIsSafe'
    BY <1>t, <1>4 DEF DeadlinePasses, Close, ReadyIsSafe
<1>5. CASE UNCHANGED <<open, deadline, ready>>
    BY <1>t, <1>5 DEF ReadyIsSafe
<1> QED BY <1>1, <1>2, <1>3, <1>4, <1>5
        DEF PresenceNext, presenceVars, HandleAuthenticate, TokenExpires, Rejected, UpdateChatView,
            SetView, ClearView, ViewsAge, Purge

THEOREM PresenceInductive == PresenceInv /\ [PresenceNext]_presenceVars => PresenceInv'
BY PresenceKeepsTypes, NextKeepsWatched, NextKeepsReady DEF PresenceInv

-----------------------------------------------------------------------------
LEMMA WatchedMissNobody == PresenceInv => NobodyMissed
<1> SUFFICES ASSUME PresenceInv PROVE NobodyMissed
    OBVIOUS
<1>t. PresenceTypeOK /\ ViewsAreWatched /\ ready \subseteq open BY DEF PresenceInv, ReadyIsSafe
<1> SUFFICES ASSUME NEW sender \in Accounts, NEW about \in Views, NEW inThread \in BOOLEAN,
                    NEW u \in Accounts \ (Recipients(sender, about, inThread) \cup {sender})
             PROVE  \E v \in views :
                        /\ v.user = u /\ v.about = about /\ v.age <= PresenceTtl
                        /\ v.socket \in switched \/ (Ready(v.socket) /\ user[v.socket] = u)
    BY <1>t DEF NobodyMissed
<1>1. HasActiveContext("group", u, about) \/ HasActiveContext("thread", u, about)
    BY DEF Recipients
<1>2. PICK v \in views : v.user = u /\ v.about = about /\ v.age <= PresenceTtl
    BY <1>1 DEF HasActiveContext
<1>3. Watched(v) BY <1>t DEF ViewsAreWatched
<1>4. u # Nobody BY AccountsAssumption
<1> QED BY <1>2, <1>3, <1>4 DEF Watched, Ready

(***************************************************************************)
(* Sockets, timers, rooms and views keep their types, whatever closes,     *)
(* expires or authenticates when (SocketService, ChatPresenceService).     *)
(***************************************************************************)
THEOREM PresenceTypes == PresenceSpec => []PresenceTypeOK
<1>1. PresenceInv => PresenceTypeOK BY DEF PresenceInv
<1> QED BY <1>1, PresenceInitially, PresenceInductive, PTL DEF PresenceSpec

(***************************************************************************)
(* For any number of sockets and members: whoever is left out of a digest  *)
(* has a socket that looks at the channel, or had one that changed users   *)
(* within the TTL; and a socket that was told it is ready is open          *)
(* (authenticateSocket, clearPresenceForSocket, handleConnection).         *)
(***************************************************************************)
THEOREM NobodyIsMissed == PresenceSpec => []NobodyMissed
BY PresenceInitially, PresenceInductive, WatchedMissNobody, PTL DEF PresenceSpec

-----------------------------------------------------------------------------
(* Notification *)

InSave(c) == digestCalls[c].pc = "save"

CountsBehind ==
    /\ \A i \in DOMAIN notices : notices[i].count <= counted[i] /\ i <= noticesMade
    /\ \A c \in Deliveries :
        IF digestCalls[c].id = NoNotice THEN digestCalls[c].count = 0
        ELSE digestCalls[c].id <= noticesMade /\ digestCalls[c].count <= counted[digestCalls[c].id]
    /\ \A i \in NoticeIds : pushed[i] <= counted[i] /\ (i > noticesMade => counted[i] = 0)

OneDigest ==
    /\ \A i \in DOMAIN notices : notices[i].count = counted[i]
    /\ \A i, j \in Unread : i = j
    /\ flushes \subseteq Unread
    /\ \A t \in {debounceTimer, maxTimer} : t # Unarmed => t.id \in Unread
    /\ \A c, d \in Deliveries : InSave(c) /\ InSave(d) => c = d
    /\ \A c \in Deliveries : InSave(c) =>
        IF digestCalls[c].id = NoNotice THEN Unread = {}
        ELSE digestCalls[c].id \in Unread /\ digestCalls[c].count = counted[digestCalls[c].id]

InTime ==
    /\ \A i \in Unread : Unannounced(i) =>
        i \in flushes \/ (maxTimer # Unarmed /\ waiting + maxTimer.left <= MaxDebounce)
    /\ (\A i \in Unread : ~Unannounced(i)) => waiting = 0

NoticeInv ==
    /\ NotificationTypeOK
    /\ CountsBehind
    /\ orderly => OneDigest /\ InTime

-----------------------------------------------------------------------------
(* Types *)

\* Saved counts the messages of every row, so it is no less than those of one.
LEMMA SavedBound ==
    ASSUME NotificationTypeOK, NEW i \in NoticeIds
    PROVE  Saved \in Nat /\ counted[i] <= Saved
<1> DEFINE S == {m \in NoticeIds \X (1 .. MaxDigest) : m[2] <= counted[m[1]]}
           n == counted[i]
           f == [k \in 1 .. n |-> <<i, k>>]
<1>1. IsFiniteSet(NoticeIds) /\ IsFiniteSet(1 .. MaxDigest)
    BY FS_Interval, NotificationBounds DEF NoticeIds
<1>2. IsFiniteSet(NoticeIds \X (1 .. MaxDigest)) BY <1>1, FS_Product
<1>3. IsFiniteSet(S) BY <1>2, FS_Subset
<1>4. n \in 0 .. MaxDigest BY DEF NotificationTypeOK
<1>5. f \in Injection(1 .. n, S)
    <2>1. \A k \in 1 .. n : <<i, k>> \in S BY <1>4, NotificationBounds
    <2>2. f \in [1 .. n -> S] BY <2>1
    <2>3. \A j, k \in 1 .. n : f[j] = f[k] => j = k OBVIOUS
    <2> QED BY <2>2, <2>3 DEF Injection, IsInjective
<1>6. Cardinality(1 .. n) <= Cardinality(S) BY <1>3, <1>5, FS_Injection
<1>7. Cardinality(1 .. n) = n BY <1>4, FS_Interval, NotificationBounds
<1>8. Cardinality(S) \in Nat BY <1>3, FS_CardinalityType
<1> QED BY <1>6, <1>7, <1>8 DEF Saved

LEMMA UnarmedIsTimer == Unarmed \in Timer
<1>1. 0 \in 0 .. MaxDebounce BY TimersAssumption
<1> QED BY <1>1 DEF Unarmed, Timer

LEMMA TimerRunning ==
    ASSUME NEW t \in Timer, t # Unarmed, t.left = 0
    PROVE  t.id \in NoticeIds
BY DEF Timer, Unarmed

LEMMA NoDigestIsCall == NoDigest \in DigestCall
<1>1. 0 \in 0 .. MaxDigest BY NotificationBounds
<1> QED BY <1>1 DEF NoDigest, DigestCall

\* The row a call saves, and the messages that have been saved into it.
LEMMA SavedRow ==
    ASSUME NoticeInv, NEW c \in Deliveries, SaveNotice(c)
    PROVE  \E i \in NoticeIds :
               /\ i = IF digestCalls[c].id = NoNotice THEN noticesMade + 1 ELSE digestCalls[c].id
               /\ digestCalls[c].count <= counted[i]
               /\ digestCalls[c].count + 1 \in 1 .. MaxDigest
               /\ counted[i] + 1 \in 1 .. MaxDigest
               /\ noticesMade' = IF digestCalls[c].id = NoNotice THEN i ELSE noticesMade
               /\ notices' = [j \in DOMAIN notices \cup {i} |->
                     IF j = i THEN [count |-> digestCalls[c].count + 1, isRead |-> FALSE]
                              ELSE notices[j]]
               /\ counted' = [counted EXCEPT ![i] = @ + 1]
               /\ ScheduleNotificationPush(i)
<1> DEFINE i == IF digestCalls[c].id = NoNotice THEN noticesMade + 1 ELSE digestCalls[c].id
<1>t. NotificationTypeOK /\ CountsBehind BY DEF NoticeInv
<1>1. digestCalls[c] \in DigestCall BY <1>t DEF NotificationTypeOK
<1>2. noticesMade \in 0 .. MaxNotices BY <1>t DEF NotificationTypeOK
<1>3. i <= MaxNotices /\ Saved < MaxDigest BY DEF SaveNotice
<1>4. i \in NoticeIds BY <1>1, <1>2, <1>3, NotificationBounds DEF DigestCall, NoticeIds, NoNotice
<1>5. counted[i] \in 0 .. MaxDigest BY <1>t, <1>4 DEF NotificationTypeOK
<1>6. Saved \in Nat /\ counted[i] <= Saved BY <1>t, <1>4, SavedBound
<1>7. counted[i] + 1 \in 1 .. MaxDigest BY <1>3, <1>5, <1>6, NotificationBounds
<1>8. digestCalls[c].count \in 0 .. MaxDigest BY <1>1 DEF DigestCall
<1>9. digestCalls[c].count <= counted[i]
    <2>1. CASE digestCalls[c].id = NoNotice BY <1>t, <1>5, <2>1 DEF CountsBehind
    <2>2. CASE digestCalls[c].id # NoNotice BY <1>t, <2>2 DEF CountsBehind
    <2> QED BY <2>1, <2>2
<1>10. digestCalls[c].count + 1 \in 1 .. MaxDigest BY <1>5, <1>7, <1>8, <1>9, NotificationBounds
<1>11. /\ noticesMade' = IF digestCalls[c].id = NoNotice THEN i ELSE noticesMade
       /\ notices' = [j \in DOMAIN notices \cup {i} |->
             IF j = i THEN [count |-> digestCalls[c].count + 1, isRead |-> FALSE]
                      ELSE notices[j]]
       /\ counted' = [counted EXCEPT ![i] = @ + 1]
       /\ ScheduleNotificationPush(i)
    BY DEF SaveNotice
<1> QED BY <1>4, <1>7, <1>9, <1>10, <1>11

LEMMA ScheduleKeepsTimers ==
    ASSUME NotificationTypeOK, NEW i \in NoticeIds, ScheduleNotificationPush(i)
    PROVE  debounceTimer' \in Timer /\ maxTimer' \in Timer
<1>1. Debounce \in 0 .. MaxDebounce /\ MaxDebounce \in 0 .. MaxDebounce BY TimersAssumption
<1> QED BY <1>1 DEF NotificationTypeOK, ScheduleNotificationPush, Timer

LEMMA NoticeKeepsTypes == NoticeInv /\ [NotificationNext]_notificationVars => NotificationTypeOK'
<1> SUFFICES ASSUME NoticeInv, [NotificationNext]_notificationVars PROVE NotificationTypeOK'
    OBVIOUS
<1>t. NotificationTypeOK BY DEF NoticeInv
<1>n. noticesMade \in 0 .. MaxNotices BY <1>t DEF NotificationTypeOK
<1>1. ASSUME NEW c \in Deliveries, FindUnread(c) PROVE NotificationTypeOK'
    <2>1. digestCalls' \in [Deliveries -> DigestCall]
        <3>1. CASE Unread = {} /\ digestCalls' = [digestCalls EXCEPT ![c].pc = "save"]
            <4>1. digestCalls[c] \in DigestCall BY <1>t DEF NotificationTypeOK
            <4>2. [digestCalls[c] EXCEPT !.pc = "save"] \in DigestCall BY <4>1 DEF DigestCall
            <4> QED BY <1>t, <3>1, <4>2 DEF NotificationTypeOK
        <3>2. CASE \E i \in Unread : digestCalls' =
                    [digestCalls EXCEPT ![c] = [pc |-> "save", id |-> i, count |-> notices[i].count]]
            <4>1. PICK i \in Unread : digestCalls' =
                    [digestCalls EXCEPT ![c] = [pc |-> "save", id |-> i, count |-> notices[i].count]]
                BY <3>2
            <4>2. i \in NoticeIds /\ notices[i].count \in 0 .. MaxDigest
                BY <1>t DEF NotificationTypeOK, Unread, Notice
            <4>3. [pc |-> "save", id |-> i, count |-> notices[i].count] \in DigestCall
                BY <4>2 DEF DigestCall
            <4> QED BY <1>t, <4>1, <4>3 DEF NotificationTypeOK
        <3> QED BY <1>1, <3>1, <3>2 DEF FindUnread
    <2> QED BY <1>t, <1>1, <2>1 DEF FindUnread, NotificationTypeOK
<1>2. ASSUME NEW c \in Deliveries, SaveNotice(c) PROVE NotificationTypeOK'
    <2>1. PICK i \in NoticeIds :
               /\ i = IF digestCalls[c].id = NoNotice THEN noticesMade + 1 ELSE digestCalls[c].id
               /\ digestCalls[c].count + 1 \in 1 .. MaxDigest
               /\ counted[i] + 1 \in 1 .. MaxDigest
               /\ noticesMade' = IF digestCalls[c].id = NoNotice THEN i ELSE noticesMade
               /\ notices' = [j \in DOMAIN notices \cup {i} |->
                     IF j = i THEN [count |-> digestCalls[c].count + 1, isRead |-> FALSE]
                              ELSE notices[j]]
               /\ counted' = [counted EXCEPT ![i] = @ + 1]
               /\ ScheduleNotificationPush(i)
        BY <1>2, SavedRow
    <2>2. debounceTimer' \in Timer /\ maxTimer' \in Timer BY <1>t, <2>1, ScheduleKeepsTimers
    <2>3. [count |-> digestCalls[c].count + 1, isRead |-> FALSE] \in Notice
        BY <2>1, NotificationBounds DEF Notice
    <2>4. DOMAIN notices' \subseteq NoticeIds /\ \A j \in DOMAIN notices' : notices'[j] \in Notice
        BY <1>t, <2>1, <2>3 DEF NotificationTypeOK
    <2>5. counted' \in [NoticeIds -> 0 .. MaxDigest]
        <3>1. counted[i] + 1 \in 0 .. MaxDigest BY <2>1, NotificationBounds
        <3> QED BY <1>t, <2>1, <3>1 DEF NotificationTypeOK
    <2>6. noticesMade' \in 0 .. MaxNotices
        BY <1>n, <2>1, NotificationBounds DEF NoticeIds
    <2>7. digestCalls' \in [Deliveries -> DigestCall]
        BY <1>t, <1>2, NoDigestIsCall DEF SaveNotice, NotificationTypeOK
    <2> QED BY <1>t, <1>2, <2>2, <2>4, <2>5, <2>6, <2>7 DEF SaveNotice, NotificationTypeOK
<1>3. ASSUME NEW t \in Timer, Flush(t) PROVE NotificationTypeOK'
    <2>1. t.id \in NoticeIds BY <1>3, TimerRunning DEF Flush
    <2> QED BY <1>t, <1>3, <2>1, UnarmedIsTimer DEF Flush, NotificationTypeOK
<1>4. ASSUME NEW i \in NoticeIds, Push(i) PROVE NotificationTypeOK'
    <2>1. i \in DOMAIN notices => notices[i].count \in 0 .. MaxDigest
        BY <1>t DEF NotificationTypeOK, Notice
    <2>2. pushed' \in [NoticeIds -> 0 .. MaxDigest]
        BY <1>t, <1>4, <2>1 DEF Push, NotificationTypeOK
    <2>3. waiting' \in Nat BY <1>t, <1>4 DEF Push, NotificationTypeOK
    <2> QED BY <1>t, <1>4, <2>2, <2>3 DEF Push, NotificationTypeOK
<1>5. ASSUME NEW ids \in SUBSET NoticeIds, MarkReadMany(ids) PROVE NotificationTypeOK'
    <2>1. \A i \in DOMAIN notices : [notices[i] EXCEPT !.isRead = TRUE] \in Notice
        BY <1>t DEF NotificationTypeOK, Notice
    <2>2. DOMAIN notices' \subseteq NoticeIds /\ \A j \in DOMAIN notices' : notices'[j] \in Notice
        BY <1>t, <1>5, <2>1 DEF MarkReadMany, NotificationTypeOK
    <2>3. orderly' \in BOOLEAN BY <1>t, <1>5 DEF MarkReadMany, NotificationTypeOK
    <2> QED BY <1>t, <1>5, <2>2, <2>3 DEF MarkReadMany, NotificationTypeOK
<1>6. ASSUME NEW ids \in SUBSET NoticeIds, DeleteMany(ids) PROVE NotificationTypeOK'
    BY <1>t, <1>6 DEF DeleteMany, NotificationTypeOK
<1>7. CASE Tick
    <2>1. \A t \in {debounceTimer, maxTimer} :
              t # Unarmed => [t EXCEPT !.left = @ - 1] \in Timer
        BY <1>t, <1>7, TimersAssumption DEF Tick, NotificationTypeOK, Timer
    <2>2. debounceTimer' \in Timer /\ maxTimer' \in Timer
        BY <1>7, <2>1, UnarmedIsTimer DEF Tick
    <2>3. waiting' \in Nat BY <1>t, <1>7 DEF Tick, NotificationTypeOK
    <2> QED BY <1>t, <1>7, <2>2, <2>3 DEF Tick, NotificationTypeOK
<1>8. CASE RestartDigests
    BY <1>t, <1>8, UnarmedIsTimer, NoDigestIsCall DEF RestartDigests, NotificationTypeOK
<1>9. CASE UNCHANGED notificationVars
    BY <1>t, <1>9 DEF notificationVars, NotificationTypeOK
<1>10. debounceTimer \in Timer /\ maxTimer \in Timer BY <1>t DEF NotificationTypeOK
<1> QED BY <1>1, <1>2, <1>3, <1>4, <1>5, <1>6, <1>7, <1>8, <1>9, <1>10 DEF NotificationNext

-----------------------------------------------------------------------------
(* Counts, at every interleaving *)

LEMMA NextKeepsCounts == NoticeInv /\ [NotificationNext]_notificationVars => CountsBehind'
<1> SUFFICES ASSUME NoticeInv, [NotificationNext]_notificationVars PROVE CountsBehind'
    OBVIOUS
<1>t. NotificationTypeOK /\ CountsBehind BY DEF NoticeInv
<1>n. noticesMade \in 0 .. MaxNotices /\ NotificationTypeOK BY <1>t DEF NotificationTypeOK
<1>1. ASSUME NEW c \in Deliveries, FindUnread(c) PROVE CountsBehind'
    <2>1. digestCalls[c] = NoDigest /\ \A d \in Deliveries : d # c => digestCalls'[d] = digestCalls[d]
        BY <1>n, <1>1 DEF FindUnread, NotificationTypeOK
    <2>2. IF digestCalls'[c].id = NoNotice THEN digestCalls'[c].count = 0
          ELSE /\ digestCalls'[c].id <= noticesMade
               /\ digestCalls'[c].count <= counted[digestCalls'[c].id]
        <3>1. CASE Unread = {} /\ digestCalls' = [digestCalls EXCEPT ![c].pc = "save"]
            <4>1. digestCalls'[c] = [NoDigest EXCEPT !.pc = "save"]
                BY <1>n, <2>1, <3>1 DEF NotificationTypeOK
            <4> QED BY <4>1 DEF NoDigest
        <3>2. CASE \E i \in Unread : digestCalls' =
                    [digestCalls EXCEPT ![c] = [pc |-> "save", id |-> i, count |-> notices[i].count]]
            <4>1. PICK i \in Unread : digestCalls' =
                    [digestCalls EXCEPT ![c] = [pc |-> "save", id |-> i, count |-> notices[i].count]]
                BY <3>2
            <4>2. digestCalls'[c].id = i /\ digestCalls'[c].count = notices[i].count
                BY <1>n, <4>1 DEF NotificationTypeOK
            <4>3. i \in DOMAIN notices /\ i \in NoticeIds BY <1>n DEF Unread, NotificationTypeOK
            <4> QED BY <1>t, <4>2, <4>3 DEF CountsBehind, NoticeIds, NoNotice
        <3> QED BY <1>1, <3>1, <3>2 DEF FindUnread
    <2> QED BY <1>t, <1>1, <2>1, <2>2 DEF FindUnread, CountsBehind
<1>2. ASSUME NEW c \in Deliveries, SaveNotice(c) PROVE CountsBehind'
    <2>1. PICK i \in NoticeIds :
               /\ i = IF digestCalls[c].id = NoNotice THEN noticesMade + 1 ELSE digestCalls[c].id
               /\ digestCalls[c].count <= counted[i]
               /\ digestCalls[c].count + 1 \in 1 .. MaxDigest
               /\ noticesMade' = IF digestCalls[c].id = NoNotice THEN i ELSE noticesMade
               /\ notices' = [j \in DOMAIN notices \cup {i} |->
                     IF j = i THEN [count |-> digestCalls[c].count + 1, isRead |-> FALSE]
                              ELSE notices[j]]
               /\ counted' = [counted EXCEPT ![i] = @ + 1]
        BY <1>2, SavedRow
    <2>2. /\ counted'[i] = counted[i] + 1
          /\ \A j \in NoticeIds : j # i => counted'[j] = counted[j]
          /\ \A j \in NoticeIds : counted[j] \in 0 .. MaxDigest
        BY <1>n, <2>1 DEF NotificationTypeOK
    <2>3. i <= noticesMade' /\ noticesMade <= noticesMade'
        <3>1. CASE digestCalls[c].id = NoNotice BY <1>n, <2>1, <3>1
        <3>2. CASE digestCalls[c].id # NoNotice
            BY <1>t, <1>n, <2>1, <3>2 DEF CountsBehind
        <3> QED BY <3>1, <3>2
    <2>m. noticesMade' \in Nat BY <1>n, <2>1 DEF NoticeIds
    <2>4. digestCalls[c].count \in 0 .. MaxDigest BY <1>n DEF NotificationTypeOK, DigestCall
    <2>5. ASSUME NEW j \in DOMAIN notices' PROVE notices'[j].count <= counted'[j] /\ j <= noticesMade'
        <3>1. CASE j = i BY <2>1, <2>2, <2>3, <2>4, <3>1
        <3>2. CASE j # i
            <4>1. j \in DOMAIN notices /\ j \in NoticeIds /\ notices'[j] = notices[j]
                BY <1>n, <2>1, <3>2 DEF NotificationTypeOK
            <4> QED BY <1>t, <1>n, <2>2, <2>3, <2>m, <3>2, <4>1 DEF CountsBehind, NoticeIds
        <3> QED BY <3>1, <3>2
    <2>6. ASSUME NEW d \in Deliveries
          PROVE  IF digestCalls'[d].id = NoNotice THEN digestCalls'[d].count = 0
                 ELSE /\ digestCalls'[d].id <= noticesMade'
                      /\ digestCalls'[d].count <= counted'[digestCalls'[d].id]
        <3>1. CASE d = c
            <4>1. digestCalls'[d] = NoDigest BY <1>n, <1>2, <3>1 DEF SaveNotice, NotificationTypeOK
            <4> QED BY <4>1 DEF NoDigest
        <3>2. CASE d # c
            <4>1. digestCalls'[d] = digestCalls[d] BY <1>n, <1>2, <3>2 DEF SaveNotice, NotificationTypeOK
            <4>2. digestCalls[d] \in DigestCall BY <1>n DEF NotificationTypeOK
            <4>3. digestCalls[d].count \in 0 .. MaxDigest
                  /\ digestCalls[d].id \in NoticeIds \cup {NoNotice} BY <4>2 DEF DigestCall
            <4>4. CASE digestCalls[d].id = NoNotice BY <1>t, <4>1, <4>4 DEF CountsBehind
            <4>5. CASE digestCalls[d].id # NoNotice
                <5>1. /\ digestCalls[d].id \in NoticeIds
                      /\ digestCalls[d].id <= noticesMade
                      /\ digestCalls[d].count <= counted[digestCalls[d].id]
                    BY <1>t, <4>3, <4>5 DEF CountsBehind
                <5>2. counted[digestCalls[d].id] <= counted'[digestCalls[d].id] BY <2>2, <5>1
                <5>3. counted'[digestCalls[d].id] \in Nat BY <2>2, <5>1
                <5>4. digestCalls[d].count <= counted'[digestCalls[d].id]
                    BY <2>2, <4>3, <5>1, <5>2, <5>3
                <5>5. digestCalls[d].id <= noticesMade'
                    BY <1>n, <2>3, <2>m, <5>1 DEF NoticeIds
                <5> QED BY <4>1, <4>5, <5>4, <5>5
            <4> QED BY <4>4, <4>5
        <3> QED BY <3>1, <3>2
    <2>7. ASSUME NEW j \in NoticeIds
          PROVE  pushed'[j] <= counted'[j] /\ (j > noticesMade' => counted'[j] = 0)
        <3>1. pushed'[j] = pushed[j] /\ pushed[j] \in 0 .. MaxDigest
            BY <1>n, <1>2 DEF SaveNotice, NotificationTypeOK
        <3>2. pushed[j] <= counted[j] /\ (j > noticesMade => counted[j] = 0) BY <1>t DEF CountsBehind
        <3>3. j > noticesMade' => j > noticesMade /\ j # i BY <1>n, <2>3, <2>m DEF NoticeIds
        <3> QED BY <2>2, <3>1, <3>2, <3>3
    <2> QED BY <2>5, <2>6, <2>7 DEF CountsBehind
<1>3. ASSUME NEW t, Flush(t) PROVE CountsBehind'
    BY <1>t, <1>3 DEF Flush, CountsBehind
<1>4. ASSUME NEW i \in NoticeIds, Push(i) PROVE CountsBehind'
    <2>1. \A j \in NoticeIds : pushed'[j] <= counted[j]
        BY <1>t, <1>n, <1>4 DEF Push, CountsBehind, NotificationTypeOK
    <2> QED BY <1>t, <1>4, <2>1 DEF Push, CountsBehind
<1>5. ASSUME NEW ids \in SUBSET NoticeIds, MarkReadMany(ids) PROVE CountsBehind'
    <2>1. DOMAIN notices' = DOMAIN notices BY <1>5 DEF MarkReadMany
    <2>2. \A i \in DOMAIN notices : notices'[i].count = notices[i].count
        BY <1>n, <1>5 DEF MarkReadMany, NotificationTypeOK, Notice
    <2> QED BY <1>t, <1>5, <2>1, <2>2 DEF MarkReadMany, CountsBehind
<1>6. ASSUME NEW ids \in SUBSET NoticeIds, DeleteMany(ids) PROVE CountsBehind'
    BY <1>t, <1>6 DEF DeleteMany, CountsBehind
<1>7. CASE Tick
    BY <1>t, <1>7 DEF Tick, CountsBehind
<1>8. CASE RestartDigests
    BY <1>t, <1>8 DEF RestartDigests, CountsBehind, NoDigest
<1>9. CASE UNCHANGED notificationVars
    BY <1>t, <1>9 DEF notificationVars, CountsBehind
<1> QED BY <1>1, <1>2, <1>3, <1>4, <1>5, <1>6, <1>7, <1>8, <1>9 DEF NotificationNext

-----------------------------------------------------------------------------
(* Orderly calls *)

LEMMA UnreadNotices ==
    ASSUME NotificationTypeOK
    PROVE  Unread \subseteq NoticeIds /\ Unread \subseteq DOMAIN notices
BY DEF Unread, NotificationTypeOK

\* With one unread row, each of what is under way is about it.
LEMMA QuietIsAnnounced ==
    ASSUME InTime, Quiet
    PROVE  waiting = 0 /\ \A i \in Unread : ~Unannounced(i)
BY DEF InTime, Quiet

LEMMA FindKeepsDigest ==
    ASSUME NoticeInv, NEW c \in Deliveries, FindUnread(c), orderly'
    PROVE  OneDigest' /\ InTime'
<1>1. NotificationTypeOK /\ orderly /\ OneDigest /\ InTime /\ \A d \in Deliveries : digestCalls[d] = NoDigest
    BY DEF NoticeInv, FindUnread
<1>2. Unread' = Unread BY DEF FindUnread, Unread
<1>3. InTime' BY <1>1, <1>2 DEF FindUnread, InTime, Unannounced
<1>4. \A d \in Deliveries : d # c => digestCalls'[d] = NoDigest
    BY <1>1 DEF FindUnread, NotificationTypeOK
<1>5. \A d \in Deliveries : InSave(d)' => d = c BY <1>4 DEF InSave, NoDigest
<1>6. IF digestCalls'[c].id = NoNotice THEN Unread = {}
      ELSE digestCalls'[c].id \in Unread /\ digestCalls'[c].count = counted[digestCalls'[c].id]
    <2>1. CASE Unread = {} /\ digestCalls' = [digestCalls EXCEPT ![c].pc = "save"]
        <3>1. digestCalls'[c] = [NoDigest EXCEPT !.pc = "save"]
            BY <1>1, <2>1 DEF NotificationTypeOK
        <3> QED BY <2>1, <3>1 DEF NoDigest
    <2>2. CASE \E i \in Unread : digestCalls' =
                [digestCalls EXCEPT ![c] = [pc |-> "save", id |-> i, count |-> notices[i].count]]
        <3>1. PICK i \in Unread : digestCalls' =
                [digestCalls EXCEPT ![c] = [pc |-> "save", id |-> i, count |-> notices[i].count]]
            BY <2>2
        <3>2. digestCalls'[c].id = i /\ digestCalls'[c].count = notices[i].count
            BY <1>1, <3>1 DEF NotificationTypeOK
        <3>3. i \in DOMAIN notices /\ i # NoNotice
            BY <1>1, UnreadNotices DEF NoticeIds, NoNotice
        <3> QED BY <1>1, <3>2, <3>3 DEF OneDigest
    <2> QED BY <2>1, <2>2 DEF FindUnread
<1>7. \A d \in Deliveries : InSave(d)' =>
        IF digestCalls'[d].id = NoNotice THEN Unread = {}
        ELSE digestCalls'[d].id \in Unread /\ digestCalls'[d].count = counted[digestCalls'[d].id]
    BY <1>5, <1>6
<1>8. counted' = counted /\ notices' = notices /\ flushes' = flushes
      /\ debounceTimer' = debounceTimer /\ maxTimer' = maxTimer
    BY DEF FindUnread
<1>9. OneDigest' BY <1>1, <1>2, <1>5, <1>7, <1>8 DEF OneDigest
<1> QED BY <1>3, <1>9

LEMMA SaveKeepsDigest ==
    ASSUME NoticeInv, NEW c \in Deliveries, SaveNotice(c), orderly'
    PROVE  OneDigest' /\ InTime'
<1>1. NotificationTypeOK /\ CountsBehind /\ orderly /\ OneDigest /\ InTime /\ InSave(c)
    BY DEF NoticeInv, SaveNotice, InSave
<1>2. PICK i \in NoticeIds :
          /\ i = IF digestCalls[c].id = NoNotice THEN noticesMade + 1 ELSE digestCalls[c].id
          /\ digestCalls[c].count + 1 \in 1 .. MaxDigest
          /\ notices' = [j \in DOMAIN notices \cup {i} |->
                IF j = i THEN [count |-> digestCalls[c].count + 1, isRead |-> FALSE]
                         ELSE notices[j]]
          /\ counted' = [counted EXCEPT ![i] = @ + 1]
          /\ ScheduleNotificationPush(i)
    BY SavedRow
<1>3. Unread \subseteq {i}
    <2>1. CASE digestCalls[c].id = NoNotice BY <1>1, <2>1 DEF OneDigest
    <2>2. CASE digestCalls[c].id # NoNotice BY <1>1, <1>2, <2>2 DEF OneDigest
    <2> QED BY <2>1, <2>2
<1>4. Unread' = {i}
    <2>1. i \in DOMAIN notices' /\ ~notices'[i].isRead BY <1>2
    <2>2. ASSUME NEW j \in DOMAIN notices', ~notices'[j].isRead PROVE j = i
        <3>1. CASE j # i
            <4>1. j \in DOMAIN notices /\ notices'[j] = notices[j] BY <1>2, <3>1
            <4> QED BY <1>3, <2>2, <4>1 DEF Unread
        <3> QED BY <3>1
    <2> QED BY <2>1, <2>2 DEF Unread
<1>5. digestCalls[c].count = counted[i]
    <2>1. noticesMade \in 0 .. MaxNotices BY <1>1 DEF NotificationTypeOK
    <2>2. CASE digestCalls[c].id = NoNotice
        <3>1. i > noticesMade BY <1>2, <2>1, <2>2
        <3> QED BY <1>1, <2>2, <3>1 DEF CountsBehind
    <2>3. CASE digestCalls[c].id # NoNotice BY <1>1, <1>2, <2>3 DEF OneDigest
    <2> QED BY <2>2, <2>3
<1>6. /\ counted'[i] = counted[i] + 1 /\ counted[i] \in 0 .. MaxDigest
      /\ \A j \in NoticeIds : j # i => counted'[j] = counted[j]
    BY <1>1, <1>2 DEF NotificationTypeOK
<1>7. notices'[i].count = counted'[i] BY <1>2, <1>5, <1>6
<1>8. \A j \in DOMAIN notices' : notices'[j].count = counted'[j]
    BY <1>1, <1>2, <1>6, <1>7 DEF OneDigest, NotificationTypeOK
<1>9. \A d \in Deliveries : ~InSave(d)'
    <2> SUFFICES ASSUME NEW d \in Deliveries, InSave(d)' PROVE FALSE
        OBVIOUS
    <2>1. d # c BY <1>1 DEF SaveNotice, InSave, NoDigest, NotificationTypeOK
    <2>2. digestCalls'[d] = digestCalls[d] BY <1>1, <2>1 DEF SaveNotice, NotificationTypeOK
    <2>3. InSave(d) BY <2>2 DEF InSave
    <2> QED BY <1>1, <2>1, <2>3 DEF OneDigest
<1>10. flushes' = flushes /\ pushed' = pushed /\ waiting' = waiting BY DEF SaveNotice
<1>11. i # NoNotice BY DEF NoticeIds, NoNotice
<1>12. debounceTimer'.id = i /\ maxTimer'.id = i /\ maxTimer' # Unarmed
    <2>1. CASE maxTimer = Unarmed
        BY <1>2, <1>11, <2>1 DEF ScheduleNotificationPush, Unarmed
    <2>2. CASE maxTimer # Unarmed
        <3>1. maxTimer.id \in {i} BY <1>1, <1>3, <2>2 DEF OneDigest
        <3> QED BY <1>2, <2>2, <3>1 DEF ScheduleNotificationPush
    <2> QED BY <2>1, <2>2
<1>13. OneDigest'
    BY <1>1, <1>3, <1>4, <1>8, <1>9, <1>10, <1>12 DEF OneDigest
<1>14. Unannounced(i)'
    <2>1. pushed[i] \in 0 .. MaxDigest /\ pushed[i] <= counted[i]
        BY <1>1 DEF NotificationTypeOK, CountsBehind
    <2> QED BY <1>6, <1>7, <1>10, <2>1 DEF Unannounced
<1>15. i \in flushes \/ waiting + maxTimer'.left <= MaxDebounce
    <2>1. CASE i \in Unread /\ Unannounced(i) /\ i \notin flushes
        <3>1. maxTimer # Unarmed /\ waiting + maxTimer.left <= MaxDebounce
            BY <1>1, <2>1 DEF InTime
        <3> QED BY <1>2, <3>1 DEF ScheduleNotificationPush
    <2>2. CASE i \notin Unread \/ ~Unannounced(i)
        <3>1. waiting = 0 BY <1>1, <1>3, <2>2 DEF InTime
        <3>2. maxTimer.left \in 0 .. MaxDebounce BY <1>1 DEF NotificationTypeOK, Timer
        <3>3. maxTimer'.left \in 0 .. MaxDebounce
            BY <1>2, <3>2, TimersAssumption DEF ScheduleNotificationPush
        <3> QED BY <3>1, <3>3, TimersAssumption
    <2> QED BY <2>1, <2>2
<1>16. InTime' BY <1>4, <1>10, <1>12, <1>14, <1>15 DEF InTime
<1> QED BY <1>13, <1>16

LEMMA FlushKeepsDigest ==
    ASSUME NoticeInv, NEW t \in {debounceTimer, maxTimer}, Flush(t), orderly'
    PROVE  OneDigest' /\ InTime'
<1>1. NotificationTypeOK /\ orderly /\ OneDigest /\ InTime BY DEF NoticeInv, Flush
<1>2. t.id \in Unread BY <1>1 DEF Flush, OneDigest
<1>3. Unread' = Unread BY DEF Flush, Unread
<1>4. /\ flushes' = flushes \cup {t.id} /\ debounceTimer' = Unarmed /\ maxTimer' = Unarmed
      /\ notices' = notices /\ counted' = counted /\ digestCalls' = digestCalls
      /\ pushed' = pushed /\ waiting' = waiting
    BY DEF Flush
<1>5. OneDigest' BY <1>1, <1>2, <1>3, <1>4 DEF OneDigest, InSave
<1>6. \A i \in Unread : i \in flushes' BY <1>1, <1>2, <1>4 DEF OneDigest
<1>7. InTime' BY <1>1, <1>3, <1>4, <1>6 DEF InTime, Unannounced
<1> QED BY <1>5, <1>7

LEMMA PushKeepsDigest ==
    ASSUME NoticeInv, NEW i \in NoticeIds, Push(i), orderly'
    PROVE  OneDigest' /\ InTime'
<1>1. NotificationTypeOK /\ orderly /\ OneDigest /\ InTime BY DEF NoticeInv, Push
<1>2. i \in Unread /\ \A j \in Unread : j = i BY <1>1 DEF Push, OneDigest
<1>3. Unread' = Unread BY DEF Push, Unread
<1>4. pushed'[i] = notices[i].count
    BY <1>1, <1>2 DEF Push, NotificationTypeOK, Unread
<1>5. waiting' = 0 BY <1>2, <1>4 DEF Push
<1>6. \A j \in Unread' : ~Unannounced(j)' BY <1>2, <1>3, <1>4 DEF Unannounced, Push
<1>7. InTime' BY <1>5, <1>6 DEF InTime
<1>8. OneDigest' BY <1>1, <1>3 DEF Push, OneDigest, InSave
<1> QED BY <1>7, <1>8

LEMMA RemovalKeepsDigest ==
    ASSUME NoticeInv, Quiet, orderly,
           Unread' \subseteq Unread, DOMAIN notices' \subseteq DOMAIN notices,
           \A i \in DOMAIN notices' : notices'[i].count = notices[i].count,
           UNCHANGED <<digestCalls, debounceTimer, maxTimer, flushes, pushed, counted, waiting>>
    PROVE  OneDigest' /\ InTime'
<1>1. OneDigest /\ InTime BY DEF NoticeInv
<1>2. waiting = 0 /\ \A i \in Unread : ~Unannounced(i) BY <1>1, QuietIsAnnounced
<1>3. \A i \in Unread' : i \in DOMAIN notices' BY DEF Unread
<1>4. InTime' BY <1>2, <1>3 DEF InTime, Unannounced
<1>5. /\ flushes' = {} /\ debounceTimer' = Unarmed /\ maxTimer' = Unarmed
      /\ \A c \in Deliveries : ~InSave(c)'
    BY DEF Quiet, InSave, NoDigest
<1>6. OneDigest' BY <1>1, <1>5 DEF OneDigest
<1> QED BY <1>4, <1>6

LEMMA TickKeepsDigest ==
    ASSUME NoticeInv, Tick, orderly'
    PROVE  OneDigest' /\ InTime'
<1>1. NotificationTypeOK /\ orderly /\ OneDigest /\ InTime BY DEF NoticeInv, Tick
<1>2. Unread' = Unread BY DEF Tick, Unread
<1>3. \A t \in Timer : t # Unarmed => [t EXCEPT !.left = @ - 1].id = t.id
                                    /\ [t EXCEPT !.left = @ - 1].left = t.left - 1
    BY DEF Timer
<1>4. debounceTimer \in Timer /\ maxTimer \in Timer BY <1>1 DEF NotificationTypeOK
<1>5. debounceTimer' # Unarmed => debounceTimer'.id \in Unread
    BY <1>1, <1>3, <1>4 DEF Tick, OneDigest
<1>6. maxTimer' # Unarmed => maxTimer'.id \in Unread
    BY <1>1, <1>3, <1>4 DEF Tick, OneDigest
<1>7. /\ notices' = notices /\ counted' = counted /\ digestCalls' = digestCalls
      /\ pushed' = pushed /\ flushes' = flushes
    BY DEF Tick
<1>8. OneDigest' BY <1>1, <1>2, <1>5, <1>6, <1>7 DEF OneDigest, InSave
<1>9. ASSUME NEW i \in Unread, Unannounced(i), i \notin flushes
      PROVE  maxTimer' # Unarmed /\ waiting' + maxTimer'.left <= MaxDebounce
    <2>1. maxTimer # Unarmed /\ waiting + maxTimer.left <= MaxDebounce BY <1>1, <1>9 DEF InTime
    <2>2. maxTimer'.id = maxTimer.id /\ maxTimer'.left = maxTimer.left - 1
        BY <1>3, <1>4, <2>1 DEF Tick
    <2>3. maxTimer.id \in NoticeIds BY <1>1, <2>1, UnreadNotices DEF OneDigest
    <2>4. maxTimer' # Unarmed BY <2>2, <2>3 DEF Unarmed, NoticeIds, NoNotice
    <2>5. waiting' \in {waiting, waiting + 1} /\ waiting \in Nat
        BY <1>1 DEF Tick, NotificationTypeOK
    <2>6. maxTimer.left \in 0 .. MaxDebounce BY <1>4 DEF Timer
    <2> QED BY <2>1, <2>2, <2>4, <2>5, <2>6, TimersAssumption
<1>10. (\A i \in Unread : ~Unannounced(i)) => waiting' = 0
    BY <1>1 DEF Tick, InTime
<1>11. InTime' BY <1>2, <1>7, <1>9, <1>10 DEF InTime, Unannounced
<1> QED BY <1>8, <1>11

-----------------------------------------------------------------------------
(* The invariant *)

THEOREM NoticeInitially == NotificationInit => NoticeInv
<1> SUFFICES ASSUME NotificationInit PROVE NoticeInv
    OBVIOUS
<1>1. DOMAIN notices = {} /\ Unread = {} BY DEF NotificationInit, Unread
<1>2. 0 \in 0 .. MaxNotices /\ 0 \in 0 .. MaxDigest BY NotificationBounds
<1>3. NotificationTypeOK
    BY <1>1, <1>2, UnarmedIsTimer, NoDigestIsCall DEF NotificationInit, NotificationTypeOK
<1>4. CountsBehind BY <1>1 DEF NotificationInit, CountsBehind, NoDigest
<1>5. OneDigest BY <1>1 DEF NotificationInit, OneDigest, InSave, NoDigest
<1>6. InTime BY <1>1 DEF NotificationInit, InTime
<1> QED BY <1>3, <1>4, <1>5, <1>6 DEF NoticeInv

THEOREM NoticeInductive == NoticeInv /\ [NotificationNext]_notificationVars => NoticeInv'
<1> SUFFICES ASSUME NoticeInv, [NotificationNext]_notificationVars PROVE NoticeInv'
    OBVIOUS
<1>t. NotificationTypeOK /\ (orderly => OneDigest /\ InTime) BY DEF NoticeInv
<1> SUFFICES ASSUME orderly' PROVE OneDigest' /\ InTime'
    BY NoticeKeepsTypes, NextKeepsCounts DEF NoticeInv
<1>1. ASSUME NEW c \in Deliveries, FindUnread(c) PROVE OneDigest' /\ InTime'
    BY <1>1, FindKeepsDigest
<1>2. ASSUME NEW c \in Deliveries, SaveNotice(c) PROVE OneDigest' /\ InTime'
    BY <1>2, SaveKeepsDigest
<1>3. ASSUME NEW t \in {debounceTimer, maxTimer}, Flush(t) PROVE OneDigest' /\ InTime'
    BY <1>3, FlushKeepsDigest
<1>4. ASSUME NEW i \in NoticeIds, Push(i) PROVE OneDigest' /\ InTime'
    BY <1>4, PushKeepsDigest
<1>5. ASSUME NEW ids \in SUBSET NoticeIds, MarkReadMany(ids) PROVE OneDigest' /\ InTime'
    <2>1. \A i \in DOMAIN notices : notices'[i].count = notices[i].count
        BY <1>t, <1>5 DEF MarkReadMany, NotificationTypeOK, Notice
    <2>2. DOMAIN notices' = DOMAIN notices BY <1>5 DEF MarkReadMany
    <2>3. \A i \in DOMAIN notices : notices[i].isRead => notices'[i].isRead
        BY <1>t, <1>5 DEF MarkReadMany, NotificationTypeOK, Notice
    <2>4. Unread' \subseteq Unread BY <2>2, <2>3 DEF Unread
    <2> QED BY <1>5, <2>1, <2>2, <2>4, RemovalKeepsDigest DEF MarkReadMany
<1>6. ASSUME NEW ids \in SUBSET NoticeIds, DeleteMany(ids) PROVE OneDigest' /\ InTime'
    <2>1. /\ DOMAIN notices' \subseteq DOMAIN notices
          /\ \A i \in DOMAIN notices' : notices'[i] = notices[i]
        BY <1>6 DEF DeleteMany
    <2>2. Unread' \subseteq Unread BY <2>1 DEF Unread
    <2> QED BY <1>6, <2>1, <2>2, RemovalKeepsDigest DEF DeleteMany
<1>7. CASE Tick BY <1>7, TickKeepsDigest
<1>8. CASE RestartDigests BY <1>8 DEF RestartDigests
<1>9. CASE UNCHANGED notificationVars
    BY <1>t, <1>9 DEF notificationVars, OneDigest, InTime, InSave, Unread, Unannounced
<1> QED BY <1>1, <1>2, <1>3, <1>4, <1>5, <1>6, <1>7, <1>8, <1>9 DEF NotificationNext

(***************************************************************************)
(* Rows, calls, timers and flushes keep their types, and the count of a    *)
(* digest its bound (NotificationService).                                 *)
(***************************************************************************)
THEOREM NoticeTypes == NotificationSpec => []NotificationTypeOK
<1>1. NoticeInv => NotificationTypeOK BY DEF NoticeInv
<1> QED BY <1>1, NoticeInitially, NoticeInductive, PTL DEF NotificationSpec

(***************************************************************************)
(* For any number of overlapping calls, reads, deletions and restarts, no  *)
(* digest tells of more messages than were saved into it, and of exactly   *)
(* those while calls do not overlap (createOrIncrementCountNotification).  *)
(***************************************************************************)
THEOREM CountsAreMessages == NotificationSpec => []CountIsMessages
<1>1. NoticeInv => CountIsMessages BY DEF NoticeInv, CountsBehind, OneDigest, CountIsMessages
<1> QED BY <1>1, NoticeInitially, NoticeInductive, PTL DEF NotificationSpec

(***************************************************************************)
(* For any two intervals and any stream of messages, an orderly digest is  *)
(* announced before it has waited longer than MaxDebounce                  *)
(* (scheduleNotificationPush, flushNotification).                          *)
(***************************************************************************)
THEOREM AnnouncedInTime == NotificationSpec => []Announced
<1>1. NoticeInv => Announced
    <2> SUFFICES ASSUME NoticeInv, orderly, NEW i \in Unread, Unannounced(i), i \notin flushes
                 PROVE  waiting <= MaxDebounce /\ i \in {debounceTimer.id, maxTimer.id}
        BY DEF Announced
    <2>1. NotificationTypeOK /\ OneDigest /\ InTime BY DEF NoticeInv
    <2>2. maxTimer # Unarmed /\ waiting + maxTimer.left <= MaxDebounce BY <2>1 DEF InTime
    <2>3. maxTimer.left \in 0 .. MaxDebounce /\ waiting \in Nat
        BY <2>1 DEF NotificationTypeOK, Timer
    <2>4. maxTimer.id = i BY <2>1, <2>2 DEF OneDigest
    <2> QED BY <2>2, <2>3, <2>4, TimersAssumption
<1> QED BY <1>1, NoticeInitially, NoticeInductive, PTL DEF NotificationSpec
=============================================================================
