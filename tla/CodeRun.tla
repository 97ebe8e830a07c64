------------------------------ MODULE CodeRun -------------------------------
(***************************************************************************)
(* Running the code blocks and the collaborations of one group, all in one *)
(* language: CodeService.runCodeBlock and runCodeCollab, the shared        *)
(* container of Docker.execCommand, the daily counter of group_usage and   *)
(* its reset, and the edits that make a cached result obsolete.  The       *)
(* language is one the group supports and that can be run.  Each action is *)
(* one awaited statement.                                                  *)
(***************************************************************************)
EXTENDS Integers, FiniteSets

CONSTANTS
    CodeBlocks,     \* code blocks of messages
    Collabs,        \* code collaborations
    GroupTargets,   \* the ones in a channel of the group; the others are direct
    Runners,        \* bound: runs at once
    RunCodePerDay,  \* the limit of the plan, not 0
    MaxTexts,       \* bound: versions of one text
    MaxDeaths       \* bound: runs of one day that die between check and charge

Targets == CodeBlocks \cup Collabs

ASSUME CodeRunBounds == RunCodePerDay \in Nat \ {0} /\ MaxTexts \in Nat \ {0} /\ MaxDeaths \in Nat
ASSUME RunnersAssumption == IsFiniteSet(Runners) /\ Runners # {}
ASSUME TargetsAssumption ==
    GroupTargets \subseteq Targets /\ Targets # {} /\ CodeBlocks \cap Collabs = {}

VARIABLES
    text,        \* the content of each target, by version; Gone once deleted
    results,     \* run_code_cache rows
    used,        \* runCodeExecutions of the current cycle; no row counts as 0
    containerUp, \* the container of the language runs
    runner,      \* the runs in flight
    editor,      \* the edit in flight
    admitted,    \* history: runs let through since midnight
    uncharged,   \* history: those of them that died before they were charged
    editsApart,  \* history: no edit overlapped a run of its target or died
    runsApart    \* history: no two runs overlapped

codeRunVars == <<text, results, used, containerUp, runner, editor, admitted, uncharged,
                 editsApart, runsApart>>

-----------------------------------------------------------------------------
Gone == 0
AnyTarget == CHOOSE t \in Targets : TRUE

\* whole: the program ended, or was stopped for its own running time.
Result == [target : Targets, text : 1 .. MaxTexts, whole : BOOLEAN]

Runner == [pc : {"idle", "cache", "check", "prepare", "exec", "running", "store", "charge"},
           target : Targets, text : 0 .. MaxTexts, whole : BOOLEAN]
NoRun == [pc |-> "idle", target |-> AnyTarget, text |-> 0, whole |-> TRUE]

Editor == [pc : {"idle", "clear", "write"}, target : Targets]
NoEdit == [pc |-> "idle", target |-> AnyTarget]

RunAt(r, pc) == runner[r].pc = pc
RunGoto(r, pc) == runner' = [runner EXCEPT ![r].pc = pc]
Running(t) == \E r \in Runners : runner[r] # NoRun /\ runner[r].target = t

\* A limited run that was let through and is still to be charged.
Owing(r) == runner[r].target \in GroupTargets /\ runner[r].pc \in {"prepare", "exec", "running", "store", "charge"}

-----------------------------------------------------------------------------
(* A run *)

\* The target is found.
RunTarget(r, t) ==
    /\ runner[r] = NoRun
    /\ text[t] # Gone
    /\ runner' = [runner EXCEPT ![r] = [pc |-> "cache", target |-> t, text |-> text[t], whole |-> TRUE]]
    /\ runsApart' = (runsApart /\ \A s \in Runners : runner[s] = NoRun)
    /\ editsApart' = (editsApart /\ ~(editor # NoEdit /\ editor.target = t))
    /\ UNCHANGED <<text, results, used, containerUp, editor, admitted, uncharged>>
RunCodeBlock(r) == \E t \in CodeBlocks : RunTarget(r, t)
RunCodeCollab(r) == \E t \in Collabs : RunTarget(r, t)

\* A cached result is the answer.
ReadCache(r) ==
    /\ RunAt(r, "cache")
    /\ LET t == runner[r].target
       IN IF \E e \in results : e.target = t
          THEN runner' = [runner EXCEPT ![r] = NoRun]
          ELSE RunGoto(r, IF t \in GroupTargets THEN "check" ELSE "prepare")
    /\ UNCHANGED <<text, results, used, containerUp, editor, admitted, uncharged, editsApart, runsApart>>

\* Mutant: the limit is passed by one.
MutAssertGroupCanRunCode(r) ==
    /\ RunAt(r, "check")
    /\ IF used > RunCodePerDay
       THEN runner' = [runner EXCEPT ![r] = NoRun] /\ UNCHANGED admitted
       ELSE RunGoto(r, "prepare") /\ admitted' = admitted + 1
    /\ UNCHANGED <<text, results, used, containerUp, editor, uncharged, editsApart, runsApart>>

\* The usage row is found or created; the counter is read and not yet raised.
AssertGroupCanRunCode(r) ==
    /\ RunAt(r, "check")
    /\ IF used >= RunCodePerDay
       THEN runner' = [runner EXCEPT ![r] = NoRun] /\ UNCHANGED admitted
       ELSE RunGoto(r, "prepare") /\ admitted' = admitted + 1
    /\ UNCHANGED <<text, results, used, containerUp, editor, uncharged, editsApart, runsApart>>

\* The AI check may refuse the code, which is cached like an output.
AiRefuses(r) ==
    /\ RunAt(r, "prepare")
    /\ RunGoto(r, "store")
    /\ UNCHANGED <<text, results, used, containerUp, editor, admitted, uncharged, editsApart, runsApart>>

\* prepareContainer starts a stopped container.
PrepareContainer(r) ==
    /\ RunAt(r, "prepare")
    /\ containerUp' = TRUE
    /\ RunGoto(r, "exec")
    /\ UNCHANGED <<text, results, used, editor, admitted, uncharged, editsApart, runsApart>>

\* An exec in a container that was killed meanwhile throws; the finally block
\* charges the run all the same.
ExecCommand(r) ==
    /\ RunAt(r, "exec")
    /\ RunGoto(r, IF containerUp THEN "running" ELSE "charge")
    /\ UNCHANGED <<text, results, used, containerUp, editor, admitted, uncharged, editsApart, runsApart>>

\* A compiler has ended, and the program it made is run next.
OneMore == {"exec", "store"}

OutputEnds(r) ==
    /\ RunAt(r, "running")
    /\ \E next \in OneMore : RunGoto(r, next)
    /\ UNCHANGED <<text, results, used, containerUp, editor, admitted, uncharged, editsApart, runsApart>>

\* The timeout of one run kills the container: the output of every command in
\* it ends there, and is taken for the whole.
ExecTimeout(r) ==
    /\ RunAt(r, "running")
    /\ containerUp' = FALSE
    /\ \E next \in [Runners -> OneMore] : runner' = [s \in Runners |->
          IF s = r THEN [runner[s] EXCEPT !.pc = "store"]
          ELSE IF RunAt(s, "running") THEN [runner[s] EXCEPT !.pc = next[s], !.whole = FALSE]
          ELSE runner[s]]
    /\ UNCHANGED <<text, results, used, editor, admitted, uncharged, editsApart, runsApart>>

StoreResult(r) ==
    /\ RunAt(r, "store")
    /\ results' = results \cup {[target |-> runner[r].target, text |-> runner[r].text,
                                 whole |-> runner[r].whole]}
    /\ RunGoto(r, "charge")
    /\ UNCHANGED <<text, used, containerUp, editor, admitted, uncharged, editsApart, runsApart>>

\* increaseRunCodeExecutions, an increment in the database.
IncreaseRunCodeExecutions(r) ==
    /\ RunAt(r, "charge")
    /\ used' = IF runner[r].target \in GroupTargets THEN used + 1 ELSE used
    /\ runner' = [runner EXCEPT ![r] = NoRun]
    /\ UNCHANGED <<text, results, containerUp, editor, admitted, uncharged, editsApart, runsApart>>

\* The process dies under a run.
RunDies(r) ==
    /\ runner[r] # NoRun
    /\ Owing(r) => uncharged < MaxDeaths
    /\ uncharged' = IF Owing(r) THEN uncharged + 1 ELSE uncharged
    /\ runner' = [runner EXCEPT ![r] = NoRun]
    /\ UNCHANGED <<text, results, used, containerUp, editor, admitted, editsApart, runsApart>>

-----------------------------------------------------------------------------
(* Edits, and midnight *)

StartEdit(t, pc) ==
    /\ editor = NoEdit
    /\ text[t] # Gone
    /\ editor' = [pc |-> pc, target |-> t]
    /\ editsApart' = (editsApart /\ ~Running(t))
    /\ UNCHANGED <<results, used, containerUp, runner, admitted, uncharged, runsApart>>

EditDone == UNCHANGED <<used, containerUp, runner, admitted, uncharged, editsApart, runsApart>>

\* The edit of a message clears the cache of its block, then saves the block.
EditBlock(t) == text[t] < MaxTexts /\ StartEdit(t, "clear") /\ UNCHANGED text
SaveBlock ==
    /\ editor.pc = "write"
    /\ text' = [text EXCEPT ![editor.target] = @ + 1]
    /\ editor' = NoEdit
    /\ UNCHANGED results /\ EditDone

\* CodeCollaborationService writes or deletes first and clears after.
UpdateCollab(t) == /\ text[t] < MaxTexts
                   /\ StartEdit(t, "clear")
                   /\ text' = [text EXCEPT ![t] = @ + 1]
DeleteCollab(t) == StartEdit(t, "clear") /\ text' = [text EXCEPT ![t] = Gone]

\* Mutant: a collaboration keeps its result.
MutClearCache ==
    /\ editor.pc = "clear"
    /\ results' = {e \in results : e.target # editor.target \/ e.target \in Collabs}
    /\ editor' = IF editor.target \in CodeBlocks THEN [editor EXCEPT !.pc = "write"] ELSE NoEdit
    /\ UNCHANGED text /\ EditDone

ClearCache ==
    /\ editor.pc = "clear"
    /\ results' = {e \in results : e.target # editor.target}
    /\ editor' = IF editor.target \in CodeBlocks THEN [editor EXCEPT !.pc = "write"] ELSE NoEdit
    /\ UNCHANGED text /\ EditDone

\* A block that lost its cached result early is no harm; a collaboration
\* that keeps one is.
EditDies ==
    /\ editor # NoEdit
    /\ editor' = NoEdit
    /\ editsApart' = (editsApart /\ editor.target \in CodeBlocks)
    /\ UNCHANGED <<text, results, used, containerUp, runner, admitted, uncharged, runsApart>>

\* GroupUsageScheduler sets the counter to 0, whatever is still running.
ResetGroupUsageDaily ==
    /\ used' = 0 /\ admitted' = 0 /\ uncharged' = 0
    /\ UNCHANGED <<text, results, containerUp, runner, editor, editsApart, runsApart>>

-----------------------------------------------------------------------------
CodeRunInit ==
    /\ text = [t \in Targets |-> 1]
    /\ results = {}
    /\ used = 0
    /\ containerUp = TRUE
    /\ runner = [r \in Runners |-> NoRun]
    /\ editor = NoEdit
    /\ admitted = 0 /\ uncharged = 0
    /\ editsApart = TRUE /\ runsApart = TRUE

CodeRunNext ==
    \/ \E r \in Runners :
        \/ RunCodeBlock(r) \/ RunCodeCollab(r)
        \/ ReadCache(r) \/ AssertGroupCanRunCode(r) \/ AiRefuses(r) \/ PrepareContainer(r)
        \/ ExecCommand(r) \/ OutputEnds(r) \/ ExecTimeout(r) \/ StoreResult(r)
        \/ IncreaseRunCodeExecutions(r) \/ RunDies(r)
    \/ \E t \in CodeBlocks : EditBlock(t)
    \/ \E t \in Collabs : UpdateCollab(t) \/ DeleteCollab(t)
    \/ SaveBlock \/ ClearCache \/ EditDies
    \/ ResetGroupUsageDaily

CodeRunSpec == CodeRunInit /\ [][CodeRunNext]_codeRunVars

-----------------------------------------------------------------------------
(* Properties *)

CodeRunTypeOK ==
    /\ text \in [Targets -> 0 .. MaxTexts]
    /\ results \subseteq Result
    /\ used \in Nat
    /\ containerUp \in BOOLEAN
    /\ runner \in [Runners -> Runner]
    /\ editor \in Editor
    /\ admitted \in Nat
    /\ uncharged \in 0 .. MaxDeaths
    /\ {editsApart, runsApart} \subseteq BOOLEAN

(***************************************************************************)
(* However runs overlap with each other, with a crash and with midnight,   *)
(* the runs let through in a day pass the limit of the plan by less than   *)
(* the number of runs at once, apart from those that died uncharged        *)
(* (assertGroupCanRunCode reads the counter before the run, the finally    *)
(* block raises it after).                                                 *)
(***************************************************************************)
RunsWithinLimit == admitted < RunCodePerDay + Cardinality(Runners) + uncharged

(***************************************************************************)
(* A cached result is the result of the text as it is, unless an edit      *)
(* overlapped a run of it or died half way; and it is a whole one, unless  *)
(* two runs overlapped, of which one may have killed the container under   *)
(* the other (execCommand, updateOne, clearCodeBlockCache).                *)
(***************************************************************************)
CacheFaithful ==
    \A e \in results :
        /\ editsApart => e.text = text[e.target] \/ (editor.pc = "clear" /\ editor.target = e.target)
        /\ runsApart => e.whole
=============================================================================
