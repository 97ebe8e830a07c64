------------------------------- MODULE Board -------------------------------
(***************************************************************************)
(* The tasks of one group and their history (TaskService).  Each action is *)
(* one awaited statement of one call; a call reads the task first and      *)
(* writes its history one row per changed field.  Of the fields of a task  *)
(* only the status is kept, the others being recorded like it; whether an  *)
(* assignee is a member of the group is for UserGroupService to say.       *)
(***************************************************************************)
EXTENDS Integers, Sequences, FiniteSets

CONSTANTS
    Unset,        \* null, and a field the request leaves out
    Editors,      \* bound: calls at once
    MaxTasks,     \* bound: tasks
    MaxHistory,   \* bound: history rows
    LockDays      \* a done task is locked so many days after its last update

ASSUME BoardBounds == {MaxTasks, MaxHistory} \subseteq Nat
ASSUME UnsetAssumption == Unset \notin Nat
ASSUME LockAssumption == LockDays \in Nat \ {0}

VARIABLES
    tasks,        \* task rows, in order of insertion
    history,      \* task_history rows, in order of insertion
    taskCall,     \* the calls in flight
    tasksApart    \* history: no two calls overlapped, and none died half way

boardVars == <<tasks, history, taskCall, tasksApart>>

-----------------------------------------------------------------------------
ToDo == 0
InProgress == 1
Done == 2
Statuses == {ToDo, InProgress, Done}

Task == [status : Statuses, active : BOOLEAN, age : 0 .. LockDays]

Values == Statuses \cup {Unset}
HistoryRow == [task : 1 .. MaxTasks, action : {"create", "update", "delete"},
               old : Values, new : Values]

TaskCall == [pc : {"idle", "insert", "validate", "update", "history", "remove"},
             task : 0 .. MaxTasks,
             old : Values, new : Values,  \* the status read, and the one asked for
             owed : Seq(HistoryRow), removes : BOOLEAN]
NoTaskCall == [pc |-> "idle", task |-> 0, old |-> Unset, new |-> Unset, owed |-> <<>>, removes |-> FALSE]

TaskAt(e, pc) == taskCall[e].pc = pc
TaskGoto(e, pc) == taskCall' = [taskCall EXCEPT ![e].pc = pc]
TaskDone(e) == taskCall' = [taskCall EXCEPT ![e] = NoTaskCall]
TaskStarts(e) ==
    /\ taskCall[e] = NoTaskCall
    /\ tasksApart' = (tasksApart /\ \A o \in Editors : taskCall[o] = NoTaskCall)
SameTasks == UNCHANGED tasksApart

IsTaskLocked(t) == t.status = Done /\ t.age = LockDays

\* findOne, then ensureTaskIsEditable.
Editable == {i \in DOMAIN tasks : tasks[i].active /\ ~IsTaskLocked(tasks[i])}

-----------------------------------------------------------------------------
(* The history *)

Row(i, action, old, new) == [task |-> i, action |-> action, old |-> old, new |-> new]

\* getChangedFields: a value that differs from the request, where a field the
\* request leaves out is undefined; nothing on one side for a creation or a deletion.
ChangedFields(i, action, old, new) == IF old = new THEN <<>> ELSE <<Row(i, action, old, new)>>

\* saveTaskHistory: one insert per row, then the call ends or removes the task.
SaveTaskHistory(e) ==
    /\ TaskAt(e, "history")
    /\ LET c == taskCall[e] IN
       \/ /\ c.owed # <<>>
          /\ Len(history) < MaxHistory
          /\ history' = Append(history, Head(c.owed))
          /\ taskCall' = [taskCall EXCEPT ![e].owed = Tail(@)]
       \/ /\ c.owed = <<>>
          /\ IF c.removes THEN TaskGoto(e, "remove") ELSE TaskDone(e)
          /\ UNCHANGED history
    /\ UNCHANGED tasks /\ SameTasks

-----------------------------------------------------------------------------
(* TaskService *)

TaskHolds(e, pc, i, old, new) ==
    taskCall' = [taskCall EXCEPT ![e] = [NoTaskCall EXCEPT !.pc = pc, !.task = i, !.old = old, !.new = new]]
TaskOwes(e, i, action, old, new) ==
    taskCall' = [taskCall EXCEPT ![e] = [NoTaskCall EXCEPT !.pc = "history", !.task = i,
                     !.owed = ChangedFields(i, action, old, new), !.removes = action = "delete"]]

\* validateBeforeCreate has found the assignee among the members.
CreateTask(e) ==
    /\ TaskStarts(e)
    /\ \E s \in Statuses : TaskHolds(e, "insert", 0, Unset, s)
    /\ UNCHANGED <<tasks, history>>

InsertTask(e) ==
    /\ TaskAt(e, "insert")
    /\ Len(tasks) < MaxTasks
    /\ tasks' = Append(tasks, [status |-> taskCall[e].new, active |-> TRUE, age |-> 0])
    /\ TaskOwes(e, Len(tasks) + 1, "create", Unset, taskCall[e].new)
    /\ UNCHANGED history /\ SameTasks

\* Any of the fields may be left out; another assignee is looked for first.
UpdateTask(e) ==
    /\ TaskStarts(e)
    /\ \E i \in Editable, s \in Values, pc \in {"update", "validate"} :
        TaskHolds(e, pc, i, tasks[i].status, s)
    /\ UNCHANGED <<tasks, history>>

\* A user who is not a member ends the call.
ValidateAssignee(e) ==
    /\ TaskAt(e, "validate")
    /\ TaskGoto(e, "update") \/ TaskDone(e)
    /\ UNCHANGED <<tasks, history>> /\ SameTasks

UpdateTaskStatus(e) ==
    /\ TaskStarts(e)
    /\ \E i \in Editable, s \in Statuses : TaskHolds(e, "update", i, tasks[i].status, s)
    /\ UNCHANGED <<tasks, history>>

\* Mutant: the old value is read after the update.
MutOldValue(e) == LET c == taskCall[e] IN IF c.new = Unset THEN c.old ELSE c.new
OldValue(e) == taskCall[e].old

\* Mutant: a field that the request leaves out is written too.
MutWriteTask(e) ==
    /\ TaskAt(e, "update")
    /\ LET c == taskCall[e] IN
       /\ tasks' = [tasks EXCEPT ![c.task].status = c.new, ![c.task].age = 0]
       /\ TaskOwes(e, c.task, "update", OldValue(e), c.new)
    /\ UNCHANGED history /\ SameTasks

\* The update sets the fields given and updatedAt, by id alone.
WriteTask(e) ==
    /\ TaskAt(e, "update")
    /\ LET c == taskCall[e] IN
       /\ tasks' = [tasks EXCEPT ![c.task].status = IF c.new = Unset THEN @ ELSE c.new,
                                 ![c.task].age = 0]
       /\ TaskOwes(e, c.task, "update", OldValue(e), c.new)
    /\ UNCHANGED history /\ SameTasks

\* deleteOne writes its history first.
DeleteTask(e) ==
    /\ TaskStarts(e)
    /\ \E i \in Editable : TaskOwes(e, i, "delete", tasks[i].status, Unset)
    /\ UNCHANGED <<tasks, history>>

RemoveTask(e) ==
    /\ TaskAt(e, "remove")
    /\ tasks' = [tasks EXCEPT ![taskCall[e].task].active = FALSE, ![taskCall[e].task].age = 0]
    /\ TaskDone(e)
    /\ UNCHANGED history /\ SameTasks

\* A statement fails, and the call ends there.
TaskCallDies(e) ==
    /\ taskCall[e] # NoTaskCall
    /\ TaskDone(e)
    /\ tasksApart' = (tasksApart /\ ~TaskAt(e, "history"))
    /\ UNCHANGED <<tasks, history>>

DayPasses == \E i \in DOMAIN tasks :
    /\ tasks[i].age < LockDays
    /\ tasks' = [tasks EXCEPT ![i].age = @ + 1]
    /\ UNCHANGED <<history, taskCall, tasksApart>>

-----------------------------------------------------------------------------
(* What the members see *)

\* findByGroup over some statuses, all pages together, and getStatistics.
FindByGroup(statuses) == {i \in DOMAIN tasks : tasks[i].active /\ tasks[i].status \in statuses}
GetStatistics == [s \in Statuses |-> Cardinality(FindByGroup({s}))]

\* getTaskHistory: the rows of a task, by their number.
GetTaskHistory(i) == {k \in DOMAIN history : history[k].task = i}

-----------------------------------------------------------------------------
BoardInit ==
    /\ tasks = <<>> /\ history = <<>>
    /\ taskCall = [e \in Editors |-> NoTaskCall]
    /\ tasksApart = TRUE

BoardNext ==
    \/ \E e \in Editors :
        \/ CreateTask(e) \/ InsertTask(e) \/ UpdateTask(e) \/ ValidateAssignee(e)
        \/ UpdateTaskStatus(e) \/ WriteTask(e) \/ SaveTaskHistory(e)
        \/ DeleteTask(e) \/ RemoveTask(e) \/ TaskCallDies(e)
    \/ DayPasses

BoardSpec == BoardInit /\ [][BoardNext]_boardVars

-----------------------------------------------------------------------------
(* Properties *)

BoardTypeOK ==
    /\ tasks \in Seq(Task) /\ Len(tasks) <= MaxTasks
    /\ history \in Seq(HistoryRow) /\ Len(history) <= MaxHistory
    /\ taskCall \in [Editors -> TaskCall]
    /\ tasksApart \in BOOLEAN

Latest(ks) == CHOOSE k \in ks : \A j \in ks : j <= k

\* What the rows ks of one field say it was set to; a row that ends in nothing
\* is a deletion, or an update that left the field out.
Recorded(ks) ==
    LET set == {k \in ks : history[k].new # Unset}
    IN IF set = {} THEN Unset ELSE history[Latest(set)].new

\* The tasks whose history has no deletion and leads to some status.
RecordedAs(s) ==
    {i \in DOMAIN tasks : /\ Recorded(GetTaskHistory(i)) = s
                          /\ \A k \in GetTaskHistory(i) : history[k].action # "delete"}

(***************************************************************************)
(* While calls do not overlap, and none died before its history was        *)
(* written, the history of a field can be replayed: each row starts from   *)
(* the value the rows before it lead to, they lead to the value the task   *)
(* has, and the board misses no task whose history has no deletion         *)
(* (updateOne, updateTaskStatus, deleteOne, saveTaskHistory,               *)
(* getStatistics).                                                         *)
(***************************************************************************)
HistoryReplays ==
    tasksApart =>
        /\ \A i \in DOMAIN tasks : \A k \in GetTaskHistory(i) :
            history[k].old = Recorded({j \in GetTaskHistory(i) : j < k})
        /\ (\A e \in Editors : taskCall[e] = NoTaskCall) =>
            /\ \A i \in DOMAIN tasks : Recorded(GetTaskHistory(i)) = tasks[i].status
            /\ \A s \in Statuses : Cardinality(RecordedAs(s)) <= GetStatistics[s]
=============================================================================
