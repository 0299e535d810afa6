----------------------------- MODULE TaskBoard ------------------------------
(***************************************************************************)
(* The task board of Assignment 4: a console program in which a team       *)
(* leader creates, assigns and deletes tasks and a team member moves them  *)
(* between TODO, DOING and DONE.  One account is logged in at a time; each *)
(* menu entry is one action.  Nothing is kept when the program exits.      *)
(***************************************************************************)
EXTENDS Integers, FiniteSets, SequencesExt

CONSTANTS
  Leaders, Members,   \* the ids of the accounts appended at the start
  TypedIds,           \* other account ids a leader may type for a new task
  Descriptions,       \* what a leader may type as a description
  MaxTasks            \* bound: how many tasks are ever created

ASSUME AccountsAssumption ==
  /\ Leaders \subseteq Int /\ Members \subseteq Int /\ TypedIds \subseteq Int
  /\ Leaders \cap Members = {}
  /\ MaxTasks \in Nat

Accounts == Leaders \cup Members
Statuses == {"todo", "doing", "done"}
Task ==
  [id : Nat \ {0}, desc : Descriptions, status : Statuses,
   assignedMember : Accounts \cup TypedIds]

VARIABLES
  tasks,             \* the global array of tasks
  taskCount,         \* the last id generateTaskId returned
  onGoingTaskCount,  \* each account's counter
  session,           \* who is logged in, in a set; {} in loginMenu
  running            \* FALSE after exit(0)

vars == <<tasks, taskCount, onGoingTaskCount, session, running>>

Init ==
  /\ tasks = <<>> /\ taskCount = 0
  /\ onGoingTaskCount = [a \in Accounts |-> 0]
  /\ session = {} /\ running = TRUE

\* A menu entry of an account of this role.
Menu(role) == running /\ session # {} /\ session \subseteq role

\* loginMenu with the right password; a wrong one asks again.
loginMenu(a) ==
  /\ running /\ session = {}
  /\ session' = {a}
  /\ UNCHANGED <<tasks, taskCount, onGoingTaskCount, running>>

Logout ==
  /\ Menu(Accounts)
  /\ session' = {}
  /\ UNCHANGED <<tasks, taskCount, onGoingTaskCount, running>>

Exit ==
  /\ Menu(Accounts)
  /\ running' = FALSE
  /\ UNCHANGED <<tasks, taskCount, onGoingTaskCount, session>>

-----------------------------------------------------------------------------
\* The leader's menu.  A task is looked up by its id, with firstIndex.

\* Mutant: generateTaskId returns the count from before its increment.
createTaskCountingLate(m, d) ==
  /\ Menu(Leaders)
  /\ taskCount < MaxTasks
  /\ taskCount' = taskCount + 1
  /\ tasks' = Append(tasks, [id |-> taskCount, desc |-> d, status |-> "todo",
                             assignedMember |-> m])
  /\ UNCHANGED <<onGoingTaskCount, session, running>>

\* Mutant: the next id is taken from the length of the array.
createTaskByLength(m, d) ==
  /\ Menu(Leaders)
  /\ taskCount < MaxTasks
  /\ taskCount' = taskCount + 1
  /\ tasks' = Append(tasks, [id |-> Len(tasks) + 1, desc |-> d, status |-> "todo",
                             assignedMember |-> m])
  /\ UNCHANGED <<onGoingTaskCount, session, running>>

\* The account a new task is for is not looked up.
createTask(m, d) ==
  /\ Menu(Leaders)
  /\ taskCount < MaxTasks
  /\ taskCount' = taskCount + 1
  /\ tasks' = Append(tasks, [id |-> taskCount', desc |-> d, status |-> "todo",
                             assignedMember |-> m])
  /\ UNCHANGED <<onGoingTaskCount, session, running>>

updateDescTask(i, d) ==
  /\ Menu(Leaders)
  /\ tasks' = [tasks EXCEPT ![i].desc = d]
  /\ UNCHANGED <<taskCount, onGoingTaskCount, session, running>>

\* Mutant: a DONE task can be given to another member.
updateMemberTaskUnlessDoing(i, m) ==
  /\ Menu(Leaders)
  /\ onGoingTaskCount[m] < 2
  /\ tasks[i].status # "doing"
  /\ tasks' = [tasks EXCEPT ![i].assignedMember = m]
  /\ UNCHANGED <<taskCount, onGoingTaskCount, session, running>>

\* An existing account with a counter below 2 gets a task that is still TODO.
updateMemberTask(i, m) ==
  /\ Menu(Leaders)
  /\ onGoingTaskCount[m] < 2
  /\ tasks[i].status = "todo"
  /\ tasks' = [tasks EXCEPT ![i].assignedMember = m]
  /\ UNCHANGED <<taskCount, onGoingTaskCount, session, running>>

deleteTask(i) ==
  /\ Menu(Leaders)
  /\ tasks[i].status # "doing"
  /\ tasks' = RemoveAt(tasks, i)
  /\ UNCHANGED <<taskCount, onGoingTaskCount, session, running>>

\* The member's menu: any task may be moved to any status, the one it has
\* included; the counter that moves is the one of the member logged in.
updateTaskStatus(i, status) ==
  /\ Menu(Members)
  /\ tasks' = [tasks EXCEPT ![i].status = status]
  /\ onGoingTaskCount' =
       [a \in Accounts |->
          IF a \notin session THEN onGoingTaskCount[a]
          ELSE onGoingTaskCount[a] + (IF status = "doing" THEN 1 ELSE -1)]
  /\ UNCHANGED <<taskCount, session, running>>

Next ==
  \/ \E a \in Accounts : loginMenu(a)
  \/ Logout
  \/ Exit
  \/ \E m \in Accounts \cup TypedIds, d \in Descriptions : createTask(m, d)
  \/ \E i \in DOMAIN tasks :
       \/ \E d \in Descriptions : updateDescTask(i, d)
       \/ \E m \in Accounts : updateMemberTask(i, m)
       \/ deleteTask(i)
       \/ \E status \in Statuses : updateTaskStatus(i, status)

Spec == Init /\ [][Next]_vars

-----------------------------------------------------------------------------
\* Properties

TypeOK ==
  /\ tasks \in Seq(Task)
  /\ taskCount \in Nat
  /\ onGoingTaskCount \in [Accounts -> Int]
  /\ session \subseteq Accounts
  /\ running \in BOOLEAN

\* Ids ascend along the array and never pass the counter: however tasks are
\* deleted in between, firstIndex finds the one task with an id, and the id of
\* a deleted task is never given to another one.
IdsAscending ==
  /\ \A i, j \in DOMAIN tasks : i < j => tasks[i].id < tasks[j].id
  /\ \A i \in DOMAIN tasks : tasks[i].id <= taskCount

\* A DOING task is not deleted, and a DOING or DONE task is not given to
\* another member, by any menu entry, another task's included.
StartedTasksStay ==
  [][\A i \in DOMAIN tasks :
       LET kept == {j \in DOMAIN tasks' : tasks'[j].id = tasks[i].id}
       IN  /\ tasks[i].status = "doing" => kept # {}
           /\ tasks[i].status # "todo" =>
                \A j \in kept : tasks'[j].assignedMember = tasks[i].assignedMember]_vars

-----------------------------------------------------------------------------
\* What the program's texts say, and the code does not do

Doing(m) ==
  {i \in DOMAIN tasks : tasks[i].status = "doing" /\ tasks[i].assignedMember = m}

\* The task of row i in the next state is given to a member in this step.
Reassigned(i) ==
  \E j \in DOMAIN tasks : /\ tasks[j].id = tasks'[i].id
                          /\ tasks[j].assignedMember # tasks'[i].assignedMember

\* "//>= 2 DOING tasks, this member should not be assigned new tasks"
\* (main.swift:106): the counter it stands above is another number than that
\* of the member's DOING tasks.
BusyMemberNotReassigned ==
  [][\A i \in DOMAIN tasks' :
       Reassigned(i) => Cardinality(Doing(tasks'[i].assignedMember)) < 2]_vars

=============================================================================
