-------------------------- MODULE TaskBoardProofs ---------------------------
(***************************************************************************)
(* TaskBoard for every set of accounts and any number of tasks: types, ids *)
(* that ascend along the array, and started tasks that stay where they     *)
(* are.                                                                    *)
(***************************************************************************)
EXTENDS TaskBoard, ListProofs

\* What every menu entry leaves of the tasks: the array with one task added at
\* the end, removed, or replaced by one with the same id, or as it was.
TasksStep ==
  \/ UNCHANGED <<tasks, taskCount>>
  \/ \E t \in Task : /\ t.id = taskCount' /\ t.status = "todo"
                     /\ taskCount' = taskCount + 1
                     /\ tasks' = Append(tasks, t)
  \/ \E i \in 1 .. Len(tasks), t \in Task :
       /\ t.id = tasks[i].id
       /\ tasks[i].status # "todo" => t.assignedMember = tasks[i].assignedMember
       /\ tasks' = [tasks EXCEPT ![i] = t]
       /\ UNCHANGED taskCount
  \/ \E i \in 1 .. Len(tasks) :
       /\ tasks[i].status # "doing"
       /\ tasks' = RemoveAt(tasks, i)
       /\ UNCHANGED taskCount

\* Every step is one of these, and keeps the other variables' types.
LEMMA StepsOfTasks ==
  ASSUME TypeOK, [Next]_vars
  PROVE  /\ TasksStep
         /\ taskCount' \in Nat
         /\ onGoingTaskCount' \in [Accounts -> Int]
         /\ session' \subseteq Accounts
         /\ running' \in BOOLEAN
<1>a. DOMAIN tasks = 1 .. Len(tasks) /\ \A i \in 1 .. Len(tasks) : tasks[i] \in Task
  BY ElementOfSeq DEF TypeOK
<1>1. CASE UNCHANGED vars
  BY <1>1 DEF vars, TypeOK, TasksStep
<1>2. ASSUME NEW a \in Accounts, loginMenu(a)
      PROVE  /\ TasksStep
             /\ taskCount' \in Nat /\ onGoingTaskCount' \in [Accounts -> Int]
             /\ session' \subseteq Accounts /\ running' \in BOOLEAN
  BY <1>2 DEF TypeOK, loginMenu, TasksStep
<1>3. CASE Logout \/ Exit
  BY <1>3 DEF TypeOK, Logout, Exit, TasksStep
<1>4. ASSUME NEW m \in Accounts \cup TypedIds, NEW d \in Descriptions, createTask(m, d)
      PROVE  /\ TasksStep
             /\ taskCount' \in Nat /\ onGoingTaskCount' \in [Accounts -> Int]
             /\ session' \subseteq Accounts /\ running' \in BOOLEAN
  <2>1. [id |-> taskCount', desc |-> d, status |-> "todo", assignedMember |-> m] \in Task
    BY <1>4 DEF createTask, TypeOK, Task, Statuses
  <2>2. TasksStep
    BY <1>4, <2>1 DEF createTask, TasksStep
  <2> QED
    BY <1>4, <2>2 DEF createTask, TypeOK
<1>5. ASSUME NEW i \in DOMAIN tasks, NEW d \in Descriptions, updateDescTask(i, d)
      PROVE  /\ TasksStep
             /\ taskCount' \in Nat /\ onGoingTaskCount' \in [Accounts -> Int]
             /\ session' \subseteq Accounts /\ running' \in BOOLEAN
  <2>1. [tasks[i] EXCEPT !.desc = d] \in Task
    BY <1>5, <1>a DEF Task
  <2>2. tasks' = [tasks EXCEPT ![i] = [tasks[i] EXCEPT !.desc = d]]
    BY <1>5 DEF updateDescTask
  <2>3. /\ [tasks[i] EXCEPT !.desc = d].id = tasks[i].id
        /\ [tasks[i] EXCEPT !.desc = d].assignedMember = tasks[i].assignedMember
    BY <1>5, <1>a DEF Task
  <2>4. TasksStep
    BY <1>5, <1>a, <2>1, <2>2, <2>3 DEF updateDescTask, TasksStep
  <2> QED
    BY <1>5, <2>4 DEF updateDescTask, TypeOK
<1>6. ASSUME NEW i \in DOMAIN tasks, NEW m \in Accounts, updateMemberTask(i, m)
      PROVE  /\ TasksStep
             /\ taskCount' \in Nat /\ onGoingTaskCount' \in [Accounts -> Int]
             /\ session' \subseteq Accounts /\ running' \in BOOLEAN
  <2>1. [tasks[i] EXCEPT !.assignedMember = m] \in Task
    BY <1>6, <1>a DEF Task
  <2>2. tasks' = [tasks EXCEPT ![i] = [tasks[i] EXCEPT !.assignedMember = m]]
    BY <1>6 DEF updateMemberTask
  <2>3. [tasks[i] EXCEPT !.assignedMember = m].id = tasks[i].id
    BY <1>6, <1>a DEF Task
  <2>4. TasksStep
    BY <1>6, <1>a, <2>1, <2>2, <2>3 DEF updateMemberTask, TasksStep
  <2> QED
    BY <1>6, <2>4 DEF updateMemberTask, TypeOK
<1>7. ASSUME NEW i \in DOMAIN tasks, deleteTask(i)
      PROVE  /\ TasksStep
             /\ taskCount' \in Nat /\ onGoingTaskCount' \in [Accounts -> Int]
             /\ session' \subseteq Accounts /\ running' \in BOOLEAN
  BY <1>7, <1>a DEF deleteTask, TypeOK, TasksStep
<1>8. ASSUME NEW i \in DOMAIN tasks, NEW status \in Statuses, updateTaskStatus(i, status)
      PROVE  /\ TasksStep
             /\ taskCount' \in Nat /\ onGoingTaskCount' \in [Accounts -> Int]
             /\ session' \subseteq Accounts /\ running' \in BOOLEAN
  <2>1. [tasks[i] EXCEPT !.status = status] \in Task
    BY <1>8, <1>a DEF Task
  <2>2. tasks' = [tasks EXCEPT ![i] = [tasks[i] EXCEPT !.status = status]]
    BY <1>8 DEF updateTaskStatus
  <2>3. /\ [tasks[i] EXCEPT !.status = status].id = tasks[i].id
        /\ [tasks[i] EXCEPT !.status = status].assignedMember = tasks[i].assignedMember
    BY <1>8, <1>a DEF Task
  <2>4. TasksStep
    BY <1>8, <1>a, <2>1, <2>2, <2>3 DEF updateTaskStatus, TasksStep
  <2>5. onGoingTaskCount' \in [Accounts -> Int]
    BY <1>8 DEF updateTaskStatus, TypeOK
  <2> QED
    BY <1>8, <2>4, <2>5 DEF updateTaskStatus, TypeOK
<1> QED
  BY <1>1, <1>2, <1>3, <1>4, <1>5, <1>6, <1>7, <1>8 DEF Next

-----------------------------------------------------------------------------
\* The inductive invariant: types and ids together, for an id is only fresh
\* because no task passed the counter, which compares numbers.
BoardInv == TypeOK /\ IdsAscending

LEMMA BoardInductive ==
  ASSUME BoardInv, [Next]_vars
  PROVE  BoardInv'
<1> USE DEF BoardInv
<1>a. /\ tasks \in Seq(Task) /\ taskCount \in Nat
      /\ DOMAIN tasks = 1 .. Len(tasks) /\ Len(tasks) \in Nat
      /\ \A i \in 1 .. Len(tasks) : tasks[i] \in Task /\ tasks[i].id \in Nat \ {0}
  <2>1. tasks \in Seq(Task) /\ taskCount \in Nat /\ Len(tasks) \in Nat
    BY LenProperties DEF TypeOK
  <2>2. \A i \in 1 .. Len(tasks) : tasks[i] \in Task
    BY <2>1, ElementOfSeq
  <2>3. DOMAIN tasks = 1 .. Len(tasks)
    BY <2>1, LenProperties
  <2> QED
    BY <2>1, <2>2, <2>3 DEF Task
<1>b. \A i, j \in 1 .. Len(tasks) : i < j => tasks[i].id < tasks[j].id
  BY <1>a DEF IdsAscending
<1>c. \A i \in 1 .. Len(tasks) : tasks[i].id <= taskCount
  BY <1>a DEF IdsAscending
<1>s. TasksStep /\ (tasks' \in Seq(Task) => TypeOK')
  BY StepsOfTasks DEF TypeOK
<1>1. CASE UNCHANGED <<tasks, taskCount>>
  BY <1>1, <1>a, <1>s DEF IdsAscending
<1>2. ASSUME NEW t \in Task, t.id = taskCount', taskCount' = taskCount + 1,
             tasks' = Append(tasks, t)
      PROVE  BoardInv'
  <2>1. /\ tasks' \in Seq(Task) /\ DOMAIN tasks' = 1 .. Len(tasks) + 1
        /\ tasks'[Len(tasks) + 1] = t
        /\ \A j \in 1 .. Len(tasks) : tasks'[j] = tasks[j]
    BY <1>a, <1>2, AppendProperties
  <2>2. ASSUME NEW i \in 1 .. Len(tasks) + 1, NEW j \in 1 .. Len(tasks) + 1, i < j
        PROVE  tasks'[i].id < tasks'[j].id
    <3>1. i \in 1 .. Len(tasks) /\ tasks[i].id <= taskCount /\ tasks[i].id \in Nat
      BY <1>a, <1>c, <2>2
    <3>2. CASE j = Len(tasks) + 1
      BY <1>a, <1>2, <2>1, <3>1, <3>2
    <3>3. CASE j \in 1 .. Len(tasks)
      BY <1>b, <2>1, <2>2, <3>1, <3>3
    <3> QED
      BY <1>a, <3>2, <3>3
  <2>3. ASSUME NEW i \in 1 .. Len(tasks) + 1
        PROVE  tasks'[i].id <= taskCount'
    <3>1. CASE i = Len(tasks) + 1
      BY <1>a, <1>2, <2>1, <3>1
    <3>2. CASE i \in 1 .. Len(tasks)
      BY <1>a, <1>c, <1>2, <2>1, <3>2
    <3> QED
      BY <1>a, <3>1, <3>2
  <2> QED
    BY <1>s, <2>1, <2>2, <2>3 DEF IdsAscending
<1>3. ASSUME NEW i \in 1 .. Len(tasks), NEW t \in Task, t.id = tasks[i].id,
             tasks' = [tasks EXCEPT ![i] = t], UNCHANGED taskCount
      PROVE  BoardInv'
  <2>1. tasks' \in Seq(Task)
    BY <1>a, <1>3, ReplaceFacts
  <2>2. DOMAIN tasks' = 1 .. Len(tasks) /\ \A j \in 1 .. Len(tasks) : tasks'[j].id = tasks[j].id
    BY <1>a, <1>3
  <2> QED
    BY <1>s, <1>b, <1>c, <1>3, <2>1, <2>2 DEF IdsAscending
<1>4. ASSUME NEW i \in 1 .. Len(tasks), tasks' = RemoveAt(tasks, i), UNCHANGED taskCount
      PROVE  BoardInv'
  <2>1. /\ tasks' \in Seq(Task) /\ Len(tasks') = Len(tasks) - 1
        /\ \A j \in 1 .. Len(tasks) - 1 :
             tasks'[j] = IF j < i THEN tasks[j] ELSE tasks[j + 1]
    BY <1>a, <1>4, RemoveAtFacts
  <2>2. DOMAIN tasks' = 1 .. Len(tasks) - 1
    BY <2>1, LenProperties
  <2>3. \A j, k \in 1 .. Len(tasks) - 1 : j < k => tasks'[j].id < tasks'[k].id
    BY <1>a, <1>b, <2>1
  <2>4. \A j \in 1 .. Len(tasks) - 1 : tasks'[j].id <= taskCount'
    BY <1>a, <1>c, <1>4, <2>1
  <2> QED
    BY <1>s, <2>1, <2>2, <2>3, <2>4 DEF IdsAscending
<1> QED
  BY <1>s, <1>1, <1>2, <1>3, <1>4 DEF TasksStep

LEMMA BoardStarts ==
  ASSUME Init
  PROVE  BoardInv
<1>1. tasks = <<>> /\ tasks \in Seq(Task) /\ DOMAIN tasks = {}
  BY EmptySeq DEF Init
<1> QED
  BY <1>1 DEF Init, BoardInv, TypeOK, IdsAscending

\* Whatever the accounts and however many tasks are created, every variable
\* keeps its type.
THEOREM BoardTypes == Spec => []TypeOK
<1>1. BoardInv => TypeOK
  BY DEF BoardInv
<1> QED
  BY <1>1, BoardStarts, BoardInductive, PTL DEF Spec

\* firstIndex(where: { $0.id == taskID }) finds the only task with that id, and
\* generateTaskId never returns an id again, deletions or not.
THEOREM IdsAscendAlways == Spec => []IdsAscending
<1>1. BoardInv => IdsAscending
  BY DEF BoardInv
<1> QED
  BY <1>1, BoardStarts, BoardInductive, PTL DEF Spec

-----------------------------------------------------------------------------
\* One step keeps a started task: only a removal takes a task away, and it
\* removes no other one; a replacement by id changes no other one.
LEMMA StartedStep ==
  ASSUME BoardInv, [Next]_vars, NEW i \in DOMAIN tasks
  PROVE  LET kept == {j \in DOMAIN tasks' : tasks'[j].id = tasks[i].id}
         IN  /\ tasks[i].status = "doing" => kept # {}
             /\ tasks[i].status # "todo" =>
                  \A j \in kept : tasks'[j].assignedMember = tasks[i].assignedMember
<1> DEFINE kept == {j \in DOMAIN tasks' : tasks'[j].id = tasks[i].id}
<1> DEFINE Goal == /\ tasks[i].status = "doing" => kept # {}
                   /\ tasks[i].status # "todo" =>
                        \A j \in kept : tasks'[j].assignedMember = tasks[i].assignedMember
<1> SUFFICES Goal
  OBVIOUS
<1>a. /\ tasks \in Seq(Task) /\ taskCount \in Nat
      /\ DOMAIN tasks = 1 .. Len(tasks) /\ Len(tasks) \in Nat
  BY LenProperties DEF BoardInv, TypeOK
<1>b. \A k \in 1 .. Len(tasks) : tasks[k] \in Task
  BY <1>a, ElementOfSeq
<1>c. \A k \in 1 .. Len(tasks) : tasks[k].id \in Nat /\ tasks[k].id <= taskCount
  BY <1>a, <1>b DEF Task, BoardInv, IdsAscending
<1>d. \A j, k \in 1 .. Len(tasks) : tasks[j].id = tasks[k].id => j = k
  <2>1. \A j, k \in 1 .. Len(tasks) : j < k => tasks[j].id < tasks[k].id
    BY <1>a DEF BoardInv, IdsAscending
  <2> QED
    BY <1>a, <1>c, <2>1
<1>s. TasksStep
  BY StepsOfTasks DEF BoardInv
<1>1. CASE UNCHANGED <<tasks, taskCount>>
  BY <1>1, <1>a, <1>d
<1>2. ASSUME NEW t \in Task, t.id = taskCount', taskCount' = taskCount + 1,
             tasks' = Append(tasks, t)
      PROVE  Goal
  <2>1. /\ DOMAIN tasks' = 1 .. Len(tasks) + 1
        /\ tasks'[Len(tasks) + 1] = t
        /\ \A j \in 1 .. Len(tasks) : tasks'[j] = tasks[j]
    BY <1>a, <1>2, AppendProperties
  <2>2. i \in 1 .. Len(tasks) /\ i \in DOMAIN tasks' /\ tasks'[i] = tasks[i]
    BY <1>a, <2>1
  <2>3. t.id # tasks[i].id
    BY <1>a, <1>c, <1>2, <2>2
  <2>4. \A j \in kept : j = i
    BY <1>a, <1>d, <2>1, <2>2, <2>3
  <2> QED
    BY <2>2, <2>4
<1>3. ASSUME NEW n \in 1 .. Len(tasks), NEW t \in Task, t.id = tasks[n].id,
             tasks[n].status # "todo" => t.assignedMember = tasks[n].assignedMember,
             tasks' = [tasks EXCEPT ![n] = t]
      PROVE  Goal
  <2>1. DOMAIN tasks' = 1 .. Len(tasks) /\ \A j \in 1 .. Len(tasks) : tasks'[j].id = tasks[j].id
    BY <1>a, <1>3
  <2>2. i \in kept /\ \A j \in kept : j = i
    BY <1>a, <1>d, <2>1
  <2>3. tasks[i].status # "todo" => tasks'[i].assignedMember = tasks[i].assignedMember
    BY <1>a, <1>3
  <2> QED
    BY <2>2, <2>3
<1>4. ASSUME NEW n \in 1 .. Len(tasks), tasks[n].status # "doing",
             tasks' = RemoveAt(tasks, n)
      PROVE  Goal
  <2>1. /\ tasks' \in Seq(Task) /\ Len(tasks') = Len(tasks) - 1
        /\ \A j \in 1 .. Len(tasks) - 1 :
             tasks'[j] = IF j < n THEN tasks[j] ELSE tasks[j + 1]
    BY <1>a, <1>4, RemoveAtFacts
  <2>2. DOMAIN tasks' = 1 .. Len(tasks) - 1
    BY <2>1, LenProperties
  <2>3. ASSUME NEW j \in kept
        PROVE  tasks'[j] = tasks[i]
    <3>1. j \in 1 .. Len(tasks) - 1 /\ tasks'[j].id = tasks[i].id
      BY <2>2
    <3>2. PICK k \in 1 .. Len(tasks) : tasks'[j] = tasks[k]
      BY <1>a, <2>1, <3>1
    <3> QED
      BY <1>a, <1>d, <3>1, <3>2
  <2>4. ASSUME tasks[i].status = "doing"
        PROVE  kept # {}
    <3>1. i # n /\ i \in 1 .. Len(tasks)
      BY <1>a, <1>4, <2>4
    <3>2. CASE i < n
      BY <1>a, <2>1, <2>2, <3>1, <3>2
    <3>3. CASE i > n
      <4>1. i - 1 \in 1 .. Len(tasks) - 1 /\ ~(i - 1 < n) /\ i - 1 + 1 = i
        BY <1>a, <3>1, <3>3
      <4>2. tasks'[i - 1] = tasks[i]
        BY <2>1, <4>1
      <4> QED
        BY <2>2, <4>1, <4>2
    <3> QED
      BY <1>a, <3>1, <3>2, <3>3
  <2> QED
    BY <2>3, <2>4
<1> QED
  BY <1>s, <1>1, <1>2, <1>3, <1>4 DEF TasksStep

\* A DOING task is never deleted, and a DOING or DONE task never given to
\* another member, by whatever menu entry about whatever task.
THEOREM StartedTasksStayAlways == Spec => StartedTasksStay
<1>1. BoardInv /\ [Next]_vars =>
        [\A i \in DOMAIN tasks :
           LET kept == {j \in DOMAIN tasks' : tasks'[j].id = tasks[i].id}
           IN  /\ tasks[i].status = "doing" => kept # {}
               /\ tasks[i].status # "todo" =>
                    \A j \in kept : tasks'[j].assignedMember = tasks[i].assignedMember]_vars
  BY StartedStep
<1> QED
  BY <1>1, BoardStarts, BoardInductive, PTL DEF Spec, StartedTasksStay
=============================================================================
