---------------------------- MODULE TaskExecutor ----------------------------
(***************************************************************************)
(* How the Firestore client runs its work: Task, a reference-counted       *)
(* operation, ExecutorLibdispatch, which owns the tasks that are pending,  *)
(* and AsyncQueue, which lets a call through or not.  libdispatch cannot   *)
(* take back what it was given, so a task may outlive its executor.        *)
(* A step is what runs under one mutex, or between two: the executor's     *)
(* mutex is held for one step, the queue's over several, and a task's over *)
(* several only while it finishes.  ClientShutdown composes the steps.     *)
(* External: libdispatch, a serial queue and its timers.                   *)
(***************************************************************************)
EXTENDS Integers, FiniteSets, Sequences

CONSTANTS
  Worker,   \* the thread libdispatch runs the serial queue on
  Apps,     \* the threads that call the API
  Jobs,     \* tasks the API enqueues
  Clears,   \* tasks of ClearPersistence
  Terms,    \* tasks that terminate the client
  Timed,    \* tasks with a delay, scheduled by an operation that runs
  Owned,    \* those of them (the timers of the streams, of the online state and of
            \*   the garbage collector; not the retries of a transaction) that
            \*   TerminateInternal cancels and that may cancel themselves
  None

ASSUME OwnedAssumption == Owned \subseteq Timed /\ Worker \notin Apps

Threads == Apps \cup {Worker}
Tasks == Jobs \cup Clears \cup Terms \cup Timed

\* A task is of one kind.
ASSUME KindsAssumption ==
  /\ None \notin Threads \cup Tasks
  /\ (Jobs \cup Clears) \cap (Terms \cup Timed) = {} /\ Terms \cap Timed = {}

VARIABLES
  mode,      \* mode_ of the AsyncQueue
  qOwner,    \* who holds mutex_ of the AsyncQueue
  apiOwner,  \* who holds mutex_ of api::Firestore, for as long as its Dispose
  tasks,     \* tasks_ of the executor
  schedule,  \* schedule_: the tasks whose id DelayedOperation can still cancel
  disposed,  \* disposed_
  task,      \* state_, ref_count_ and whether executor_ is set, of each task
  fifo,      \* external: what libdispatch has to run, in order
  timers,    \* external: what libdispatch will have to run
  pc,        \* where each thread is
  arg,       \* the task its call is about
  todo,      \* local_tasks of Dispose: those it has still to cancel
  run        \* the task the worker runs

executor == <<tasks, schedule, disposed>>
libdispatch == <<fifo, timers>>
threads == <<pc, arg, todo, run>>

Base(s) == IF s = Worker THEN "op" ELSE "idle"

\* The worker holds the mutex of the task it runs while it reports completion.
TaskIsLocked(t) == pc[Worker] = "complete" /\ run = t

Goto(s, l) == pc' = [pc EXCEPT ![s] = l]

-----------------------------------------------------------------------------
(* AsyncQueue.                                                              *)

EnterRestrictedMode(s) ==
  /\ pc[s] = "restrict" /\ qOwner = None
  /\ mode' = IF mode = "kDisposed" THEN mode ELSE "kRestricted"
  /\ Goto(s, "enqueue")
  /\ UNCHANGED <<qOwner, apiOwner, executor, task, libdispatch, arg, todo, run>>

\* EnqueueRelaxed and EnqueueAfterDelay need kRunning, EnqueueEvenWhileRestricted
\* anything but kDisposed.
Admits(t) == mode = "kRunning" \/ (t \in Clears \cup Terms /\ mode = "kRestricted")

\* The queue's mutex is taken and, if the mode admits the task, kept until the
\* executor returns.  Dispose goes on without a task that was refused.
Enqueue(s) ==
  /\ pc[s] = "enqueue" /\ qOwner = None
  /\ qOwner' = IF Admits(arg[s]) THEN s ELSE None
  /\ Goto(s, IF Admits(arg[s]) THEN "insert"
             ELSE IF apiOwner = s THEN "dispose" ELSE Base(s))
  /\ task' = IF Admits(arg[s]) THEN task ELSE [task EXCEPT ![arg[s]].state = "refused"]
  /\ UNCHANGED <<mode, apiOwner, executor, libdispatch, arg, todo, run>>

DisposeQueue(s) ==
  /\ pc[s] = "dispose" /\ qOwner = None
  /\ mode' = "kDisposed"
  /\ Goto(s, "swap")
  /\ UNCHANGED <<qOwner, apiOwner, executor, task, libdispatch, arg, todo, run>>

-----------------------------------------------------------------------------
(* ExecutorLibdispatch.                                                     *)

\* Execute and Schedule, under the mutex: the task is created and owned by the
\* executor, unless that is disposed.
Insert(s) ==
  /\ pc[s] = "insert"
  /\ tasks' = IF disposed THEN tasks ELSE tasks \cup {arg[s]}
  /\ schedule' = IF disposed THEN schedule ELSE schedule \cup ({arg[s]} \cap Timed)
  /\ task' = IF disposed THEN task
             ELSE [task EXCEPT ![arg[s]] = [state |-> "kInitial", ref |-> 1, executor |-> TRUE]]
  /\ qOwner' = IF disposed THEN None ELSE qOwner
  /\ Goto(s, IF disposed THEN Base(s) ELSE "dispatch")
  /\ UNCHANGED <<mode, apiOwner, disposed, libdispatch, arg, todo, run>>

\* The rest of them, after the mutex: Retain for libdispatch, and dispatch.  Then
\* AsyncQueue unlocks.  Dispose waits for its task to start.
Dispatch(s) ==
  /\ pc[s] = "dispatch"
  /\ task' = [task EXCEPT ![arg[s]].ref = @ + 1]
  /\ IF arg[s] \in Timed
     THEN timers' = timers \cup {arg[s]} /\ fifo' = fifo
     ELSE fifo' = Append(fifo, arg[s]) /\ timers' = timers
  /\ qOwner' = None
  /\ Goto(s, IF apiOwner = s THEN "wait" ELSE Base(s))
  /\ UNCHANGED <<mode, apiOwner, executor, arg, todo, run>>

\* Mutant: the schedule is left as it is.
SwapTasksOnly(s) ==
  /\ pc[s] = "swap"
  /\ disposed' = TRUE
  /\ todo' = [todo EXCEPT ![s] = tasks]
  /\ tasks' = {}
  /\ Goto(s, "loop")
  /\ UNCHANGED <<mode, qOwner, apiOwner, schedule, task, libdispatch, arg, run>>

\* Dispose, under the mutex: the tasks go from the executor to the caller.
Swap(s) ==
  /\ pc[s] = "swap"
  /\ disposed' = TRUE
  /\ todo' = [todo EXCEPT ![s] = tasks]
  /\ tasks' = {} /\ schedule' = {}
  /\ Goto(s, "loop")
  /\ UNCHANGED <<mode, qOwner, apiOwner, task, libdispatch, arg, run>>

\* ... and are cancelled and released one by one.
CancelNext(s, t) ==
  /\ pc[s] = "loop" /\ t \in todo[s]
  /\ arg' = [arg EXCEPT ![s] = t]
  /\ todo' = [todo EXCEPT ![s] = @ \ {t}]
  /\ Goto(s, "cancel")
  /\ UNCHANGED <<mode, qOwner, apiOwner, executor, task, libdispatch, run>>

\* Cancel of a DelayedOperation, under the mutex: what the executor owned is now
\* owned by the call.  An id that is gone from the schedule changes nothing.
CancelDelayed(t) ==
  /\ pc[Worker] = "op" /\ t \in schedule
  /\ t # run \/ t \in Owned
  /\ tasks' = tasks \ {t} /\ schedule' = schedule \ {t}
  /\ arg' = [arg EXCEPT ![Worker] = t]
  /\ Goto(Worker, "cancel")
  /\ UNCHANGED <<mode, qOwner, apiOwner, disposed, task, libdispatch, todo, run>>

-----------------------------------------------------------------------------
(* Task.                                                                    *)

\* Mutant: the thread that runs the task waits for it, too.
TaskCancelAlwaysWaits(s) ==
  LET t == arg[s] IN
  /\ pc[s] = "cancel" /\ ~TaskIsLocked(t)
  /\ task' = [task EXCEPT ![t].state = IF @ = "kInitial" THEN "kCancelled" ELSE @,
                          ![t].executor = @ /\ task[t].state = "kDone"]
  /\ Goto(s, IF task[t].state = "kRunning" THEN "await" ELSE "release")
  /\ UNCHANGED <<mode, qOwner, apiOwner, executor, libdispatch, arg, todo, run>>

\* Mutant: a task that runs is not waited for.
TaskCancelNeverWaits(s) ==
  LET t == arg[s] IN
  /\ pc[s] = "cancel" /\ ~TaskIsLocked(t)
  /\ task' = [task EXCEPT ![t].state = IF @ = "kInitial" THEN "kCancelled" ELSE @,
                          ![t].executor = @ /\ task[t].state = "kDone"]
  /\ Goto(s, "release")
  /\ UNCHANGED <<mode, qOwner, apiOwner, executor, libdispatch, arg, todo, run>>

\* Cancel: a task that has not started never will, one that runs will not report
\* to the executor, and is waited for unless this very thread runs it.
TaskCancel(s) ==
  LET t == arg[s] IN
  /\ pc[s] = "cancel" /\ ~TaskIsLocked(t)
  /\ task' = [task EXCEPT ![t].state = IF @ = "kInitial" THEN "kCancelled" ELSE @,
                          ![t].executor = @ /\ task[t].state = "kDone"]
  /\ Goto(s, IF task[t].state = "kRunning" /\ s # Worker THEN "await" ELSE "release")
  /\ UNCHANGED <<mode, qOwner, apiOwner, executor, libdispatch, arg, todo, run>>

\* AwaitLocked.
TaskAwait(s) ==
  /\ pc[s] = "await" /\ ~TaskIsLocked(arg[s])
  /\ task[arg[s]].state \in {"kCancelled", "kDone"}
  /\ Goto(s, "release")
  /\ UNCHANGED <<mode, qOwner, apiOwner, executor, task, libdispatch, arg, todo, run>>

\* The caller of Cancel releases what it owns.
TaskRelease(s) ==
  /\ pc[s] = "release"
  /\ task' = [task EXCEPT ![arg[s]].ref = @ - 1]
  /\ Goto(s, IF apiOwner = s THEN "loop" ELSE Base(s))
  /\ UNCHANGED <<mode, qOwner, apiOwner, executor, libdispatch, arg, todo, run>>

\* ExecuteAndRelease, in five steps.  First the state decides.
TaskStart ==
  /\ pc[Worker] = "start"
  /\ IF task[run].state = "kInitial"
     THEN task' = [task EXCEPT ![run].state = "kRunning"] /\ Goto(Worker, "op")
     ELSE task' = task /\ Goto(Worker, "drop")
  /\ UNCHANGED <<mode, qOwner, apiOwner, executor, libdispatch, arg, todo, run>>

\* The operation of ClearPersistence takes and gives back mutex_ of api::Firestore;
\* TerminateInternal has shut down what owns a timer.
OperationReturns ==
  /\ pc[Worker] = "op"
  /\ run \in Clears => apiOwner = None
  /\ run \in Terms => schedule \cap Owned = {}
  /\ Goto(Worker, "finish")
  /\ UNCHANGED <<mode, qOwner, apiOwner, executor, task, libdispatch, arg, todo, run>>

TaskFinish ==
  /\ pc[Worker] = "finish"
  /\ task' = [task EXCEPT ![run].state = "kDone"]
  /\ Goto(Worker, IF task[run].executor THEN "complete" ELSE "drop")
  /\ UNCHANGED <<mode, qOwner, apiOwner, executor, libdispatch, arg, todo, run>>

\* Mutant: the executor releases the task although it was taken from it.
CompletionReleasesAlways ==
  /\ pc[Worker] = "complete"
  /\ tasks' = tasks \ {run}
  /\ schedule' = schedule \ {run}
  /\ task' = [task EXCEPT ![run].ref = @ - 1]
  /\ Goto(Worker, "drop")
  /\ UNCHANGED <<mode, qOwner, apiOwner, disposed, libdispatch, arg, todo, run>>

\* OnCompletion: what the executor still owns it releases.
OnCompletion ==
  /\ pc[Worker] = "complete"
  /\ tasks' = tasks \ {run}
  /\ schedule' = IF run \in tasks THEN schedule \ {run} ELSE schedule
  /\ task' = [task EXCEPT ![run].ref = IF run \in tasks THEN @ - 1 ELSE @]
  /\ Goto(Worker, "drop")
  /\ UNCHANGED <<mode, qOwner, apiOwner, disposed, libdispatch, arg, todo, run>>

TaskDrop ==
  /\ pc[Worker] = "drop"
  /\ task' = [task EXCEPT ![run].ref = @ - 1]
  /\ run' = None
  /\ Goto(Worker, "idle")
  /\ UNCHANGED <<mode, qOwner, apiOwner, executor, libdispatch, arg, todo>>

-----------------------------------------------------------------------------
(* External: libdispatch.                                                   *)

TimerFires(t) ==
  /\ t \in timers
  /\ timers' = timers \ {t}
  /\ fifo' = Append(fifo, t)
  /\ UNCHANGED <<mode, qOwner, apiOwner, executor, task, threads>>

Invoke ==
  /\ pc[Worker] = "idle" /\ fifo # <<>>
  /\ run' = Head(fifo) /\ fifo' = Tail(fifo)
  /\ Goto(Worker, "start")
  /\ UNCHANGED <<mode, qOwner, apiOwner, executor, task, timers, arg, todo>>
=============================================================================
