--------------------------- MODULE ClientShutdown ---------------------------
(***************************************************************************)
(* What the threads of an app do to one Firestore instance, down to its    *)
(* end: they enqueue work, ask to clear the persistence, terminate the     *)
(* client and dispose of it, while the worker runs operations that         *)
(* schedule delayed operations and cancel them, also the one that runs.    *)
(* Dispose of api::Firestore holds its mutex while FirestoreClient::Dispose *)
(* enqueues TerminateInternal, waits for that to start and disposes of the *)
(* queue and its executor.                                                 *)
(***************************************************************************)
EXTENDS TaskExecutor

VARIABLE returned   \* history: a Dispose has returned

vars == <<mode, qOwner, apiOwner, executor, task, libdispatch, threads, returned>>

NoTask == [state |-> "none", ref |-> 0, executor |-> FALSE]

\* A call about a task that was not there before begins at label l.
Call(s, t, l) ==
  /\ task[t] = NoTask /\ \A r \in Threads : arg[r] # t
  /\ arg' = [arg EXCEPT ![s] = t]
  /\ Goto(s, l)
  /\ UNCHANGED <<mode, qOwner, executor, task, libdispatch, todo, run, returned>>

\* A call of the API that puts its work on the queue: a write, a listen, ..., or
\* ClearPersistence, which a queue that is restricted admits.
EnqueueWork(s, t) ==
  /\ pc[s] = "idle" /\ t \in Jobs \cup Clears
  /\ Call(s, t, "enqueue") /\ UNCHANGED apiOwner

\* An operation schedules another.
EnqueueAfterDelay(t) ==
  /\ pc[Worker] = "op" /\ t \in Timed
  /\ Call(Worker, t, "enqueue") /\ UNCHANGED apiOwner

\* Terminate: EnsureClientConfigured takes and gives back the mutex first.
TerminateAsync(s, t) ==
  /\ pc[s] = "idle" /\ t \in Terms /\ apiOwner = None
  /\ Call(s, t, "restrict") /\ UNCHANGED apiOwner

\* Dispose of api::Firestore and, in it, of FirestoreClient.
Dispose(s, t) ==
  /\ pc[s] = "idle" /\ t \in Terms /\ apiOwner = None
  /\ Call(s, t, "restrict") /\ apiOwner' = s

\* Mutant: the queue is disposed of without waiting for TerminateInternal.
DoNotWait(s) ==
  /\ pc[s] = "wait"
  /\ Goto(s, "dispose")
  /\ UNCHANGED <<mode, qOwner, apiOwner, executor, task, libdispatch, arg, todo, run, returned>>

\* signal_disposing: TerminateInternal has started.
TerminationStarted(s) ==
  /\ pc[s] = "wait" /\ task[arg[s]].state \in {"kRunning", "kDone"}
  /\ Goto(s, "dispose")
  /\ UNCHANGED <<mode, qOwner, apiOwner, executor, task, libdispatch, arg, todo, run, returned>>

DisposeReturns(s) ==
  /\ pc[s] = "loop" /\ todo[s] = {}
  /\ apiOwner' = None
  /\ returned' = TRUE
  /\ Goto(s, "idle")
  /\ UNCHANGED <<mode, qOwner, executor, task, libdispatch, arg, todo, run>>

Init ==
  /\ mode = "kRunning" /\ qOwner = None /\ apiOwner = None
  /\ tasks = {} /\ schedule = {} /\ disposed = FALSE
  /\ task = [t \in Tasks |-> NoTask]
  /\ fifo = <<>> /\ timers = {}
  /\ pc = [s \in Threads |-> "idle"]
  /\ arg = [s \in Threads |-> None]
  /\ todo = [s \in Threads |-> {}]
  /\ run = None
  /\ returned = FALSE

\* What the app and the operations choose to do.
Calls ==
  \/ \E s \in Apps, t \in Tasks :
       EnqueueWork(s, t) \/ TerminateAsync(s, t) \/ Dispose(s, t)
  \/ \E t \in Timed : EnqueueAfterDelay(t)
  \/ \E t \in Timed : CancelDelayed(t) /\ UNCHANGED returned

\* The next step of a call that thread s is in.
Step(s) ==
  \/ TerminationStarted(s) \/ DisposeReturns(s)
  \/ /\ \/ EnterRestrictedMode(s) \/ Enqueue(s) \/ Insert(s) \/ Dispatch(s)
        \/ DisposeQueue(s) \/ Swap(s) \/ \E t \in Tasks : CancelNext(s, t)
        \/ TaskCancel(s) \/ TaskAwait(s) \/ TaskRelease(s)
     /\ UNCHANGED returned

\* The next step of the worker in ExecuteAndRelease.
Work ==
  /\ \/ TaskStart \/ OperationReturns \/ TaskFinish \/ OnCompletion \/ TaskDrop \/ Invoke
  /\ UNCHANGED returned

\* TerminateInternal cancels the timers one after the other.
ShutDownTimers ==
  run \in Terms /\ (\E t \in Owned : CancelDelayed(t)) /\ UNCHANGED returned

Fire(t) == TimerFires(t) /\ UNCHANGED returned

Next ==
  \/ Calls
  \/ \E s \in Threads : Step(s)
  \/ Work
  \/ \E t \in Timed : Fire(t)

Spec == Init /\ [][Next]_vars

\* Every thread runs, an operation returns, and the timers of libdispatch fire.
FairSpec ==
  /\ Spec
  /\ \A s \in Threads : WF_vars(Step(s))
  /\ WF_vars(Work) /\ WF_vars(ShutDownTimers)
  /\ \A t \in Timed : WF_vars(Fire(t))

-----------------------------------------------------------------------------
(* Properties.                                                              *)

Labels == {"idle", "restrict", "enqueue", "insert", "dispatch", "wait", "dispose", "swap",
           "loop", "cancel", "await", "release", "start", "op", "finish", "complete", "drop"}

\* The labels at which the worker is inside an operation.
Inside == {"op", "enqueue", "insert", "dispatch", "cancel", "release"}

\* Type invariant.
TypeOK ==
  /\ mode \in {"kRunning", "kRestricted", "kDisposed"}
  /\ qOwner \in Threads \cup {None} /\ apiOwner \in Apps \cup {None}
  /\ tasks \subseteq Tasks /\ schedule \subseteq tasks \cap Timed
  /\ disposed \in BOOLEAN /\ returned \in BOOLEAN
  /\ task \in [Tasks -> [state : {"none", "refused", "kInitial", "kRunning", "kCancelled", "kDone"},
                         ref : 0 .. 3, executor : BOOLEAN]]
  /\ fifo \in Seq(Tasks) /\ timers \subseteq Timed
  /\ pc \in [Threads -> Labels] /\ arg \in [Threads -> Tasks \cup {None}]
  /\ todo \in [Threads -> SUBSET Tasks] /\ run \in Tasks \cup {None}

One(b) == IF b THEN 1 ELSE 0

Owners(t) ==
  One(t \in tasks) + One(t \in timers) + One(\E i \in DOMAIN fifo : fifo[i] = t)
  + One(run = t)
  + Cardinality({s \in Threads : t \in todo[s]})
  + Cardinality({s \in Threads : arg[s] = t /\ pc[s] \in {"cancel", "await", "release"}})

\* The reference count of a task is the number of those that own it: the executor,
\* libdispatch, the worker that runs it, a Cancel and a Dispose under way.  A task
\* about to be retained for libdispatch has not been deleted by a Dispose that came
\* in between, although its caller does not own it until then.
RefsAreOwned ==
  /\ \A t \in Tasks : task[t].ref = Owners(t)
  /\ \A s \in Threads : pc[s] = "dispatch" => task[arg[s]].ref > 0

\* "Task guarantees that by the time Cancel has returned, the task will make no
\* callbacks to the owning executor", and it has ended or will never run, unless
\* it is what the calling thread runs.
CancelIsFinal ==
  \A s \in Threads : pc[s] = "release" =>
    LET t == arg[s] IN
    /\ ~TaskIsLocked(t)
    /\ task[t].state \in {"kCancelled", "kDone"} \/ (s = Worker /\ run = t /\ ~task[t].executor)

\* Once Dispose has returned, no operation runs and none reports to the executor,
\* although one that cancelled itself is not among those it waits for: the client
\* waits for TerminateInternal first, which leaves none behind that could.
NothingRunsAfterDispose == returned => pc[Worker] \notin Inside \cup {"complete"}

\* "It's possible that this can race with a call to Firestore::ClearPersistence
\* ..., but that's OK": Dispose does not wait, its mutex held, for what is queued
\* behind an operation that waits for that mutex, nor for that operation.
RaceWithClearIsOK ==
  ~ (/\ pc[Worker] = "op" /\ run \in Clears
     /\ \E s \in Apps :
          apiOwner = s /\ (pc[s] = "wait" \/ (pc[s] = "await" /\ arg[s] = run)))

\* Unless that happens, every call ends, also one made by an operation, since nobody
\* waits for himself; and libdispatch and the executor let go of every task.
ComesToRest ==
  []RaceWithClearIsOK =>
    <>[](/\ \A s \in Threads : pc[s] = "idle"
         /\ \A t \in Tasks : task[t].ref = 0)
=============================================================================
