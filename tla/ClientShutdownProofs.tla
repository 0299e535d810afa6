------------------------- MODULE ClientShutdownProofs -------------------------
(***************************************************************************)
(* Theorems about the executor and the shutdown of a client, for any       *)
(* number of threads and tasks.  That a reference count is right needs     *)
(* that a task has one owner at most on each side of libdispatch; that     *)
(* nothing runs after Dispose needs that a task that runs is owned by some *)
(* thread that waits for it, or cancelled itself before any termination    *)
(* had started.  Both rest on who holds which mutex in which mode.         *)
(***************************************************************************)
EXTENDS ClientShutdown, FiniteSetTheorems, TLAPS

-----------------------------------------------------------------------------
(* The inductive invariant, in six parts.                                   *)

TaskRecords ==
  [state : {"none", "refused", "kInitial", "kRunning", "kCancelled", "kDone"},
   ref : Int, executor : BOOLEAN]

Types ==
  /\ mode \in {"kRunning", "kRestricted", "kDisposed"}
  /\ qOwner \in Threads \cup {None} /\ apiOwner \in Apps \cup {None}
  /\ tasks \subseteq Tasks /\ schedule \subseteq tasks \cap Timed
  /\ disposed \in BOOLEAN /\ returned \in BOOLEAN
  /\ task \in [Tasks -> TaskRecords]
  /\ fifo \in Seq(Tasks) /\ timers \subseteq Timed
  /\ pc \in [Threads -> Labels] /\ arg \in [Threads -> Tasks \cup {None}]
  /\ todo \in [Threads -> SUBSET Tasks] /\ run \in Tasks \cup {None}

\* Where a thread is in a call that adds a task, that cancels one, and in Dispose.
Adding == {"restrict", "enqueue", "insert", "dispatch"}
Cancelling == {"cancel", "await", "release"}
Late == {"wait", "dispose", "swap", "loop"} \cup Cancelling

\* Where the worker is when the operation runs, also inside a call it makes.
Running == Inside \cup {"finish"}

Cancels(s, t) == arg[s] = t /\ pc[s] \in Cancelling
Started == \E x \in Terms : task[x].state \in {"kRunning", "kDone"}

\* Which labels there are, who holds the mutexes there, and what that says of mode_.
Places ==
  /\ pc[Worker] \in {"idle", "start", "complete", "drop"} \cup (Running \ {"await"})
  /\ \A s \in Apps : pc[s] \in {"idle"} \cup Adding \cup Late
  /\ \A s \in Threads : pc[s] \in {"insert", "dispatch"} <=> qOwner = s
  /\ \A s \in Threads : pc[s] \in {"insert", "dispatch"} => mode # "kDisposed"
  /\ pc[Worker] \in {"insert", "dispatch"} => mode = "kRunning"
  /\ \A s \in Apps : pc[s] \in Late => apiOwner = s
  /\ \A s \in Apps : apiOwner = s => pc[s] # "idle"
  /\ \A s \in Apps : pc[s] \in {"swap", "loop"} \cup Cancelling => mode = "kDisposed"
  /\ \A s \in Apps : pc[s] \in {"loop"} \cup Cancelling => disposed
  /\ disposed => mode = "kDisposed" /\ tasks = {}
  /\ todo[Worker] = {} /\ \A s \in Apps : todo[s] # {} => pc[s] \in {"loop"} \cup Cancelling
  /\ run = None <=> pc[Worker] = "idle"

\* What a call is about.
Args ==
  /\ \A s \in Threads : pc[s] \in Adding =>
       arg[s] \in Tasks /\ \A r \in Threads : r # s => arg[r] # arg[s]
  /\ \A s \in Apps : pc[s] \in Adding => arg[s] \notin Timed
  /\ pc[Worker] \in Adding => arg[Worker] \in Timed
  /\ \A s \in Threads : pc[s] \in {"restrict", "enqueue", "insert"} => task[arg[s]] = NoTask
  /\ \A s \in Threads : pc[s] = "dispatch" =>
       arg[s] \in tasks /\ task[arg[s]].state = "kInitial"
  /\ \A s \in Apps : apiOwner = s /\ pc[s] \in Adding \cup {"wait"} => arg[s] \in Terms
  /\ \A s \in Apps : pc[s] \in {"enqueue", "insert"} /\ arg[s] \in Terms => mode # "kRunning"
  /\ \A s \in Threads : pc[s] \in Cancelling => arg[s] \in Tasks

\* libdispatch owns a task in one place, and so does the executor or who took the
\* task from it; a task that is about to be handed over is owned by the executor only.
Lib(t) == t \in timers \/ (\E i \in DOMAIN fifo : fifo[i] = t) \/ run = t
Ex(t) == t \in tasks \/ \E s \in Threads : t \in todo[s] \/ Cancels(s, t)

\* The worker, the queue and the timers of libdispatch have no task in common.
Apart ==
  /\ \A i, j \in DOMAIN fifo : fifo[i] = fifo[j] => i = j
  /\ \A i \in DOMAIN fifo : fifo[i] \notin timers /\ fifo[i] # run
  /\ run \notin timers

\* Nor have the executor and the calls that took tasks from it.
OneOwner ==
  /\ \A s \in Threads : \A t \in Tasks : t \in todo[s] \/ Cancels(s, t) => t \notin tasks
  /\ \A s, r \in Threads : \A t \in Tasks : t \in todo[s] => ~Cancels(r, t)
  /\ \A s, r \in Threads : \A t \in Tasks : t \in todo[s] /\ t \in todo[r] => s = r
  /\ \A s, r \in Threads : \A t \in Tasks : Cancels(s, t) /\ Cancels(r, t) => s = r

NotYet == \A s \in Threads : pc[s] = "dispatch" => ~Lib(arg[s])

Counted ==
  /\ \A t \in Tasks : task[t].state \in {"none", "refused"} => ~Lib(t) /\ ~Ex(t)
  /\ \A t \in Tasks : task[t].ref = One(Lib(t)) + One(Ex(t))

Owns == Apart /\ OneOwner /\ NotYet /\ Counted

\* How far a task is: one runs at most, one that waits to run has an owner who can
\* still prevent it, and one that runs has one, too, unless it has cancelled itself,
\* which none does once a termination has started.
Waits(t) ==
  t \in tasks \/ \E s \in Threads : t \in todo[s] \/ (arg[s] = t /\ pc[s] = "cancel")

OneRuns ==
  /\ \A t \in Tasks : task[t].state = "kRunning" => run = t /\ pc[Worker] \in Running
  /\ pc[Worker] \in Running => task[run].state = "kRunning"
  /\ pc[Worker] = "complete" =>
       task[run].state = "kDone" /\ task[run].executor /\ Waits(run)

Final == CancelIsFinal /\ \A s \in Threads : pc[s] = "await" => ~task[arg[s]].executor

Preventable == \A t \in Tasks : task[t].state = "kInitial" => Waits(t)

Watched ==
  /\ pc[Worker] \in Running => Ex(run) \/ (~task[run].executor /\ ~Started)
  /\ pc[Worker] \in Cancelling /\ arg[Worker] = run => ~Started

Runs == OneRuns /\ Final /\ Preventable /\ Watched

Ends ==
  /\ \A x \in Terms : task[x].state \notin {"none", "refused"} => mode # "kRunning"
  /\ (\E x \in Terms : task[x].state = "kDone") \/ (pc[Worker] = "finish" /\ run \in Terms)
       => schedule \cap Owned = {}
  /\ mode = "kDisposed" \/ (\E s \in Apps : pc[s] = "dispose") => Started
  /\ returned => disposed /\ \A s \in Apps : todo[s] = {} /\ pc[s] \notin Cancelling

IInv == Types /\ Places /\ Args /\ Owns /\ Runs /\ Ends

USE OwnedAssumption, KindsAssumption
USE DEF Threads, Tasks, Goto, Base, executor, libdispatch, threads,
        Labels, TaskRecords, Inside, Running, Adding, Cancelling, Late

\* What a queue holds after a task is put at its end and after the first is taken.
LEMMA AppendHolds ==
  ASSUME NEW q \in Seq(Tasks), NEW e \in Tasks
  PROVE  /\ Append(q, e) \in Seq(Tasks)
         /\ \A x : (\E i \in DOMAIN Append(q, e) : Append(q, e)[i] = x)
                   <=> (\E i \in DOMAIN q : q[i] = x) \/ x = e
         /\ \A i \in DOMAIN Append(q, e) :
              \/ i \in DOMAIN q /\ Append(q, e)[i] = q[i]
              \/ i = Len(q) + 1 /\ Append(q, e)[i] = e
PROOF
<1>1. DOMAIN Append(q, e) = 1 .. Len(q) + 1 /\ DOMAIN q = 1 .. Len(q) /\ Len(q) \in Nat
  OBVIOUS
<1>2. \A i \in DOMAIN q : Append(q, e)[i] = q[i]  OBVIOUS
<1>3. Append(q, e)[Len(q) + 1] = e  OBVIOUS
<1>4. Append(q, e) \in Seq(Tasks)  OBVIOUS
<1>5. \A i \in DOMAIN Append(q, e) : i \in DOMAIN q \/ i = Len(q) + 1  BY <1>1
<1>6. DOMAIN q \subseteq DOMAIN Append(q, e) /\ Len(q) + 1 \in DOMAIN Append(q, e)
  BY <1>1
<1> QED  BY <1>2, <1>3, <1>4, <1>5, <1>6, Zenon

LEMMA TailHolds ==
  ASSUME NEW q \in Seq(Tasks), q # <<>>
  PROVE  /\ Head(q) \in Tasks /\ Tail(q) \in Seq(Tasks)
         /\ \A x : (\E i \in DOMAIN q : q[i] = x)
                   <=> x = Head(q) \/ \E i \in DOMAIN Tail(q) : Tail(q)[i] = x
         /\ \A i \in DOMAIN Tail(q) : i + 1 \in DOMAIN q /\ Tail(q)[i] = q[i + 1]
PROOF
<1>1. DOMAIN q = 1 .. Len(q) /\ Len(q) \in Nat \ {0} /\ Head(q) = q[1]  OBVIOUS
<1>2. DOMAIN Tail(q) = 1 .. Len(q) - 1 /\ \A i \in 1 .. Len(q) - 1 : Tail(q)[i] = q[i + 1]
  OBVIOUS
<1>3. Head(q) \in Tasks /\ Tail(q) \in Seq(Tasks)  OBVIOUS
<1>4. ASSUME NEW i \in DOMAIN q, i # 1
      PROVE  i - 1 \in DOMAIN Tail(q) /\ Tail(q)[i - 1] = q[i]
  <2>1. i - 1 \in 1 .. Len(q) - 1 /\ i - 1 + 1 = i
    BY <1>1, <1>4
  <2> QED  BY <2>1, <1>2
<1>5. \A i \in DOMAIN Tail(q) : i + 1 \in DOMAIN q /\ Tail(q)[i] = q[i + 1]  BY <1>1, <1>2
<1>6. 1 \in DOMAIN q  BY <1>1
<1>7. ASSUME NEW x
      PROVE  (\E i \in DOMAIN q : q[i] = x)
             <=> x = Head(q) \/ \E i \in DOMAIN Tail(q) : Tail(q)[i] = x
  BY <1>1, <1>4, <1>5, <1>6, Zenon
<1> QED  BY <1>3, <1>5, <1>7

-----------------------------------------------------------------------------
(* Each action keeps the invariant: the places and what is called, then who *)
(* owns a task after the step, in terms of who did, then how far tasks are.  *)

\* The mode changes only away from kRunning.
LEMMA EnterRestrictedModeKeeps ==
  ASSUME IInv, NEW s \in Threads, EnterRestrictedMode(s), UNCHANGED returned
  PROVE  IInv'
PROOF
<1>1. Types'  BY DEF IInv, Types, EnterRestrictedMode
<1>2. Places'  BY DEF IInv, Places, EnterRestrictedMode
<1>3. Args'  BY DEF IInv, Args, EnterRestrictedMode
<1>4. \A x \in Tasks : Lib(x)' <=> Lib(x)  BY DEF Lib, EnterRestrictedMode
<1>5. \A x \in Tasks : Ex(x)' <=> Ex(x)  BY DEF Ex, Cancels, EnterRestrictedMode
<1>6. Apart'  BY DEF IInv, Owns, Apart, EnterRestrictedMode
<1>7. OneOwner'  BY DEF IInv, Owns, OneOwner, Cancels, EnterRestrictedMode
<1>8. NotYet'  BY <1>4 DEF IInv, Types, Places, Args, Owns, NotYet, EnterRestrictedMode
<1>9. Counted'  BY <1>4, <1>5 DEF IInv, Owns, Counted, One, EnterRestrictedMode
<1>10. OneRuns'
  BY <1>5 DEF IInv, Types, Places, Runs, OneRuns, Waits, EnterRestrictedMode
<1>11. Final'
  BY DEF IInv, Types, Runs, Final, CancelIsFinal, TaskIsLocked, EnterRestrictedMode
<1>12. Preventable'  BY DEF IInv, Types, Runs, Preventable, Waits, EnterRestrictedMode
<1>13. Watched'
  BY <1>5 DEF IInv, Types, Places, Runs, Watched, Started, EnterRestrictedMode
<1>14. Ends'  BY DEF IInv, Types, Ends, Started, EnterRestrictedMode
<1> QED  BY <1>1, <1>2, <1>3, <1>4, <1>5, <1>6, <1>7, <1>8, <1>9, <1>10, <1>11, <1>12,
   <1>13, <1>14 DEF IInv, Owns, Runs

\* A refused task was never owned.
LEMMA EnqueueKeeps ==
  ASSUME IInv, NEW s \in Threads, Enqueue(s), UNCHANGED returned
  PROVE  IInv'
PROOF
<1>1. Types'  BY DEF IInv, Types, Places, Args, Enqueue, Admits
<1>2. Places'  BY DEF IInv, Types, Places, Args, Enqueue, Admits
<1>3. Args'  BY DEF IInv, Types, Args, Enqueue, Admits
<1>4. \A x \in Tasks : Lib(x)' <=> Lib(x)  BY DEF Lib, Enqueue, Admits
<1>5. \A x \in Tasks : Ex(x)' <=> Ex(x)  BY DEF Ex, Cancels, Enqueue, Admits
<1>6. Apart'  BY DEF IInv, Owns, Apart, Enqueue, Admits
<1>7. OneOwner'  BY DEF IInv, Owns, OneOwner, Cancels, Enqueue, Admits
<1>8. NotYet'  BY <1>4 DEF IInv, Types, Places, Args, Owns, NotYet, Enqueue, Admits
<1>9. Counted'
  BY <1>4, <1>5 DEF IInv, Types, Places, Args, Owns, NotYet, Counted, One, NoTask, Enqueue,
     Admits
<1>10. OneRuns'
  BY <1>5 DEF IInv, Types, Places, Args, Runs, OneRuns, Waits, Owns, Counted, NoTask,
     Enqueue, Admits
<1>11. Final'
  BY DEF IInv, Types, Places, Args, Runs, Final, CancelIsFinal, TaskIsLocked, OneRuns,
     Enqueue, Admits
<1>12. Preventable'  BY DEF IInv, Types, Runs, Preventable, Waits, Enqueue, Admits
<1>13. Watched'  BY <1>5 DEF IInv, Types, Places, Runs, Watched, Started, Enqueue, Admits
<1>14. Ends'  BY DEF IInv, Types, Places, Args, Ends, Started, NoTask, Enqueue, Admits
<1> QED  BY <1>1, <1>2, <1>3, <1>4, <1>5, <1>6, <1>7, <1>8, <1>9, <1>10, <1>11, <1>12,
   <1>13, <1>14 DEF IInv, Owns, Runs

\* Who disposes of the queue has waited for a termination to start.
LEMMA DisposeQueueKeeps ==
  ASSUME IInv, NEW s \in Threads, DisposeQueue(s), UNCHANGED returned
  PROVE  IInv'
PROOF
<1>1. Types'  BY DEF IInv, Types, DisposeQueue
<1>2. Places'  BY DEF IInv, Places, DisposeQueue
<1>3. Args'  BY DEF IInv, Args, DisposeQueue
<1>4. \A x \in Tasks : Lib(x)' <=> Lib(x)  BY DEF Lib, DisposeQueue
<1>5. \A x \in Tasks : Ex(x)' <=> Ex(x)  BY DEF Ex, Cancels, DisposeQueue
<1>6. Apart'  BY DEF IInv, Owns, Apart, DisposeQueue
<1>7. OneOwner'  BY DEF IInv, Owns, OneOwner, Cancels, DisposeQueue
<1>8. NotYet'  BY <1>4 DEF IInv, Types, Places, Args, Owns, NotYet, DisposeQueue
<1>9. Counted'  BY <1>4, <1>5 DEF IInv, Owns, Counted, One, DisposeQueue
<1>10. OneRuns'  BY <1>5 DEF IInv, Types, Runs, OneRuns, Waits, DisposeQueue
<1>11. Final'  BY DEF IInv, Types, Runs, Final, CancelIsFinal, TaskIsLocked, DisposeQueue
<1>12. Preventable'  BY DEF IInv, Types, Runs, Preventable, Waits, DisposeQueue
<1>13. Watched'  BY <1>5 DEF IInv, Types, Places, Runs, Watched, Started, DisposeQueue
<1>14. Ends'  BY DEF IInv, Types, Places, Ends, Started, DisposeQueue
<1> QED  BY <1>1, <1>2, <1>3, <1>4, <1>5, <1>6, <1>7, <1>8, <1>9, <1>10, <1>11, <1>12,
   <1>13, <1>14 DEF IInv, Owns, Runs

\* The executor owns the new task; only a queue that admits it is not disposed.
LEMMA InsertKeeps ==
  ASSUME IInv, NEW s \in Threads, Insert(s), UNCHANGED returned
  PROVE  IInv'
PROOF
<1>1. Types'  BY DEF IInv, Types, Places, Args, Insert
<1>2. Places'  BY DEF IInv, Places, Insert
<1>3. Args'  BY DEF IInv, Types, Args, Insert
<1>4. \A x \in Tasks : Lib(x)' <=> Lib(x)  BY DEF Lib, Insert
<1>5. \A x \in Tasks : Ex(x)' <=> Ex(x) \/ (~disposed /\ x = arg[s])
  BY DEF Ex, Cancels, Insert
<1>6. Apart'  BY DEF IInv, Owns, Apart, Insert
<1>7. OneOwner'  BY DEF IInv, Types, Places, Args, Owns, OneOwner, Cancels, Insert
<1>8. NotYet'
  BY <1>4 DEF IInv, Types, Places, Args, Owns, NotYet, Counted, NoTask, Insert
<1>9. Counted'
  BY <1>4, <1>5 DEF IInv, Types, Places, Args, Owns, NotYet, Counted, One, NoTask, Insert
<1>10. OneRuns'
  BY <1>5 DEF IInv, Types, Places, Args, Runs, OneRuns, Waits, Owns, Counted, NoTask, Insert
<1>11. Final'
  BY DEF IInv, Types, Places, Args, Runs, Final, CancelIsFinal, TaskIsLocked, OneRuns,
     Insert
<1>12. Preventable'  BY DEF IInv, Types, Runs, Preventable, Waits, Insert
<1>13. Watched'  BY <1>5 DEF IInv, Types, Places, Runs, Watched, Started, Insert
<1>14. Ends'  BY DEF IInv, Types, Places, Args, Ends, Started, NoTask, Insert
<1> QED  BY <1>1, <1>2, <1>3, <1>4, <1>5, <1>6, <1>7, <1>8, <1>9, <1>10, <1>11, <1>12,
   <1>13, <1>14 DEF IInv, Owns, Runs

\* libdispatch becomes the second owner of the task.
LEMMA DispatchKeeps ==
  ASSUME IInv, NEW s \in Threads, Dispatch(s), UNCHANGED returned
  PROVE  IInv'
PROOF
<1>1. fifo \in Seq(Tasks) /\ arg[s] \in Tasks  BY DEF IInv, Types, Places, Args, Dispatch
<1>2. ~Lib(arg[s])  BY DEF IInv, Owns, NotYet, Dispatch
<1>3. /\ fifo' \in Seq(Tasks)
      /\ \A i \in DOMAIN fifo' :
           \/ i \in DOMAIN fifo /\ fifo'[i] = fifo[i]
           \/ i = Len(fifo) + 1 /\ fifo'[i] = arg[s] /\ arg[s] \notin Timed
      /\ \A x : (\E i \in DOMAIN fifo' : fifo'[i] = x)
                <=> (\E i \in DOMAIN fifo : fifo[i] = x) \/ (x = arg[s] /\ x \notin Timed)
      /\ \A x : x \in timers' <=> x \in timers \/ (x = arg[s] /\ x \in Timed)
  <2>1. CASE arg[s] \in Timed
    <3>1. timers' = timers \cup {arg[s]} /\ fifo' = fifo
      BY <2>1 DEF Dispatch
    <3> QED  BY <1>1, <2>1, <3>1
  <2>2. CASE arg[s] \notin Timed
    <3>1. timers' = timers /\ fifo' = Append(fifo, arg[s])
      BY <2>2 DEF Dispatch
    <3>2. \A i \in DOMAIN fifo' :
           \/ i \in DOMAIN fifo /\ fifo'[i] = fifo[i]
           \/ i = Len(fifo) + 1 /\ fifo'[i] = arg[s]
      BY <1>1, <3>1, AppendHolds
    <3>3. /\ fifo' \in Seq(Tasks)
          /\ \A x : (\E i \in DOMAIN fifo' : fifo'[i] = x)
                    <=> (\E i \in DOMAIN fifo : fifo[i] = x) \/ x = arg[s]
      BY <1>1, <3>1, AppendHolds
    <3> QED  BY <2>2, <3>1, <3>2, <3>3
  <2> QED  BY <2>1, <2>2
<1>4. Types'  BY <1>1, <1>2, <1>3 DEF IInv, Types, Dispatch
<1>5. Places'  BY DEF IInv, Types, Places, Dispatch
<1>6. Args'  BY DEF IInv, Args, Dispatch
<1>7. \A x \in Tasks : Lib(x)' <=> Lib(x) \/ x = arg[s]  BY DEF Lib, Dispatch
<1>8. \A x \in Tasks : Ex(x)' <=> Ex(x)  BY DEF Ex, Cancels, Dispatch
<1>9. Apart'  BY <1>2, <1>3 DEF IInv, Owns, Apart, Lib, Dispatch
<1>10. OneOwner'  BY DEF IInv, Owns, OneOwner, Cancels, Dispatch
<1>11. NotYet'  BY <1>7 DEF IInv, Types, Places, Args, Owns, NotYet, Dispatch
<1>12. Counted'
  BY <1>1, <1>2, <1>3, <1>7, <1>8 DEF IInv, Types, Places, Args, Owns, Counted, One,
     Dispatch
<1>13. OneRuns'  BY <1>8 DEF IInv, Types, Runs, OneRuns, Waits, Dispatch
<1>14. Final'  BY DEF IInv, Types, Runs, Final, CancelIsFinal, TaskIsLocked, Dispatch
<1>15. Preventable'  BY DEF IInv, Types, Runs, Preventable, Waits, Dispatch
<1>16. Watched'  BY <1>8 DEF IInv, Types, Places, Runs, Watched, Started, Dispatch
<1>17. Ends'  BY DEF IInv, Types, Ends, Started, Dispatch
<1> QED  BY <1>4, <1>5, <1>6, <1>7, <1>8, <1>9, <1>10, <1>11, <1>12, <1>13, <1>14, <1>15,
   <1>16, <1>17 DEF IInv, Owns, Runs

\* What the executor owned goes to the call that disposes of it.
LEMMA SwapKeeps ==
  ASSUME IInv, NEW s \in Threads, Swap(s), UNCHANGED returned
  PROVE  IInv'
PROOF
<1>1. Types'  BY DEF IInv, Types, Swap
<1>2. Places'  BY DEF IInv, Types, Places, Swap
<1>3. Args'  BY DEF IInv, Types, Places, Args, Swap
<1>4. \A x \in Tasks : Lib(x)' <=> Lib(x)  BY DEF Lib, Swap
<1>5. \A x \in Tasks : Ex(x)' <=> Ex(x)  BY DEF IInv, Types, Places, Ex, Cancels, Swap
<1>6. Apart'  BY DEF IInv, Owns, Apart, Swap
<1>7. OneOwner'  BY DEF IInv, Owns, OneOwner, Cancels, Swap
<1>8. NotYet'  BY <1>4 DEF IInv, Types, Places, Args, Owns, NotYet, Swap
<1>9. Counted'  BY <1>4, <1>5 DEF IInv, Owns, Counted, One, Swap
<1>10. OneRuns'  BY <1>5 DEF IInv, Types, Places, Runs, OneRuns, Waits, Swap
<1>11. Final'  BY DEF IInv, Types, Runs, Final, CancelIsFinal, TaskIsLocked, Swap
<1>12. Preventable'  BY DEF IInv, Types, Places, Runs, Preventable, Waits, Swap
<1>13. Watched'  BY <1>5 DEF IInv, Types, Places, Runs, Watched, Started, Swap
<1>14. Ends'  BY DEF IInv, Types, Places, Ends, Started, Swap
<1> QED  BY <1>1, <1>2, <1>3, <1>4, <1>5, <1>6, <1>7, <1>8, <1>9, <1>10, <1>11, <1>12,
   <1>13, <1>14 DEF IInv, Owns, Runs

\* One task goes from those to be cancelled to the one that is.
LEMMA CancelNextKeeps ==
  ASSUME IInv, NEW s \in Threads, NEW t \in Tasks, CancelNext(s, t), UNCHANGED returned
  PROVE  IInv'
PROOF
<1>1. t \notin tasks /\ task[t].state \notin {"none", "refused"}
  BY DEF IInv, Types, Places, Owns, OneOwner, Counted, Ex, CancelNext
<1>2. Types'  BY DEF IInv, Types, CancelNext
<1>3. Places'  BY DEF IInv, Places, CancelNext
<1>4. Args'  BY <1>1 DEF IInv, Types, Places, Args, NoTask, CancelNext
<1>5. \A x \in Tasks : Lib(x)' <=> Lib(x)  BY DEF Lib, CancelNext
<1>6. \A x \in Tasks : Ex(x)' <=> Ex(x)  BY DEF IInv, Types, Ex, Cancels, CancelNext
<1>7. Apart'  BY DEF IInv, Owns, Apart, CancelNext
<1>8. OneOwner'  BY DEF IInv, Types, Owns, OneOwner, Cancels, CancelNext
<1>9. NotYet'  BY <1>5 DEF IInv, Types, Places, Args, Owns, NotYet, CancelNext
<1>10. Counted'  BY <1>5, <1>6 DEF IInv, Owns, Counted, One, CancelNext
<1>11. OneRuns'  BY <1>6 DEF IInv, Types, Places, Runs, OneRuns, Waits, CancelNext
<1>12. Final'  BY DEF IInv, Types, Runs, Final, CancelIsFinal, TaskIsLocked, CancelNext
<1>13. Preventable'  BY DEF IInv, Types, Runs, Preventable, Waits, CancelNext
<1>14. Watched'  BY <1>6 DEF IInv, Types, Places, Runs, Watched, Started, CancelNext
<1>15. Ends'  BY DEF IInv, Types, Ends, Started, CancelNext
<1> QED  BY <1>2, <1>3, <1>4, <1>5, <1>6, <1>7, <1>8, <1>9, <1>10, <1>11, <1>12, <1>13,
   <1>14, <1>15 DEF IInv, Owns, Runs

\* The worker takes a task from the executor, the one it runs only if no termination
\* has started: while one runs it is another task, and afterwards no timer is left.
LEMMA CancelDelayedKeeps ==
  ASSUME IInv, NEW t \in Timed, CancelDelayed(t), UNCHANGED returned
  PROVE  IInv'
PROOF
<1>1. Types'  BY DEF IInv, Types, CancelDelayed
<1>2. Places'  BY DEF IInv, Places, CancelDelayed
<1>3. Args'  BY DEF IInv, Types, Args, CancelDelayed
<1>4. \A x \in Tasks : Lib(x)' <=> Lib(x)  BY DEF Lib, CancelDelayed
<1>5. \A x \in Tasks : Ex(x)' <=> Ex(x)  BY DEF IInv, Types, Ex, Cancels, CancelDelayed
<1>6. Apart'  BY DEF IInv, Owns, Apart, CancelDelayed
<1>7. OneOwner'  BY DEF IInv, Types, Owns, OneOwner, Cancels, CancelDelayed
<1>8. NotYet'  BY <1>4 DEF IInv, Types, Places, Args, Owns, NotYet, CancelDelayed
<1>9. Counted'  BY <1>4, <1>5 DEF IInv, Owns, Counted, One, CancelDelayed
<1>10. OneRuns'  BY <1>5 DEF IInv, Types, Runs, OneRuns, Waits, CancelDelayed
<1>11. Final'  BY DEF IInv, Types, Runs, Final, CancelIsFinal, TaskIsLocked, CancelDelayed
<1>12. Preventable'  BY DEF IInv, Types, Runs, Preventable, Waits, CancelDelayed
<1>13. Watched'
  BY <1>5 DEF IInv, Types, Places, Args, Runs, OneRuns, Watched, Preventable, Started,
     Waits, Ends, CancelDelayed
<1>14. Ends'  BY DEF IInv, Types, Ends, Started, CancelDelayed
<1> QED  BY <1>1, <1>2, <1>3, <1>4, <1>5, <1>6, <1>7, <1>8, <1>9, <1>10, <1>11, <1>12,
   <1>13, <1>14 DEF IInv, Owns, Runs

\* A task that is cancelled never runs, and one that ran reports to nobody.
LEMMA TaskCancelKeeps ==
  ASSUME IInv, NEW s \in Threads, TaskCancel(s), UNCHANGED returned
  PROVE  IInv'
PROOF
<1>1. Ex(arg[s]) /\ task[arg[s]].state \notin {"none", "refused"}
  BY DEF IInv, Types, Places, Args, Owns, Counted, Ex, Cancels, TaskCancel
<1>2. Types'  BY DEF IInv, Types, Places, Args, TaskCancel
<1>3. Places'  BY DEF IInv, Places, TaskCancel
<1>4. Args'  BY DEF IInv, Types, Args, TaskCancel
<1>5. \A x \in Tasks : Lib(x)' <=> Lib(x)  BY DEF Lib, TaskCancel
<1>6. \A x \in Tasks : Ex(x)' <=> Ex(x)  BY DEF Ex, Cancels, TaskCancel
<1>7. Apart'  BY DEF IInv, Owns, Apart, TaskCancel
<1>8. OneOwner'  BY DEF IInv, Owns, OneOwner, Cancels, TaskCancel
<1>9. NotYet'  BY <1>5 DEF IInv, Types, Places, Args, Owns, NotYet, TaskCancel
<1>10. Counted'  BY <1>5, <1>6 DEF IInv, Types, Owns, Counted, One, TaskCancel
<1>11. OneRuns'
  BY <1>6 DEF IInv, Types, Places, Args, Ex, Runs, OneRuns, Final, Preventable, Watched,
     Ends, CancelIsFinal, TaskIsLocked, Waits, Started, Cancels, NoTask, Owns, OneOwner,
     Counted, TaskCancel
<1>12. Final'
  BY <1>1, <1>6 DEF IInv, Types, Places, Args, Runs, Final, CancelIsFinal, TaskIsLocked,
     OneRuns, TaskCancel
<1>13. Preventable'  BY DEF IInv, Types, Runs, Preventable, Waits, TaskCancel
<1>14. Watched'  BY <1>6 DEF IInv, Types, Places, Runs, Watched, Started, TaskCancel
<1>15. Ends'  BY DEF IInv, Types, Ends, Started, TaskCancel
<1> QED  BY <1>2, <1>3, <1>4, <1>5, <1>6, <1>7, <1>8, <1>9, <1>10, <1>11, <1>12, <1>13,
   <1>14, <1>15 DEF IInv, Owns, Runs

\* Who waited finds the task ended.
LEMMA TaskAwaitKeeps ==
  ASSUME IInv, NEW s \in Threads, TaskAwait(s), UNCHANGED returned
  PROVE  IInv'
PROOF
<1>1. Types'  BY DEF IInv, Types, TaskAwait
<1>2. Places'  BY DEF IInv, Places, TaskAwait
<1>3. Args'  BY DEF IInv, Args, TaskAwait
<1>4. \A x \in Tasks : Lib(x)' <=> Lib(x)  BY DEF Lib, TaskAwait
<1>5. \A x \in Tasks : Ex(x)' <=> Ex(x)  BY DEF Ex, Cancels, TaskAwait
<1>6. Apart'  BY DEF IInv, Owns, Apart, TaskAwait
<1>7. OneOwner'  BY DEF IInv, Owns, OneOwner, Cancels, TaskAwait
<1>8. NotYet'  BY <1>4 DEF IInv, Types, Places, Args, Owns, NotYet, TaskAwait
<1>9. Counted'  BY <1>4, <1>5 DEF IInv, Owns, Counted, One, TaskAwait
<1>10. OneRuns'  BY <1>5 DEF IInv, Types, Places, Runs, OneRuns, Waits, TaskAwait
<1>11. Final'  BY DEF IInv, Types, Runs, Final, CancelIsFinal, TaskIsLocked, TaskAwait
<1>12. Preventable'  BY DEF IInv, Types, Runs, Preventable, Waits, TaskAwait
<1>13. Watched'  BY <1>5 DEF IInv, Types, Places, Runs, Watched, Started, TaskAwait
<1>14. Ends'  BY DEF IInv, Types, Ends, Started, TaskAwait
<1> QED  BY <1>1, <1>2, <1>3, <1>4, <1>5, <1>6, <1>7, <1>8, <1>9, <1>10, <1>11, <1>12,
   <1>13, <1>14 DEF IInv, Owns, Runs

\* The call gives up what it owned.
LEMMA TaskReleaseKeeps ==
  ASSUME IInv, NEW s \in Threads, TaskRelease(s), UNCHANGED returned
  PROVE  IInv'
PROOF
<1>1. Ex(arg[s]) /\ task[arg[s]].state \notin {"none", "refused"}
  BY DEF IInv, Types, Places, Args, Owns, Counted, Ex, Cancels, TaskRelease
<1>2. Types'  BY DEF IInv, Types, Places, Args, TaskRelease
<1>3. Places'  BY DEF IInv, Types, Places, TaskRelease
<1>4. Args'  BY DEF IInv, Args, TaskRelease
<1>5. \A x \in Tasks : Lib(x)' <=> Lib(x)  BY DEF Lib, TaskRelease
<1>6. \A x \in Tasks : Ex(x)' <=> Ex(x) /\ x # arg[s]
  BY DEF IInv, Types, Places, Args, Owns, OneOwner, Ex, Cancels, TaskRelease
<1>7. Apart'  BY DEF IInv, Owns, Apart, TaskRelease
<1>8. OneOwner'  BY DEF IInv, Owns, OneOwner, Cancels, TaskRelease
<1>9. NotYet'  BY <1>5 DEF IInv, Types, Places, Args, Owns, NotYet, TaskRelease
<1>10. Counted'  BY <1>1, <1>5, <1>6 DEF IInv, Types, Owns, Counted, One, TaskRelease
<1>11. OneRuns'  BY <1>6 DEF IInv, Types, Runs, OneRuns, Waits, TaskRelease
<1>12. Final'  BY DEF IInv, Types, Runs, Final, CancelIsFinal, TaskIsLocked, TaskRelease
<1>13. Preventable'  BY DEF IInv, Types, Runs, Preventable, Waits, TaskRelease
<1>14. Watched'
  BY <1>6 DEF IInv, Types, Places, Args, Runs, OneRuns, Final, CancelIsFinal, Watched,
     Started, Owns, OneOwner, Counted, Cancels, TaskRelease
<1>15. Ends'  BY DEF IInv, Types, Ends, Started, TaskRelease
<1> QED  BY <1>2, <1>3, <1>4, <1>5, <1>6, <1>7, <1>8, <1>9, <1>10, <1>11, <1>12, <1>13,
   <1>14, <1>15 DEF IInv, Owns, Runs

\* A task that starts to run is still owned by who could have prevented it.
LEMMA TaskStartKeeps ==
  ASSUME IInv, TaskStart, UNCHANGED returned
  PROVE  IInv'
PROOF
<1>1. run \in Tasks  BY DEF IInv, Types, Places, TaskStart
<1>2. Lib(run) /\ task[run].state \notin {"none", "refused"}
  BY <1>1 DEF IInv, Owns, Counted, Lib
<1>3. task[run].state = "kInitial" => Ex(run)
  BY <1>1 DEF IInv, Runs, Preventable, Waits, Ex, Cancels
<1>4. Types'  BY DEF IInv, Types, TaskStart
<1>5. Places'  BY DEF IInv, Types, Places, TaskStart
<1>6. Args'
  BY <1>1, <1>2, <1>3 DEF IInv, Types, Places, Args, Ends, Started, NoTask, Owns, NotYet,
     Counted, TaskStart
<1>7. \A x \in Tasks : Lib(x)' <=> Lib(x)  BY DEF Lib, TaskStart
<1>8. \A x \in Tasks : Ex(x)' <=> Ex(x)  BY DEF IInv, Types, Ex, Cancels, TaskStart
<1>9. Apart'  BY DEF IInv, Owns, Apart, TaskStart
<1>10. OneOwner'  BY DEF IInv, Types, Owns, OneOwner, Cancels, TaskStart
<1>11. NotYet'  BY <1>7 DEF IInv, Types, Places, Args, Owns, NotYet, TaskStart
<1>12. Counted'
  <2>1. \A x \in Tasks : task'[x].ref = task[x].ref
    <3>1. CASE task[run].state = "kInitial"
      BY <1>1, <3>1 DEF IInv, Types, TaskStart
    <3>2. CASE task[run].state # "kInitial"
      BY <3>2 DEF TaskStart
    <3> QED  BY <3>1, <3>2
  <2>2. \A x \in Tasks : task'[x].state \in {"none", "refused"} => task[x].state \in {"none", "refused"}
    <3>1. CASE task[run].state = "kInitial"
      BY <1>1, <3>1 DEF IInv, Types, TaskStart
    <3>2. CASE task[run].state # "kInitial"
      BY <3>2 DEF TaskStart
    <3> QED  BY <3>1, <3>2
  <2> QED  BY <1>7, <1>8, <2>1, <2>2 DEF IInv, Owns, Counted, One
<1>13. OneRuns'
  BY <1>1, <1>2, <1>3, <1>8 DEF IInv, Types, Runs, OneRuns, Waits, TaskStart
<1>14. Final'
  BY DEF IInv, Types, Places, Args, Runs, Final, CancelIsFinal, TaskIsLocked, OneRuns,
     TaskStart
<1>15. Preventable'  BY DEF IInv, Types, Runs, Preventable, Waits, TaskStart
<1>16. Watched'
  BY <1>1, <1>2, <1>3, <1>8 DEF IInv, Types, Runs, Watched, Started, TaskStart
<1>17. Ends'
  <2>1. \A x \in Tasks : task[x].state \in {"none", "refused"} => task'[x] = task[x]
    BY <1>1, <1>2 DEF IInv, Types, TaskStart
  <2>2. \A x \in Tasks : task'[x].state = "kDone" => task[x].state = "kDone"
    BY <1>1 DEF IInv, Types, TaskStart
  <2>3. \A x \in Tasks : task[x].state \in {"kRunning", "kDone"} => task'[x] = task[x]
    BY <1>1 DEF IInv, Types, TaskStart
  <2> QED  BY <2>1, <2>2, <2>3 DEF IInv, Types, Places, Ends, Started, TaskStart
<1> QED  BY <1>4, <1>5, <1>6, <1>7, <1>8, <1>9, <1>10, <1>11, <1>12, <1>13, <1>14, <1>15,
   <1>16, <1>17 DEF IInv, Owns, Runs

\* The operation of a termination leaves no timer in the schedule.
LEMMA OperationReturnsKeeps ==
  ASSUME IInv, OperationReturns, UNCHANGED returned
  PROVE  IInv'
PROOF
<1>1. run \in Tasks  BY DEF IInv, Types, Places, OperationReturns
<1>2. Lib(run) /\ task[run].state \notin {"none", "refused"}
  BY <1>1 DEF IInv, Owns, Counted, Lib
<1>3. Types'  BY DEF IInv, Types, OperationReturns
<1>4. Places'  BY DEF IInv, Places, OperationReturns
<1>5. Args'  BY DEF IInv, Args, OperationReturns
<1>6. \A x \in Tasks : Lib(x)' <=> Lib(x)  BY DEF Lib, OperationReturns
<1>7. \A x \in Tasks : Ex(x)' <=> Ex(x)  BY DEF Ex, Cancels, OperationReturns
<1>8. Apart'  BY DEF IInv, Owns, Apart, OperationReturns
<1>9. OneOwner'  BY DEF IInv, Owns, OneOwner, Cancels, OperationReturns
<1>10. NotYet'  BY <1>6 DEF IInv, Types, Places, Args, Owns, NotYet, OperationReturns
<1>11. Counted'  BY <1>6, <1>7 DEF IInv, Owns, Counted, One, OperationReturns
<1>12. OneRuns'  BY <1>7 DEF IInv, Types, Runs, OneRuns, Waits, OperationReturns
<1>13. Final'
  BY DEF IInv, Types, Runs, Final, CancelIsFinal, TaskIsLocked, OperationReturns
<1>14. Preventable'  BY DEF IInv, Types, Runs, Preventable, Waits, OperationReturns
<1>15. Watched'
  BY <1>1, <1>2, <1>7 DEF IInv, Types, Runs, Watched, Started, OperationReturns
<1>16. Ends'  BY DEF IInv, Types, Ends, Started, OperationReturns
<1> QED  BY <1>3, <1>4, <1>5, <1>6, <1>7, <1>8, <1>9, <1>10, <1>11, <1>12, <1>13, <1>14,
   <1>15, <1>16 DEF IInv, Owns, Runs

\* A task that reports completion is still owned by who must wait for it.
LEMMA TaskFinishKeeps ==
  ASSUME IInv, TaskFinish, UNCHANGED returned
  PROVE  IInv'
PROOF
<1>1. run \in Tasks  BY DEF IInv, Types, Places, TaskFinish
<1>2. Lib(run) /\ task[run].state \notin {"none", "refused"}
  BY <1>1 DEF IInv, Owns, Counted, Lib
<1>3. Types'  BY <1>1, <1>2 DEF IInv, Types, TaskFinish
<1>4. Places'  BY DEF IInv, Places, TaskFinish
<1>5. Args'
  BY <1>1, <1>2 DEF IInv, Types, Places, Args, Ends, Started, NoTask, Owns, NotYet, Counted,
     TaskFinish
<1>6. \A x \in Tasks : Lib(x)' <=> Lib(x)  BY DEF Lib, TaskFinish
<1>7. \A x \in Tasks : Ex(x)' <=> Ex(x)  BY DEF Ex, Cancels, TaskFinish
<1>8. Apart'  BY DEF IInv, Owns, Apart, TaskFinish
<1>9. OneOwner'  BY DEF IInv, Owns, OneOwner, Cancels, TaskFinish
<1>10. NotYet'  BY <1>6 DEF IInv, Types, Places, Args, Owns, NotYet, TaskFinish
<1>11. Counted'  BY <1>6, <1>7 DEF IInv, Owns, Counted, One, TaskFinish
<1>12. OneRuns'
  BY <1>7 DEF IInv, Types, Places, Args, Runs, OneRuns, Final, CancelIsFinal, Watched,
     Waits, Ex, Cancels, TaskFinish
<1>13. Final'
  BY DEF IInv, Types, Places, Args, Runs, Final, CancelIsFinal, TaskIsLocked, OneRuns,
     TaskFinish
<1>14. Preventable'  BY DEF IInv, Types, Runs, Preventable, Waits, TaskFinish
<1>15. Watched'  BY <1>7 DEF IInv, Types, Runs, Watched, Started, TaskFinish
<1>16. Ends'  BY <1>1, <1>2, <1>7 DEF IInv, Types, Ends, Started, TaskFinish
<1> QED  BY <1>3, <1>4, <1>5, <1>6, <1>7, <1>8, <1>9, <1>10, <1>11, <1>12, <1>13, <1>14,
   <1>15, <1>16 DEF IInv, Owns, Runs

\* What the executor still owns it gives up.
LEMMA OnCompletionKeeps ==
  ASSUME IInv, OnCompletion, UNCHANGED returned
  PROVE  IInv'
PROOF
<1>1. run \in Tasks  BY DEF IInv, Types, Places, OnCompletion
<1>2. Lib(run) /\ task[run].state \notin {"none", "refused"}
  BY <1>1 DEF IInv, Owns, Counted, Lib
<1>3. Types'  BY <1>1, <1>2 DEF IInv, Types, OnCompletion
<1>4. Places'  BY DEF IInv, Places, OnCompletion
<1>5. Args'
  BY <1>1, <1>2 DEF IInv, Types, Places, Args, Ends, Started, NoTask, Owns, NotYet, Counted,
     OnCompletion
<1>6. \A x \in Tasks : Lib(x)' <=> Lib(x)  BY DEF Lib, OnCompletion
<1>7. \A x \in Tasks : Ex(x)' <=> Ex(x) /\ ~(x = run /\ run \in tasks)
  BY DEF IInv, Types, Places, Ex, Cancels, OnCompletion
<1>8. Apart'  BY DEF IInv, Owns, Apart, OnCompletion
<1>9. OneOwner'  BY DEF IInv, Owns, OneOwner, Cancels, OnCompletion
<1>10. NotYet'  BY <1>6 DEF IInv, Types, Places, Args, Owns, NotYet, OnCompletion
<1>11. Counted'
  <2>1. CASE run \in tasks
    <3>1. /\ Ex(run) /\ task'[run].ref = task[run].ref - 1
          /\ \A x \in Tasks \ {run} : task'[x].ref = task[x].ref
          /\ \A x \in Tasks : task'[x].state = task[x].state
      BY <1>1, <2>1 DEF IInv, Types, OnCompletion, Ex
    <3> QED  BY <1>1, <1>6, <1>7, <2>1, <3>1 DEF IInv, Types, Owns, Counted, One
  <2>2. CASE run \notin tasks
    <3>1. task' = [task EXCEPT ![run].ref = task[run].ref]
      BY <2>2 DEF OnCompletion
    <3>2. \A x \in Tasks : task'[x].ref = task[x].ref
      BY <1>1, <3>1 DEF IInv, Types
    <3>3. \A x \in Tasks : task'[x].state = task[x].state
      BY <1>1, <3>1 DEF IInv, Types
    <3> QED  BY <1>6, <1>7, <2>2, <3>2, <3>3 DEF IInv, Owns, Counted, One
  <2> QED  BY <2>1, <2>2
<1>12. OneRuns'  BY <1>7 DEF IInv, Types, Runs, OneRuns, Waits, OnCompletion
<1>13. Final'  BY DEF IInv, Types, Runs, Final, CancelIsFinal, TaskIsLocked, OnCompletion
<1>14. Preventable'
  BY DEF IInv, Types, Places, Args, Runs, Preventable, OneRuns, Waits, Owns, OneOwner,
     Cancels, OnCompletion
<1>15. Watched'  BY <1>7 DEF IInv, Types, Runs, Watched, Started, OnCompletion
<1>16. Ends'  BY DEF IInv, Types, Ends, Started, OnCompletion
<1> QED  BY <1>3, <1>4, <1>5, <1>6, <1>7, <1>8, <1>9, <1>10, <1>11, <1>12, <1>13, <1>14,
   <1>15, <1>16 DEF IInv, Owns, Runs

\* libdispatch gives up the task that ran.
LEMMA TaskDropKeeps ==
  ASSUME IInv, TaskDrop, UNCHANGED returned
  PROVE  IInv'
PROOF
<1>1. run \in Tasks  BY DEF IInv, Types, Places, TaskDrop
<1>2. Lib(run) /\ task[run].state \notin {"none", "refused"}
  BY <1>1 DEF IInv, Owns, Counted, Lib
<1>3. Types'  BY <1>1, <1>2 DEF IInv, Types, TaskDrop
<1>4. Places'  BY DEF IInv, Types, Places, TaskDrop
<1>5. Args'  BY <1>1, <1>2 DEF IInv, Types, Places, Args, NoTask, TaskDrop
<1>6. \A x \in Tasks : Lib(x)' <=> Lib(x) /\ x # run
  BY DEF IInv, Types, Places, Args, Apart, Owns, Lib, TaskDrop
<1>7. \A x \in Tasks : Ex(x)' <=> Ex(x)  BY DEF Ex, Cancels, TaskDrop
<1>8. Apart'  BY DEF IInv, Types, Owns, Apart, TaskDrop
<1>9. OneOwner'  BY DEF IInv, Owns, OneOwner, Cancels, TaskDrop
<1>10. NotYet'  BY <1>6 DEF IInv, Types, Places, Args, Owns, NotYet, TaskDrop
<1>11. Counted'  BY <1>1, <1>2, <1>6, <1>7 DEF IInv, Types, Owns, Counted, One, TaskDrop
<1>12. OneRuns'  BY <1>7 DEF IInv, Types, Runs, OneRuns, Waits, TaskDrop
<1>13. Final'  BY DEF IInv, Types, Runs, Final, CancelIsFinal, TaskIsLocked, TaskDrop
<1>14. Preventable'  BY DEF IInv, Types, Runs, Preventable, Waits, TaskDrop
<1>15. Watched'  BY <1>7 DEF IInv, Types, Runs, Watched, Started, TaskDrop
<1>16. Ends'  BY DEF IInv, Types, Ends, Started, TaskDrop
<1> QED  BY <1>3, <1>4, <1>5, <1>6, <1>7, <1>8, <1>9, <1>10, <1>11, <1>12, <1>13, <1>14,
   <1>15, <1>16 DEF IInv, Owns, Runs

\* A timer moves to the end of the queue.
LEMMA TimerFiresKeeps ==
  ASSUME IInv, NEW t \in Timed, TimerFires(t), UNCHANGED returned
  PROVE  IInv'
PROOF
<1>1. fifo \in Seq(Tasks) /\ t \in Tasks  BY DEF IInv, Types
<1>2. /\ fifo' \in Seq(Tasks)
      /\ \A x : (\E i \in DOMAIN fifo' : fifo'[i] = x)
                <=> (\E i \in DOMAIN fifo : fifo[i] = x) \/ x = t
  BY <1>1, AppendHolds DEF TimerFires
<1>3. Types'  BY DEF IInv, Types, TimerFires
<1>4. Places'  BY DEF IInv, Places, TimerFires
<1>5. Args'  BY DEF IInv, Args, TimerFires
<1>6. \A x \in Tasks : Lib(x)' <=> Lib(x)
  <2>1. \A x : (x \in timers \/ x = t) <=> (x \in timers' \/ x = t)
    BY DEF TimerFires
  <2>2. t \in timers /\ timers' = timers \ {t} /\ run' = run
    BY DEF TimerFires, threads
  <2> QED  BY <1>2, <2>2 DEF Lib
<1>7. \A x \in Tasks : Ex(x)' <=> Ex(x)  BY DEF Ex, Cancels, TimerFires
<1>8. Apart'  BY DEF IInv, Owns, Apart, TimerFires
<1>9. OneOwner'  BY DEF IInv, Owns, OneOwner, Cancels, TimerFires
<1>10. NotYet'  BY <1>6 DEF IInv, Types, Places, Args, Owns, NotYet, TimerFires
<1>11. Counted'  BY <1>6, <1>7 DEF IInv, Owns, Counted, One, TimerFires
<1>12. OneRuns'  BY <1>7 DEF IInv, Types, Runs, OneRuns, Waits, TimerFires
<1>13. Final'  BY DEF IInv, Types, Runs, Final, CancelIsFinal, TaskIsLocked, TimerFires
<1>14. Preventable'  BY DEF IInv, Types, Runs, Preventable, Waits, TimerFires
<1>15. Watched'  BY <1>7 DEF IInv, Types, Places, Runs, Watched, Started, TimerFires
<1>16. Ends'  BY DEF IInv, Types, Ends, Started, TimerFires
<1> QED  BY <1>3, <1>4, <1>5, <1>6, <1>7, <1>8, <1>9, <1>10, <1>11, <1>12, <1>13, <1>14,
   <1>15, <1>16 DEF IInv, Owns, Runs

\* The worker takes the first of the queue.
LEMMA InvokeKeeps ==
  ASSUME IInv, Invoke, UNCHANGED returned
  PROVE  IInv'
PROOF
<1>1. fifo \in Seq(Tasks)  BY DEF IInv, Types
<1>2. /\ run' \in Tasks /\ fifo' \in Seq(Tasks)
      /\ \A x : (\E i \in DOMAIN fifo : fifo[i] = x)
                <=> x = run' \/ \E i \in DOMAIN fifo' : fifo'[i] = x
      /\ \A i \in DOMAIN fifo' : i + 1 \in DOMAIN fifo /\ fifo'[i] = fifo[i + 1]
  <2>1. fifo # <<>> /\ run' = Head(fifo) /\ fifo' = Tail(fifo)
    BY DEF Invoke
  <2>2. /\ Head(fifo) \in Tasks /\ Tail(fifo) \in Seq(Tasks)
        /\ \A x : (\E i \in DOMAIN fifo : fifo[i] = x)
                  <=> x = Head(fifo) \/ \E i \in DOMAIN Tail(fifo) : Tail(fifo)[i] = x
        /\ \A i \in DOMAIN Tail(fifo) : i + 1 \in DOMAIN fifo /\ Tail(fifo)[i] = fifo[i + 1]
    BY <1>1, <2>1, TailHolds, Zenon
  <2> QED  BY <2>1, <2>2, Zenon
<1>3. Types'  BY DEF IInv, Types, Invoke
<1>4. Places'  BY DEF IInv, Types, Places, Invoke
<1>5. Args'  BY DEF IInv, Args, Invoke
<1>6. \A x \in Tasks : Lib(x)' <=> Lib(x)
  <2>1. run = None /\ timers' = timers
    BY DEF IInv, Places, Invoke
  <2> QED  BY <1>2, <2>1 DEF Lib
<1>7. \A x \in Tasks : Ex(x)' <=> Ex(x)  BY DEF Ex, Cancels, Invoke
<1>8. Apart'  BY DEF IInv, Owns, Apart, Invoke
<1>9. OneOwner'  BY DEF IInv, Owns, OneOwner, Cancels, Invoke
<1>10. NotYet'  BY <1>6 DEF IInv, Types, Places, Args, Owns, NotYet, Invoke
<1>11. Counted'  BY <1>6, <1>7 DEF IInv, Owns, Counted, One, Invoke
<1>12. OneRuns'  BY <1>7 DEF IInv, Types, Runs, OneRuns, Waits, Invoke
<1>13. Final'  BY DEF IInv, Types, Runs, Final, CancelIsFinal, TaskIsLocked, Invoke
<1>14. Preventable'  BY DEF IInv, Types, Runs, Preventable, Waits, Invoke
<1>15. Watched'  BY <1>7 DEF IInv, Types, Runs, Watched, Started, Invoke
<1>16. Ends'  BY DEF IInv, Types, Ends, Started, Invoke
<1> QED  BY <1>3, <1>4, <1>5, <1>6, <1>7, <1>8, <1>9, <1>10, <1>11, <1>12, <1>13, <1>14,
   <1>15, <1>16 DEF IInv, Owns, Runs

\* The task waited for is a termination, and runs.
LEMMA TerminationStartedKeeps ==
  ASSUME IInv, NEW s \in Threads, TerminationStarted(s)
  PROVE  IInv'
PROOF
<1>1. Types'  BY DEF IInv, Types, TerminationStarted
<1>2. Places'  BY DEF IInv, Places, TerminationStarted
<1>3. Args'  BY DEF IInv, Args, TerminationStarted
<1>4. \A x \in Tasks : Lib(x)' <=> Lib(x)  BY DEF Lib, TerminationStarted
<1>5. \A x \in Tasks : Ex(x)' <=> Ex(x)  BY DEF Ex, Cancels, TerminationStarted
<1>6. Apart'  BY DEF IInv, Owns, Apart, TerminationStarted
<1>7. OneOwner'  BY DEF IInv, Owns, OneOwner, Cancels, TerminationStarted
<1>8. NotYet'  BY <1>4 DEF IInv, Types, Places, Args, Owns, NotYet, TerminationStarted
<1>9. Counted'  BY <1>4, <1>5 DEF IInv, Owns, Counted, One, TerminationStarted
<1>10. OneRuns'  BY <1>5 DEF IInv, Types, Runs, OneRuns, Waits, TerminationStarted
<1>11. Final'
  BY DEF IInv, Types, Runs, Final, CancelIsFinal, TaskIsLocked, TerminationStarted
<1>12. Preventable'  BY DEF IInv, Types, Runs, Preventable, Waits, TerminationStarted
<1>13. Watched'
  BY <1>5 DEF IInv, Types, Places, Runs, Watched, Started, TerminationStarted
<1>14. Ends'  BY DEF IInv, Types, Places, Args, Ends, Started, TerminationStarted
<1> QED  BY <1>1, <1>2, <1>3, <1>4, <1>5, <1>6, <1>7, <1>8, <1>9, <1>10, <1>11, <1>12,
   <1>13, <1>14 DEF IInv, Owns, Runs

\* A Dispose returns with nothing left to cancel.
LEMMA DisposeReturnsKeeps ==
  ASSUME IInv, NEW s \in Threads, DisposeReturns(s)
  PROVE  IInv'
PROOF
<1>1. Types'  BY DEF IInv, Types, DisposeReturns
<1>2. Places'  BY DEF IInv, Types, Places, DisposeReturns
<1>3. Args'  BY DEF IInv, Args, DisposeReturns
<1>4. \A x \in Tasks : Lib(x)' <=> Lib(x)  BY DEF Lib, DisposeReturns
<1>5. \A x \in Tasks : Ex(x)' <=> Ex(x)  BY DEF Ex, Cancels, DisposeReturns
<1>6. Apart'  BY DEF IInv, Owns, Apart, DisposeReturns
<1>7. OneOwner'  BY DEF IInv, Owns, OneOwner, Cancels, DisposeReturns
<1>8. NotYet'  BY <1>4 DEF IInv, Types, Places, Args, Owns, NotYet, DisposeReturns
<1>9. Counted'  BY <1>4, <1>5 DEF IInv, Owns, Counted, One, DisposeReturns
<1>10. OneRuns'  BY <1>5 DEF IInv, Types, Runs, OneRuns, Waits, DisposeReturns
<1>11. Final'
  BY DEF IInv, Types, Runs, Final, CancelIsFinal, TaskIsLocked, DisposeReturns
<1>12. Preventable'  BY DEF IInv, Types, Runs, Preventable, Waits, DisposeReturns
<1>13. Watched'  BY <1>5 DEF IInv, Types, Places, Runs, Watched, Started, DisposeReturns
<1>14. Ends'  BY DEF IInv, Types, Places, Ends, Started, DisposeReturns
<1> QED  BY <1>1, <1>2, <1>3, <1>4, <1>5, <1>6, <1>7, <1>8, <1>9, <1>10, <1>11, <1>12,
   <1>13, <1>14 DEF IInv, Owns, Runs

\* The calls are about a task that nobody is about to add.
LEMMA EnqueueWorkKeeps ==
  ASSUME IInv, NEW s \in Apps, NEW t \in Tasks, EnqueueWork(s, t)
  PROVE  IInv'
PROOF
<1>1. Types'  BY DEF IInv, Types, EnqueueWork, Call
<1>2. Places'  BY DEF IInv, Places, EnqueueWork, Call
<1>3. Args'  BY DEF IInv, Types, Places, Args, EnqueueWork, Call
<1>4. \A x \in Tasks : Lib(x)' <=> Lib(x)  BY DEF Lib, EnqueueWork, Call
<1>5. \A x \in Tasks : Ex(x)' <=> Ex(x)  BY DEF Ex, Cancels, EnqueueWork, Call
<1>6. Apart'  BY DEF IInv, Owns, Apart, EnqueueWork, Call
<1>7. OneOwner'  BY DEF IInv, Owns, OneOwner, Cancels, EnqueueWork, Call
<1>8. NotYet'  BY <1>4 DEF IInv, Types, Places, Args, Owns, NotYet, EnqueueWork, Call
<1>9. Counted'  BY <1>4, <1>5 DEF IInv, Owns, Counted, One, EnqueueWork, Call
<1>10. OneRuns'  BY <1>5 DEF IInv, Types, Runs, OneRuns, Waits, EnqueueWork, Call
<1>11. Final'
  BY DEF IInv, Types, Runs, Final, CancelIsFinal, TaskIsLocked, EnqueueWork, Call
<1>12. Preventable'  BY DEF IInv, Types, Runs, Preventable, Waits, EnqueueWork, Call
<1>13. Watched'
  BY <1>5 DEF IInv, Types, Places, Runs, Watched, Started, EnqueueWork, Call
<1>14. Ends'  BY DEF IInv, Types, Ends, Started, EnqueueWork, Call
<1> QED  BY <1>1, <1>2, <1>3, <1>4, <1>5, <1>6, <1>7, <1>8, <1>9, <1>10, <1>11, <1>12,
   <1>13, <1>14 DEF IInv, Owns, Runs

LEMMA EnqueueAfterDelayKeeps ==
  ASSUME IInv, NEW t \in Timed, EnqueueAfterDelay(t)
  PROVE  IInv'
PROOF
<1>1. Types'  BY DEF IInv, Types, EnqueueAfterDelay, Call
<1>2. Places'  BY DEF IInv, Places, EnqueueAfterDelay, Call
<1>3. Args'  BY DEF IInv, Types, Args, EnqueueAfterDelay, Call
<1>4. \A x \in Tasks : Lib(x)' <=> Lib(x)  BY DEF Lib, EnqueueAfterDelay, Call
<1>5. \A x \in Tasks : Ex(x)' <=> Ex(x)  BY DEF Ex, Cancels, EnqueueAfterDelay, Call
<1>6. Apart'  BY DEF IInv, Owns, Apart, EnqueueAfterDelay, Call
<1>7. OneOwner'  BY DEF IInv, Owns, OneOwner, Cancels, EnqueueAfterDelay, Call
<1>8. NotYet'
  BY <1>4 DEF IInv, Types, Places, Args, Owns, NotYet, EnqueueAfterDelay, Call
<1>9. Counted'  BY <1>4, <1>5 DEF IInv, Owns, Counted, One, EnqueueAfterDelay, Call
<1>10. OneRuns'  BY <1>5 DEF IInv, Types, Runs, OneRuns, Waits, EnqueueAfterDelay, Call
<1>11. Final'
  BY DEF IInv, Types, Runs, Final, CancelIsFinal, TaskIsLocked, EnqueueAfterDelay, Call
<1>12. Preventable'  BY DEF IInv, Types, Runs, Preventable, Waits, EnqueueAfterDelay, Call
<1>13. Watched'
  BY <1>5 DEF IInv, Types, Places, Runs, Watched, Started, EnqueueAfterDelay, Call
<1>14. Ends'  BY DEF IInv, Types, Ends, Started, EnqueueAfterDelay, Call
<1> QED  BY <1>1, <1>2, <1>3, <1>4, <1>5, <1>6, <1>7, <1>8, <1>9, <1>10, <1>11, <1>12,
   <1>13, <1>14 DEF IInv, Owns, Runs

LEMMA TerminateAsyncKeeps ==
  ASSUME IInv, NEW s \in Apps, NEW t \in Tasks, TerminateAsync(s, t)
  PROVE  IInv'
PROOF
<1>1. Types'  BY DEF IInv, Types, TerminateAsync, Call
<1>2. Places'  BY DEF IInv, Places, TerminateAsync, Call
<1>3. Args'  BY DEF IInv, Types, Args, TerminateAsync, Call
<1>4. \A x \in Tasks : Lib(x)' <=> Lib(x)  BY DEF Lib, TerminateAsync, Call
<1>5. \A x \in Tasks : Ex(x)' <=> Ex(x)  BY DEF Ex, Cancels, TerminateAsync, Call
<1>6. Apart'  BY DEF IInv, Owns, Apart, TerminateAsync, Call
<1>7. OneOwner'  BY DEF IInv, Owns, OneOwner, Cancels, TerminateAsync, Call
<1>8. NotYet'  BY <1>4 DEF IInv, Types, Places, Args, Owns, NotYet, TerminateAsync, Call
<1>9. Counted'  BY <1>4, <1>5 DEF IInv, Owns, Counted, One, TerminateAsync, Call
<1>10. OneRuns'  BY <1>5 DEF IInv, Types, Runs, OneRuns, Waits, TerminateAsync, Call
<1>11. Final'
  BY DEF IInv, Types, Runs, Final, CancelIsFinal, TaskIsLocked, TerminateAsync, Call
<1>12. Preventable'  BY DEF IInv, Types, Runs, Preventable, Waits, TerminateAsync, Call
<1>13. Watched'
  BY <1>5 DEF IInv, Types, Places, Runs, Watched, Started, TerminateAsync, Call
<1>14. Ends'  BY DEF IInv, Types, Ends, Started, TerminateAsync, Call
<1> QED  BY <1>1, <1>2, <1>3, <1>4, <1>5, <1>6, <1>7, <1>8, <1>9, <1>10, <1>11, <1>12,
   <1>13, <1>14 DEF IInv, Owns, Runs

LEMMA DisposeKeeps ==
  ASSUME IInv, NEW s \in Apps, NEW t \in Tasks, Dispose(s, t)
  PROVE  IInv'
PROOF
<1>1. Types'  BY DEF IInv, Types, Dispose, Call
<1>2. Places'  BY DEF IInv, Types, Places, Dispose, Call
<1>3. Args'  BY DEF IInv, Types, Args, Dispose, Call
<1>4. \A x \in Tasks : Lib(x)' <=> Lib(x)  BY DEF Lib, Dispose, Call
<1>5. \A x \in Tasks : Ex(x)' <=> Ex(x)  BY DEF Ex, Cancels, Dispose, Call
<1>6. Apart'  BY DEF IInv, Owns, Apart, Dispose, Call
<1>7. OneOwner'  BY DEF IInv, Owns, OneOwner, Cancels, Dispose, Call
<1>8. NotYet'  BY <1>4 DEF IInv, Types, Places, Args, Owns, NotYet, Dispose, Call
<1>9. Counted'  BY <1>4, <1>5 DEF IInv, Owns, Counted, One, Dispose, Call
<1>10. OneRuns'  BY <1>5 DEF IInv, Types, Runs, OneRuns, Waits, Dispose, Call
<1>11. Final'  BY DEF IInv, Types, Runs, Final, CancelIsFinal, TaskIsLocked, Dispose, Call
<1>12. Preventable'  BY DEF IInv, Types, Runs, Preventable, Waits, Dispose, Call
<1>13. Watched'  BY <1>5 DEF IInv, Types, Places, Runs, Watched, Started, Dispose, Call
<1>14. Ends'  BY DEF IInv, Types, Ends, Started, Dispose, Call
<1> QED  BY <1>1, <1>2, <1>3, <1>4, <1>5, <1>6, <1>7, <1>8, <1>9, <1>10, <1>11, <1>12,
   <1>13, <1>14 DEF IInv, Owns, Runs

-----------------------------------------------------------------------------
LEMMA InitKeeps == Init => IInv
PROOF
<1> SUFFICES ASSUME Init PROVE IInv
  OBVIOUS
<1>1. Types
  <2>1. task \in [Tasks -> TaskRecords]
    BY DEF Init, NoTask
  <2>2. pc \in [Threads -> Labels] /\ arg \in [Threads -> Tasks \cup {None}]
    BY DEF Init
  <2>3. todo \in [Threads -> SUBSET Tasks]
    BY DEF Init
  <2>4. fifo \in Seq(Tasks)
    BY DEF Init
  <2> QED  BY <2>1, <2>2, <2>3, <2>4 DEF Init, Types
<1>2. Places  BY DEF Init, Places
<1>3. Args  BY DEF Init, Args
<1>4. \A t \in Tasks : ~Lib(t) /\ ~Ex(t)  BY DEF Init, Lib, Ex, Cancels
<1>5. Owns  BY <1>4 DEF Init, NoTask, Owns, Apart, OneOwner, NotYet, Counted, One, Cancels
<1>6. Runs  BY DEF Init, NoTask, Runs, OneRuns, Final, CancelIsFinal, Preventable, Watched
<1>7. Ends  BY DEF Init, NoTask, Ends, Started
<1> QED  BY <1>1, <1>2, <1>3, <1>5, <1>6, <1>7 DEF IInv

\* Every step of the threads, the worker and libdispatch keeps the invariant.
LEMMA NextKeeps == IInv /\ [Next]_vars => IInv'
PROOF
<1> SUFFICES ASSUME IInv, [Next]_vars PROVE IInv'
  OBVIOUS
<1>1. CASE Calls
  <2>1. ASSUME NEW s \in Apps, NEW t \in Tasks,
               EnqueueWork(s, t) \/ TerminateAsync(s, t) \/ Dispose(s, t)
        PROVE  IInv'
    BY <2>1, EnqueueWorkKeeps, TerminateAsyncKeeps, DisposeKeeps
  <2>2. ASSUME NEW t \in Timed, EnqueueAfterDelay(t)
        PROVE  IInv'
    BY <2>2, EnqueueAfterDelayKeeps
  <2>3. ASSUME NEW t \in Timed, CancelDelayed(t), UNCHANGED returned
        PROVE  IInv'
    BY <2>3, CancelDelayedKeeps
  <2> QED  BY <1>1, <2>1, <2>2, <2>3 DEF Calls
<1>2. ASSUME NEW s \in Threads, Step(s)
      PROVE  IInv'
  <2>1. CASE TerminationStarted(s) \/ DisposeReturns(s)
    BY <2>1, TerminationStartedKeeps, DisposeReturnsKeeps
  <2>2. CASE (EnterRestrictedMode(s) \/ Enqueue(s) \/ Insert(s) \/ Dispatch(s)) /\ UNCHANGED returned
    BY <2>2, EnterRestrictedModeKeeps, EnqueueKeeps, InsertKeeps, DispatchKeeps
  <2>3. CASE (DisposeQueue(s) \/ Swap(s)) /\ UNCHANGED returned
    BY <2>3, DisposeQueueKeeps, SwapKeeps
  <2>4. ASSUME NEW t \in Tasks, CancelNext(s, t), UNCHANGED returned
        PROVE  IInv'
    BY <2>4, CancelNextKeeps
  <2>5. CASE (TaskCancel(s) \/ TaskAwait(s) \/ TaskRelease(s)) /\ UNCHANGED returned
    BY <2>5, TaskCancelKeeps, TaskAwaitKeeps, TaskReleaseKeeps
  <2> QED  BY <1>2, <2>1, <2>2, <2>3, <2>4, <2>5 DEF Step
<1>3. CASE Work
  BY <1>3, TaskStartKeeps, OperationReturnsKeeps, TaskFinishKeeps, OnCompletionKeeps,
     TaskDropKeeps, InvokeKeeps DEF Work
<1>4. ASSUME NEW t \in Timed, Fire(t)
      PROVE  IInv'
  BY <1>4, TimerFiresKeeps DEF Fire
<1>5. CASE UNCHANGED vars
  <2>1. Types' /\ Places' /\ Args' /\ Ends'
    BY <1>5 DEF IInv, vars, Types, Places, Args, Ends, Started
  <2>2. \A t \in Tasks : (Lib(t)' <=> Lib(t)) /\ (Ex(t)' <=> Ex(t)) /\ (Waits(t)' <=> Waits(t))
    BY <1>5 DEF vars, Lib, Ex, Cancels, Waits
  <2>3. Owns'
    BY <1>5 DEF IInv, vars, Owns, Apart, OneOwner, NotYet, Counted, Lib, Ex, Cancels
  <2>4. Runs'
    BY <1>5 DEF IInv, vars, Runs, OneRuns, Final, CancelIsFinal, TaskIsLocked, Preventable,
       Watched, Started, Waits, Ex, Cancels
  <2> QED  BY <2>1, <2>3, <2>4 DEF IInv
<1> QED  BY <1>1, <1>2, <1>3, <1>4, <1>5 DEF Next

THEOREM AlwaysInductive == Spec => []IInv
PROOF
<1> QED  BY InitKeeps, NextKeeps, PTL DEF Spec

-----------------------------------------------------------------------------
\* Type correctness, with a bound on the reference counts.
THEOREM ShutdownTypes == Spec => []TypeOK
PROOF
<1>1. ASSUME IInv PROVE TypeOK
  <2>1. \A t \in Tasks : task[t].ref \in 0 .. 3
    BY <1>1 DEF IInv, Owns, Counted, One
  <2> QED  BY <1>1, <2>1 DEF IInv, Types, TypeOK
<1> QED  BY <1>1, AlwaysInductive, PTL

\* A reference count is the number of owners, and what is about to be retained for
\* libdispatch has not been deleted.
THEOREM CountsAreRight == Spec => []RefsAreOwned
PROOF
<1>1. ASSUME IInv, NEW t \in Tasks
      PROVE  task[t].ref = Owners(t)
  <2> DEFINE Disposing == {s \in Threads : t \in todo[s]}
             Calling == {s \in Threads : arg[s] = t /\ pc[s] \in {"cancel", "await", "release"}}
  <2>1. Calling = {s \in Threads : Cancels(s, t)}
    BY DEF Cancels
  <2>2. One(Lib(t)) = One(t \in timers) + One(\E i \in DOMAIN fifo : fifo[i] = t) + One(run = t)
    BY <1>1 DEF IInv, Owns, Apart, Lib, One
  <2>3. CASE Disposing = {} /\ Calling = {}
    <3>1. Ex(t) <=> t \in tasks
      BY <2>1, <2>3 DEF Ex
    <3>2. Cardinality(Disposing) = 0 /\ Cardinality(Calling) = 0
      BY <2>3, FS_EmptySet
    <3> QED  BY <1>1, <2>2, <3>1, <3>2 DEF IInv, Owns, Counted, Owners, One
  <2>4. ASSUME NEW s \in Threads, t \in todo[s]
        PROVE  task[t].ref = Owners(t)
    <3>1. Disposing = {s} /\ Calling = {} /\ t \notin tasks /\ Ex(t)
      BY <1>1, <2>1, <2>4 DEF IInv, Owns, OneOwner, Ex
    <3>2. Cardinality(Disposing) = 1 /\ Cardinality(Calling) = 0
      BY <3>1, FS_EmptySet, FS_Singleton
    <3> QED  BY <1>1, <2>2, <3>1, <3>2 DEF IInv, Owns, Counted, Owners, One
  <2>5. ASSUME NEW s \in Threads, Cancels(s, t)
        PROVE  task[t].ref = Owners(t)
    <3>1. Disposing = {} /\ Calling = {s} /\ t \notin tasks /\ Ex(t)
      BY <1>1, <2>1, <2>5 DEF IInv, Owns, OneOwner, Ex
    <3>2. Cardinality(Disposing) = 0 /\ Cardinality(Calling) = 1
      BY <3>1, FS_EmptySet, FS_Singleton
    <3> QED  BY <1>1, <2>2, <3>1, <3>2 DEF IInv, Owns, Counted, Owners, One
  <2> QED  BY <2>1, <2>3, <2>4, <2>5
<1>2. ASSUME IInv, NEW s \in Threads, pc[s] = "dispatch"
      PROVE  task[arg[s]].ref > 0
  <2>1. arg[s] \in Tasks /\ Ex(arg[s])
    BY <1>2 DEF IInv, Args, Ex
  <2> QED  BY <1>2, <2>1 DEF IInv, Owns, Counted, One
<1>3. IInv => RefsAreOwned  BY <1>1, <1>2 DEF RefsAreOwned
<1> QED  BY <1>3, AlwaysInductive, PTL

\* By the time Cancel has returned, the task makes no callbacks to the executor, and
\* it has ended or never runs, unless the caller is what it runs.
THEOREM CancelReturnsFinal == Spec => []CancelIsFinal
PROOF
<1>1. IInv => CancelIsFinal  BY DEF IInv, Runs, Final
<1> QED  BY <1>1, AlwaysInductive, PTL

\* Once Dispose has returned, no operation runs: one that ran would be owned by a
\* call that waits for it, or have cancelled itself before a termination started.
THEOREM NothingIsLeftRunning == Spec => []NothingRunsAfterDispose
PROOF
<1>1. ASSUME IInv, returned, pc[Worker] \in Inside \cup {"complete"}
      PROVE  FALSE
  <2>1. tasks = {} /\ Started /\ \A s \in Threads : todo[s] = {}
    BY <1>1 DEF IInv, Places, Ends
  <2>2. \A s \in Apps : pc[s] \notin Cancelling
    BY <1>1 DEF IInv, Ends
  <2>3. CASE pc[Worker] \in Inside
    <3>1. Ex(run)
      BY <1>1, <2>1, <2>3 DEF IInv, Runs, Watched
    <3>2. Cancels(Worker, run)
      BY <2>1, <2>2, <3>1 DEF Ex, Cancels
    <3> QED  BY <1>1, <2>1, <3>2 DEF IInv, Runs, Watched, Cancels
  <2>4. CASE pc[Worker] = "complete"
    BY <1>1, <2>1, <2>2, <2>4 DEF IInv, Runs, OneRuns, Waits
  <2> QED  BY <1>1, <2>3, <2>4
<1>2. IInv => NothingRunsAfterDispose  BY <1>1 DEF NothingRunsAfterDispose
<1> QED  BY <1>2, AlwaysInductive, PTL
=============================================================================
