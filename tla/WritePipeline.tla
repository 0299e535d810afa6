---------------------------- MODULE WritePipeline ----------------------------
(***************************************************************************)
(* The write path of the Firestore client the Posts app runs on: SyncEngine *)
(* takes the user's writes, LocalStore keeps them in the mutation queue of  *)
(* the user, RemoteStore sends the first of them down a WriteStream and     *)
(* removes them as the backend answers, and the credentials provider may    *)
(* replace the user at any time.  The worker queue runs one job at a time,  *)
(* so a handler is one action; between two handlers the connection may      *)
(* drop, the app may crash and the user may change.                         *)
(* External: the backend, the network and the auth library.                *)
(***************************************************************************)
EXTENDS MutationQueue

CONSTANTS
  MaxPendingWrites,   \* kMaxPendingWrites
  MaxJobs,            \* bound: the provider's jobs that wait on the worker queue
  Bad,                \* the writes the backend refuses for good
  OkEnds              \* whether the backend may end a call with status OK

ASSUME PipelineAssumption ==
  /\ MaxPendingWrites \in Nat \ {0}
  /\ MaxJobs \in Nat \ {0}
  /\ Bad \subseteq Writes
  /\ Users # {}

VARIABLES
  user,        \* current_user_ of SyncEngine, whose queue LocalStore uses
  callbacks,   \* mutation_callbacks_: [user, id], and the write the closure is about
  waits,       \* pending_writes_callbacks_: [id], and the writes queued when it came
  network,     \* is_network_enabled_
  pipeline,    \* write_pipeline_
  stream,      \* write_stream_: state_, handshake_complete_, the idle timer, and
               \*   the requests for a token, by whether close_count_ still matches
  call,        \* external: the RPC under the stream, both directions of it
  credUser,    \* current_user of the credentials provider
  jobs,        \* the jobs the provider put on the worker queue
  made,        \* history: the writes each user made, in order
  committed,   \* external: the writes the backend has applied
  accepted,    \* history: the writes whose callback got OK
  rejected,    \* history: the writes whose callback got an error
  waited,      \* history: the writes that a waitForPendingWrites said were done
  aborted      \* a HARD_ASSERT has failed and the process is gone

api == <<callbacks, waits>>
remote == <<network, pipeline, stream, call>>
history == <<made, accepted, rejected, waited>>
vars == <<queue, user, api, remote, credUser, jobs, history, committed, aborted>>

-----------------------------------------------------------------------------
(* Stream: the state machine of stream.cc, as functions of its fields.      *)

FreshStream ==
  [state |-> "Initial", handshake |-> FALSE, idle |-> FALSE, asked |-> {}]

NoCall(u) ==
  [user |-> u, hello |-> "none", end |-> "none", out |-> <<>>, in |-> <<>>]
HungUp == NoCall(call.user)

IsStarted(s) == s.state \in {"Starting", "Backoff", "Open"}
IsReady(s) == s.state = "Open" /\ s.handshake

\* Start: a stream that failed backs off first; otherwise RequestCredentials.
Start(s) ==
  IF s.state = "Error" THEN [s EXCEPT !.state = "Backoff"]
  ELSE [s EXCEPT !.state = "Starting", !.asked = @ \cup {"current"}]

\* Mutant: close_count_ is not incremented.
ClosedSameCount(s, to) ==
  [state |-> to, handshake |-> FALSE, idle |-> FALSE, asked |-> s.asked]

\* Mutant: handshake_complete_ is not reset.
ClosedKeepingHandshake(s, to) ==
  [state |-> to, handshake |-> s.handshake, idle |-> FALSE,
   asked |-> IF s.asked = {} THEN {} ELSE {"stale"}]

\* Close and WriteStream::NotifyStreamClose: the timers are cancelled, and the
\* answer to a request for a token made before now comes too late.
Closed(s, to) ==
  [state |-> to, handshake |-> FALSE, idle |-> FALSE,
   asked |-> IF s.asked = {} THEN {} ELSE {"stale"}]

\* Step 3 of Close for the tokens that already wait on the worker queue.
Stale(js) == [i \in DOMAIN js |-> [js[i] EXCEPT !.fresh = FALSE]]

\* What the backend may still apply of the requests of a call that is given up:
\* those that had reached it, up to one it refuses.
Flushed ==
  {committed \cup {call.out[i] : i \in 1 .. n} :
     n \in {m \in 0 .. Len(call.out) :
              /\ m > 0 => call.end # "permanent"
              /\ \A i \in 1 .. m : call.out[i] \notin Bad}}

-----------------------------------------------------------------------------
(* RemoteStore.                                                             *)

LastId(p) == IF p = <<>> THEN kBatchIdUnknown ELSE p[Len(p)].id

\* Mutant: the idle timer goes on although a batch was added and sent.
FillWithoutCancel(on, rows, p, s, c) ==
  \E added \in NextMutationBatches(rows, LastId(p),
                                   IF on THEN MaxPendingWrites - Len(p) ELSE 0) :
    LET full == p \o added IN
    /\ pipeline' = full
    /\ call' = IF IsReady(s)
               THEN [c EXCEPT !.out = @ \o [i \in DOMAIN added |-> added[i].w]]
               ELSE c
    /\ stream' = CASE on /\ full = <<>> /\ s.state = "Open" -> [s EXCEPT !.idle = TRUE]
                   [] on /\ full # <<>> /\ ~IsStarted(s) -> Start(s)
                   [] OTHER -> s

\* FillWritePipeline with AddToWritePipeline, MarkIdle and StartWriteStream: the
\* pipeline p grows by the next batches among the rows of the user; a stream s
\* that is ready sends them down its call c, one that has nothing to do is marked
\* idle, and one that is needed is started.
FillWritePipeline(on, rows, p, s, c) ==
  \E added \in NextMutationBatches(rows, LastId(p),
                                   IF on THEN MaxPendingWrites - Len(p) ELSE 0) :
    LET full == p \o added IN
    /\ pipeline' = full
    /\ call' = IF IsReady(s)
               THEN [c EXCEPT !.out = @ \o [i \in DOMAIN added |-> added[i].w]]
               ELSE c
    /\ stream' = CASE on /\ full = <<>> /\ s.state = "Open" -> [s EXCEPT !.idle = TRUE]
                   [] IsReady(s) /\ added # <<>> -> [s EXCEPT !.idle = FALSE]
                   [] on /\ full # <<>> /\ ~IsStarted(s) -> Start(s)
                   [] OTHER -> s

\* RestartNetwork, with the rows that the pipeline is filled from again.  The
\* backoff is inhibited, so that the stream starts at once.
RestartNetwork(rows, js) ==
  /\ committed' \in Flushed
  /\ jobs' = Stale(js)
  /\ FillWritePipeline(TRUE, rows, <<>>, Closed(stream, "Initial"), HungUp)

EnableNetwork ==
  /\ network' = TRUE
  /\ FillWritePipeline(TRUE, table[user], pipeline, stream, call)
  /\ UNCHANGED <<queue, user, api, credUser, jobs, history, committed, aborted>>

\* Mutant: the batches that were being sent stay in the pipeline.
DisableNetworkOnly ==
  /\ network
  /\ network' = FALSE
  /\ committed' \in Flushed
  /\ jobs' = Stale(jobs)
  /\ stream' = IF IsStarted(stream) THEN Closed(stream, "Initial") ELSE stream
  /\ call' = HungUp
  /\ UNCHANGED <<queue, user, api, credUser, pipeline, history, aborted>>

DisableNetwork ==
  /\ network
  /\ network' = FALSE
  /\ committed' \in Flushed
  /\ jobs' = Stale(jobs)
  /\ stream' = IF IsStarted(stream) THEN Closed(stream, "Initial") ELSE stream
  /\ call' = HungUp
  /\ pipeline' = <<>>
  /\ UNCHANGED <<queue, user, api, credUser, history, aborted>>

\* The callback of the connectivity monitor: the network is there again.
ConnectivityChanged ==
  /\ network
  /\ RestartNetwork(table[user], jobs)
  /\ UNCHANGED <<queue, user, api, credUser, network, history, aborted>>

-----------------------------------------------------------------------------
(* SyncEngine: the calls of the user and what they are told.                *)

\* WriteMutations.  Inserting into the map keeps a callback that has the key.
WriteMutations(w) ==
  /\ \A u \in Users : \A i \in DOMAIN made[u] : made[u][i] # w
  /\ AddMutationBatch(user, [id |-> nextId, w |-> w])
  /\ callbacks' = IF \E c \in callbacks : c.user = user /\ c.id = nextId THEN callbacks
                  ELSE callbacks \cup {[user |-> user, id |-> nextId, w |-> w]}
  /\ made' = [made EXCEPT ![user] = Append(@, w)]
  /\ FillWritePipeline(network, table'[user], pipeline, stream, call)
  /\ UNCHANGED <<user, waits, network, credUser, jobs, committed,
                 accepted, rejected, waited, aborted>>

\* RegisterPendingWritesCallback, when a batch is pending: otherwise the
\* callback is given OK at once, which changes nothing.
WaitForPendingWrites ==
  /\ table[user] # {}
  /\ \E id \in HighestUnacknowledged(table[user]) :
       waits' = waits \cup {[id |-> id, need |-> {b.w : b \in table[user]}]}
  /\ UNCHANGED <<queue, user, callbacks, remote, credUser, jobs, history, committed, aborted>>

\* NotifyUser and TriggerPendingWriteCallbacks for the batch with this id.
Told(id) == {c \in callbacks : c.user = user /\ c.id = id}
Triggered(id) == {x \in waits : x.id = id}

Answer(id, ok) ==
  /\ accepted' = IF ok THEN accepted \cup {c.w : c \in Told(id)} ELSE accepted
  /\ rejected' = IF ok THEN rejected ELSE rejected \cup {c.w : c \in Told(id)}
  /\ waited' = waited \cup UNION {x.need : x \in Triggered(id)}
  /\ callbacks' = callbacks \ Told(id)
  /\ waits' = waits \ Triggered(id)

\* Mutant: the streams are restarted only when they are idle anyway.
HandleCredentialChangeWithoutRestart(u) ==
  /\ user' = u
  /\ waits' = IF u # user THEN {} ELSE waits
  /\ nextId' \in IF u # user THEN LoadNextBatchIdFromDb(table) ELSE {nextId}
  /\ \/ /\ network /\ ~IsStarted(stream)
        /\ RestartNetwork(table[u], Tail(jobs))
     \/ /\ ~network \/ IsStarted(stream)
        /\ jobs' = Tail(jobs)
        /\ UNCHANGED <<pipeline, stream, call, committed>>
  /\ UNCHANGED <<table, callbacks, network, credUser, history, aborted>>

\* HandleCredentialChange: the waiting callbacks of the previous user fail, the
\* queue of the new user is opened, and the network restarts in any case.
HandleCredentialChange(u) ==
  /\ user' = u
  /\ waits' = IF u # user THEN {} ELSE waits
  /\ nextId' \in IF u # user THEN LoadNextBatchIdFromDb(table) ELSE {nextId}
  /\ \/ /\ network
        /\ RestartNetwork(table[u], Tail(jobs))
     \/ /\ ~network
        /\ jobs' = Tail(jobs)
        /\ UNCHANGED <<pipeline, stream, call, committed>>
  /\ UNCHANGED <<table, callbacks, network, credUser, history, aborted>>

-----------------------------------------------------------------------------
(* The write stream's handlers.                                             *)

Abort ==
  /\ aborted' = TRUE
  /\ UNCHANGED <<queue, user, api, remote, credUser, history, committed>>

\* Mutant: an error before the handshake is taken for one of the first write.
CloseWithErrorOfFirstWrite(permanent, js) ==
  /\ committed' \in Flushed
  /\ jobs' = Stale(js)
  /\ \/ /\ permanent /\ pipeline # <<>>
        /\ table' = Removed(table, user, Head(pipeline).id)
        /\ Answer(Head(pipeline).id, FALSE)
        /\ FillWritePipeline(network, table'[user], Tail(pipeline),
                             Closed(stream, "Initial"), HungUp)
     \/ /\ ~(permanent /\ pipeline # <<>>)
        /\ call' = HungUp
        /\ stream' = IF network /\ pipeline # <<>> THEN Start(Closed(stream, "Error"))
                     ELSE Closed(stream, "Error")
        /\ UNCHANGED <<table, pipeline, api, accepted, rejected, waited>>
  /\ UNCHANGED <<nextId, user, network, credUser, made, aborted>>

\* Mutant: after a transient error the stream waits for the next write.
CloseWithErrorAndWait(permanent, js) ==
  /\ committed' \in Flushed
  /\ jobs' = Stale(js)
  /\ \/ /\ permanent /\ stream.handshake /\ pipeline # <<>>
        /\ table' = Removed(table, user, Head(pipeline).id)
        /\ Answer(Head(pipeline).id, FALSE)
        /\ FillWritePipeline(network, table'[user], Tail(pipeline),
                             Closed(stream, "Initial"), HungUp)
     \/ /\ ~(permanent /\ stream.handshake /\ pipeline # <<>>)
        /\ call' = HungUp
        /\ stream' = Closed(stream, "Error")
        /\ UNCHANGED <<table, pipeline, api, accepted, rejected, waited>>
  /\ UNCHANGED <<nextId, user, network, credUser, made, aborted>>

\* OnStreamFinish with an error, Close and OnWriteStreamClose: after the
\* handshake a permanent error is taken for the answer to the first write of the
\* pipeline, which is dropped, and the stream starts again without delay; with
\* any other error the stream backs off and starts again if it is needed.
CloseWithError(permanent, js) ==
  /\ committed' \in Flushed
  /\ jobs' = Stale(js)
  /\ \/ /\ permanent /\ stream.handshake /\ pipeline # <<>>
        /\ table' = Removed(table, user, Head(pipeline).id)
        /\ Answer(Head(pipeline).id, FALSE)
        /\ FillWritePipeline(network, table'[user], Tail(pipeline),
                             Closed(stream, "Initial"), HungUp)
     \/ /\ ~(permanent /\ stream.handshake /\ pipeline # <<>>)
        /\ call' = HungUp
        /\ stream' = IF network /\ pipeline # <<>> THEN Start(Closed(stream, "Error"))
                     ELSE Closed(stream, "Error")
        /\ UNCHANGED <<table, pipeline, api, accepted, rejected, waited>>
  /\ UNCHANGED <<nextId, user, network, credUser, made, aborted>>

\* The token the stream asked for: ResumeStartWithCredentials opens the call,
\* OnStreamStart the stream, and the handshake is sent.
TokenArrives ==
  /\ jobs # <<>> /\ Head(jobs).kind = "token"
  /\ Head(jobs).fresh /\ Head(jobs).ok
  /\ \/ /\ stream.state = "Starting"
        /\ stream' = [stream EXCEPT !.state = "Open"]
        /\ call' = [NoCall(Head(jobs).user) EXCEPT !.hello = "asked", !.end = "open"]
        /\ jobs' = Tail(jobs)
        /\ UNCHANGED <<queue, user, api, network, pipeline, credUser, history, committed,
                       aborted>>
     \/ stream.state # "Starting" /\ Abort /\ UNCHANGED jobs

\* A token that comes after the stream was closed is dropped.
TokenTooLate ==
  /\ jobs # <<>> /\ Head(jobs).kind = "token"
  /\ ~Head(jobs).fresh
  /\ jobs' = Tail(jobs)
  /\ UNCHANGED <<queue, user, api, remote, credUser, history, committed, aborted>>

\* The provider could not get a token.
TokenFails ==
  /\ jobs # <<>> /\ Head(jobs).kind = "token"
  /\ Head(jobs).fresh /\ ~Head(jobs).ok
  /\ CloseWithError(FALSE, Tail(jobs))

UserChanges ==
  /\ jobs # <<>> /\ Head(jobs).kind = "change"
  /\ HandleCredentialChange(Head(jobs).user)

\* BackoffAndTryRestarting, when the delay is over.
BackoffElapsed ==
  /\ stream.state = "Backoff"
  /\ stream' = Start([stream EXCEPT !.state = "Initial"])
  /\ UNCHANGED <<queue, user, api, network, pipeline, call, credUser, jobs, history,
                 committed, aborted>>

\* The idle timer calls Stop; OnWriteStreamClose asserts that nothing is pending.
IdleTimeout ==
  /\ stream.idle
  /\ \/ /\ ~(network /\ pipeline # <<>>)
        /\ committed' \in Flushed
        /\ jobs' = Stale(jobs)
        /\ stream' = Closed(stream, "Initial")
        /\ call' = HungUp
        /\ UNCHANGED <<queue, user, api, network, pipeline, credUser, history, aborted>>
     \/ network /\ pipeline # <<>> /\ Abort /\ UNCHANGED jobs

\* The writes of the pipeline, in order.
Mutations(p) == [i \in DOMAIN p |-> p[i].w]

\* Mutant: what is in the pipeline already is not sent.
HandshakeCompleteWithoutWrites ==
  /\ call.hello = "answered"
  /\ stream' = [stream EXCEPT !.handshake = TRUE]
  /\ call' = [call EXCEPT !.hello = "done"]
  /\ UNCHANGED <<queue, user, api, network, pipeline, credUser, jobs, history,
                 committed, aborted>>

\* OnWriteStreamHandshakeComplete: the pipeline is sent.
OnWriteStreamHandshakeComplete ==
  /\ call.hello = "answered"
  /\ stream' = [stream EXCEPT !.handshake = TRUE,
                              !.idle = IF pipeline = <<>> THEN @ ELSE FALSE]
  /\ call' = [call EXCEPT !.hello = "done", !.out = @ \o Mutations(pipeline)]
  /\ UNCHANGED <<queue, user, api, network, pipeline, credUser, jobs, history,
                 committed, aborted>>

\* OnWriteStreamMutationResult: the first batch of the pipeline was applied.
OnWriteStreamMutationResult ==
  /\ call.in # <<>>
  /\ \/ /\ pipeline # <<>>
        /\ Answer(Head(pipeline).id, TRUE)
        /\ table' = Removed(table, user, Head(pipeline).id)
        /\ FillWritePipeline(network, table'[user], Tail(pipeline), stream,
                             [call EXCEPT !.in = Tail(@)])
        /\ UNCHANGED <<nextId, user, network, credUser, jobs, made, committed, aborted>>
     \/ pipeline = <<>> /\ Abort /\ UNCHANGED jobs

\* OnStreamFinish with the status of the backend or of the connection.  Of the
\* backend's, the responses that came before it have been read.
OnStreamFinish ==
  /\ call.end \in {"transient", "permanent"}
  /\ call.in = <<>> \/ call.end = "transient"
  /\ CloseWithError(call.end = "permanent", jobs)

\* OnStreamFinish when the backend ends the call with status OK: Close takes it
\* for a graceful stop, and OnWriteStreamClose asserts that nothing is pending.
OnStreamFinishOk ==
  /\ call.end = "ok" /\ call.in = <<>>
  /\ \/ /\ ~(network /\ pipeline # <<>>)
        /\ committed' \in Flushed
        /\ jobs' = Stale(jobs)
        /\ stream' = Closed(stream, "Initial")
        /\ call' = HungUp
        /\ UNCHANGED <<queue, user, api, network, pipeline, credUser, history, aborted>>
     \/ network /\ pipeline # <<>> /\ Abort /\ UNCHANGED jobs

-----------------------------------------------------------------------------
(* The credentials provider and, external, the auth library behind it.      *)

Job(kind, u, fresh, ok) == [kind |-> kind, user |-> u, fresh |-> fresh, ok |-> ok]

\* The auth state changes: under its lock the provider takes the new user and
\* puts the change on the worker queue.
SignIn(u) ==
  /\ Len(jobs) < MaxJobs
  /\ credUser' = u
  /\ jobs' = Append(jobs, Job("change", u, FALSE, TRUE))
  /\ UNCHANGED <<queue, user, api, remote, history, committed, aborted>>

\* GetToken is answered, for the user signed in now: when the token counter has
\* moved the provider asks again.
TokenAnswered(age, ok) ==
  /\ Len(jobs) < MaxJobs
  /\ age \in stream.asked
  /\ stream' = [stream EXCEPT !.asked = @ \ {age}]
  /\ jobs' = Append(jobs, Job("token", credUser, age = "current", ok))
  /\ UNCHANGED <<queue, user, api, network, pipeline, call, credUser, history,
                 committed, aborted>>

-----------------------------------------------------------------------------
(* External: the backend, which handles the requests of a call in order, and *)
(* the connection.                                                          *)

Serve(c) ==
  /\ call.end = "open"
  /\ call' = c
  /\ UNCHANGED <<queue, user, api, network, pipeline, stream, credUser, jobs, history, aborted>>

BackendGreets ==
  /\ call.hello = "asked"
  /\ Serve([call EXCEPT !.hello = "answered"])
  /\ UNCHANGED committed

BackendRefusesGreeting ==
  /\ call.hello = "asked"
  /\ Serve([call EXCEPT !.end = "permanent"])
  /\ UNCHANGED committed

BackendCommits ==
  /\ call.out # <<>> /\ Head(call.out) \notin Bad
  /\ Serve([call EXCEPT !.out = Tail(@), !.in = Append(@, Head(call.out))])
  /\ committed' = committed \cup {Head(call.out)}

BackendRefuses ==
  /\ call.out # <<>> /\ Head(call.out) \in Bad
  /\ Serve([call EXCEPT !.end = "permanent"])
  /\ UNCHANGED committed

BackendEndsOk ==
  /\ OkEnds
  /\ Serve([call EXCEPT !.end = "ok"])
  /\ UNCHANGED committed

ConnectionDrops == Serve([call EXCEPT !.end = "transient"]) /\ UNCHANGED committed

-----------------------------------------------------------------------------
(* A crash of the app and its next start.                                   *)

\* Everything but the table is new, from FirestoreClient::Initialize: LocalStore
\* loads the next batch id, and RemoteStore enables the network.
Restarted ==
  /\ user' = credUser
  /\ nextId' \in LoadNextBatchIdFromDb(table)
  /\ callbacks' = {} /\ waits' = {}
  /\ network' = TRUE
  /\ jobs' = <<>>
  /\ committed' \in Flushed
  /\ FillWritePipeline(TRUE, table[credUser], <<>>, FreshStream, HungUp)
  /\ aborted' = FALSE
  /\ UNCHANGED <<table, credUser, made>>

\* The process may end at any time; after a failed assertion it has.
Crash == Restarted /\ UNCHANGED <<accepted, rejected, waited>>

\* The crash comes in HandleSuccessfulWrite, between NotifyUser and
\* AcknowledgeBatch: the user has been told, the batch is still in the table.
CrashAfterAnswer ==
  /\ call.in # <<>> /\ pipeline # <<>>
  /\ accepted' = accepted \cup {c.w : c \in Told(Head(pipeline).id)}
  /\ waited' = waited \cup UNION {x.need : x \in Triggered(Head(pipeline).id)}
  /\ UNCHANGED rejected
  /\ Restarted

-----------------------------------------------------------------------------
Init ==
  /\ table = [u \in Users |-> {}] /\ nextId = 1
  /\ user \in Users /\ credUser = user
  /\ callbacks = {} /\ waits = {}
  /\ network = TRUE /\ pipeline = <<>>
  /\ stream = FreshStream /\ call = NoCall(user)
  /\ jobs = <<>>
  /\ made = [u \in Users |-> <<>>]
  /\ committed = {} /\ accepted = {} /\ rejected = {} /\ waited = {}
  /\ aborted = FALSE

\* What the user does, and the idle timer.
Calls ==
  \/ \E w \in Writes : WriteMutations(w)
  \/ WaitForPendingWrites
  \/ EnableNetwork
  \/ IdleTimeout

\* What the worker queue, the backend and the auth library go on doing.
RunsJob == UserChanges \/ TokenArrives \/ TokenTooLate \/ TokenFails
ReadsEnd == OnStreamFinish \/ OnStreamFinishOk
Serves == BackendGreets \/ BackendCommits \/ BackendRefuses

Progress ==
  \/ RunsJob
  \/ BackoffElapsed
  \/ OnWriteStreamHandshakeComplete \/ OnWriteStreamMutationResult \/ ReadsEnd
  \/ TokenAnswered("current", TRUE) \/ TokenAnswered("stale", TRUE)
  \/ Serves

\* What goes wrong, or is turned off.
Disturbance ==
  \/ \E u \in Users : SignIn(u)
  \/ TokenAnswered("current", FALSE)
  \/ DisableNetwork \/ ConnectivityChanged
  \/ ConnectionDrops \/ BackendRefusesGreeting \/ BackendEndsOk
  \/ Crash \/ CrashAfterAnswer

Next ==
  \/ ~aborted /\ (Calls \/ Progress \/ Disturbance)
  \/ aborted /\ Crash

Spec == Init /\ [][Next]_vars

\* While the process runs, the worker queue runs the jobs it has, the timer of the
\* backoff fires, the auth library and the backend answer.  Nothing makes the user,
\* the network or the idle timer do anything, or starts the app again.
Fairness ==
  /\ WF_vars(~aborted /\ RunsJob)
  /\ WF_vars(~aborted /\ BackoffElapsed)
  /\ WF_vars(~aborted /\ OnWriteStreamHandshakeComplete)
  /\ WF_vars(~aborted /\ OnWriteStreamMutationResult)
  /\ WF_vars(~aborted /\ ReadsEnd)
  /\ WF_vars(~aborted /\ TokenAnswered("current", TRUE))
  /\ WF_vars(~aborted /\ Serves)

FairSpec == Spec /\ Fairness

-----------------------------------------------------------------------------
(* Properties.                                                              *)

Queued(u) == {b.w : b \in table[u]}
MadeBy(u) == {made[u][i] : i \in DOMAIN made[u]}

\* Type invariant, with what the fields of the stream say about each other: only
\* an open stream has shaken hands or waits for the idle timer, and the call under
\* it is as far as the stream is.
TypeOK ==
  /\ table \in [Users -> SUBSET Batches] /\ nextId \in Nat \ {0}
  /\ user \in Users /\ credUser \in Users
  /\ callbacks \subseteq [user : Users, id : Nat, w : Writes]
  /\ waits \subseteq [id : Nat, need : SUBSET Writes]
  /\ network \in BOOLEAN
  /\ pipeline \in Seq(Batches) /\ Len(pipeline) <= MaxPendingWrites
  /\ stream \in [state : {"Initial", "Starting", "Open", "Error", "Backoff"},
                 handshake : BOOLEAN, idle : BOOLEAN, asked : SUBSET {"current", "stale"}]
  /\ call \in [user : Users, hello : {"none", "asked", "answered", "done"},
               end : {"none", "open", "transient", "permanent", "ok"},
               out : Seq(Writes), in : Seq(Writes)]
  /\ jobs \in Seq([kind : {"change", "token"}, user : Users, fresh : BOOLEAN, ok : BOOLEAN])
  /\ made \in [Users -> Seq(Writes)]
  /\ committed \subseteq Writes
  /\ accepted \subseteq Writes /\ rejected \subseteq Writes /\ waited \subseteq Writes
  /\ aborted \in BOOLEAN
  /\ stream.handshake \/ stream.idle => stream.state = "Open"
  /\ (stream.state = "Open") <=> (call.end # "none")
  /\ stream.handshake <=> (call.hello = "done")

\* The pipeline holds the oldest batches of the signed-in user, in order, and as
\* many as fit (FillWritePipeline is called wherever that might have changed).
PipelineIsHeadOfQueue ==
  /\ \A i \in DOMAIN pipeline : pipeline[i] \in table[user]
  /\ \A i, j \in DOMAIN pipeline : i < j => pipeline[i].id < pipeline[j].id
  /\ \A b \in table[user] :
       \/ \E i \in DOMAIN pipeline : pipeline[i] = b
       \/ ~network
       \/ Len(pipeline) = MaxPendingWrites /\ b.id > pipeline[Len(pipeline)].id

\* "it should be correlated to the first write in our write pipeline": on a stream
\* that is ready, the answers on their way and the requests still to be answered
\* are those of the batches of the pipeline, one for one.
ResponsesCorrelate == IsReady(stream) => call.in \o call.out = Mutations(pipeline)

\* What the callback of a write is told is true: OK only when the backend has
\* applied the write, an error only when it has not and will not.
OutcomeIsTrue == accepted \subseteq committed /\ rejected \cap committed = {}

\* No write is forgotten: through crashes, dropped connections and other users, a
\* write is in its user's queue until the backend has applied or refused it.
NothingLost == \A u \in Users : MadeBy(u) \ Queued(u) \subseteq committed \cup Bad

\* A registered callback is about the batch that has its id in its user's queue,
\* although ids are given out again: no write is answered for another.
CallbacksAreQueued ==
  \A c \in callbacks : [id |-> c.id, w |-> c.w] \in table[c.user]

\* waitForPendingWrites completes with OK only when every write that was pending
\* when it was called has been applied or refused.
WaitIsHonest == waited \subseteq committed \cup Bad

\* The requests of a call are writes of the user whose token opened it, although
\* the user may change while a token is asked for or a stream is open.
OwnCredentials ==
  \A i \in DOMAIN call.out : call.out[i] \in MadeBy(call.user)

\* While the network is enabled, a pending write has a stream that is running or
\* about to: nothing forgets to start it, and the idle timer never stops it.
NeededStreamRuns == network /\ table[user] # {} => IsStarted(stream) /\ ~stream.idle

\* Through every handler, crash and change of user, the writes are kept, applied in
\* order and let go as WriteOutbox says of writes without batches and streams.
Outbox == INSTANCE WriteOutbox WITH kept <- UNION {Queued(u) : u \in Users}
ImplementsOutbox == Outbox!OSpec

\* Of the HARD_ASSERTs on this path only one can fail: that of a graceful stop, and
\* only when the backend has ended the call with status OK.
NoAssertionFails == aborted => call.end = "ok"

\* Once the connection stays up, the network enabled and the user signed in, every
\* write of that user is settled while the process runs, however often all of them
\* changed before.
EventuallySettled ==
  (<>[][~Disturbance]_vars) =>
    \A u \in Users : <>[](network /\ ~aborted /\ user = u) => []<>(table[u] = {})
=============================================================================
