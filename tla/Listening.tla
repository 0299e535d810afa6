------------------------------ MODULE Listening ------------------------------
(***************************************************************************)
(* The listening half of the Firestore client: SyncEngine and LocalStore    *)
(* allocate and release targets, RemoteStore watches those that are         *)
(* listened to over one WatchStream, and the messages of the backend add up *)
(* to the snapshots that views and the LevelDB file are brought forward by. *)
(* A handler runs on the worker queue and is one action; between two of    *)
(* them the stream may fail, the app may crash, the user may stop listening *)
(* and listen again, and messages about what was before are on their way.  *)
(* External: the backend, which answers the requests of a stream in order.  *)
(***************************************************************************)
EXTENDS WatchChangeAggregator, SequencesExt

CONSTANTS
  MaxVersion,    \* bound: the versions the backend's data goes through
  MaxRequests,   \* bound: the requests on their way when the user makes another
  MaxResponses,  \* bound: the messages on their way when the backend adds some
  Faults         \* of "fail", "refuse", "filter" and "reset": what the backend does

ASSUME BoundsAssumption == MaxVersion \in Nat \ {0} /\ MaxRequests \in Nat \ {0}

VARIABLES
  keys,      \* LevelDB: the documents that match each target
  token,     \* LevelDB: the resume token of each target; 0 for none
  local,     \* target_data_by_target_: the token, of the targets listened to
  listens,   \* listen_targets_: the token to resume from, of the same targets
  synced,    \* the targets whose views are current_
  network,   \* is_network_enabled_
  stream,    \* watch_stream_: [state, idle]
  agg,       \* watch_change_aggregator_
  online,    \* online_state_tracker_
  requests,  \* external: on their way to the backend
  responses, \* external: on their way to the client
  serving,   \* external: the targets the backend watches for the stream, each
             \*   with the version it has told of and how far it is
  past,      \* external: the result of each target at each version, so far
  asof,      \* history: the version of the last snapshot each view was brought to
  stale,     \* history: the targets whose keys are not known to be the documents
             \*   of their tokens, since a mismatch or an error that met other
             \*   requests, until a snapshot that counts right shows that they are
  crossed    \* history: the targets such an error of which this stream has seen

disk == <<keys, token>>
listening == <<local, listens, synced>>
backend == <<requests, responses, serving>>
vars == <<disk, listening, network, stream, agg, online, backend, past, asof, stale, crossed>>

L == DOMAIN listens
IsOpen == stream.state = "Open"
IsStarted(s) == s.state \in {"Starting", "Backoff", "Open"}
Now == Len(past)

\* External: what matches the query of t at version v.
Result(t, v) == IF v = 0 THEN {} ELSE past[v][t]

Watch(t, from) == [kind |-> "watch", t |-> t, token |-> from]
Unwatch(t) == [kind |-> "unwatch", t |-> t, token |-> 0]

\* HandleOnlineStateChange: no view is current when the client turns offline.
Turned(to) ==
  /\ online' = to
  /\ synced' = IF to.state = "Offline" /\ online.state # "Offline" THEN {} ELSE synced

-----------------------------------------------------------------------------
(* The watch stream.                                                        *)

\* Start, without the wait for a token.
StartWatchStream(s, o) ==
  /\ stream' = [state |-> IF s.state = "Error" THEN "Backoff" ELSE "Starting", idle |-> FALSE]
  /\ agg' = FreshAggregator
  /\ Turned(HandleWatchStreamStart(o))

\* The stream is closed: what was on its way is lost, and the aggregator is gone.
HangUp ==
  /\ requests' = <<>> /\ responses' = <<>> /\ serving' = <<>>
  /\ crossed' = {}

\* Stop and OnWatchStreamClose with OK, when the stream is not needed any more.
Stopped(o) ==
  /\ HangUp
  /\ stream' = [state |-> "Initial", idle |-> FALSE]
  /\ agg' = FreshAggregator
  /\ Turned(o)

\* OnStreamStart and OnWatchStreamOpen: every target is watched.
StreamOpens ==
  /\ stream.state = "Starting"
  /\ stream' = [stream EXCEPT !.state = "Open"]
  /\ LET order == SetToSeq(L) IN
     requests' = [i \in DOMAIN order |-> Watch(order[i], listens[order[i]])]
  /\ agg' = [agg EXCEPT !.states = [t \in L |-> [FreshState EXCEPT !.out = 1]]]
  /\ UNCHANGED <<disk, listening, network, online, responses, serving, past, asof, stale, crossed>>

\* OnStreamFinish with an error, and OnWatchStreamClose.
StreamFails ==
  /\ "fail" \in Faults
  /\ stream.state \in {"Starting", "Open"}
  /\ HangUp
  /\ IF network /\ L # {}
     THEN StartWatchStream([stream EXCEPT !.state = "Error"], HandleWatchStreamFailure(online))
     ELSE /\ stream' = [state |-> "Error", idle |-> FALSE]
          /\ agg' = FreshAggregator
          /\ Turned(UpdateState("Unknown"))
  /\ UNCHANGED <<disk, local, listens, network, past, asof, stale>>

BackoffElapsed ==
  /\ stream.state = "Backoff"
  /\ stream' = [stream EXCEPT !.state = "Starting"]
  /\ UNCHANGED <<disk, listening, network, agg, online, backend, past, asof, stale, crossed>>

IdleTimeout ==
  /\ stream.idle
  /\ Stopped(UpdateState("Unknown"))
  /\ UNCHANGED <<disk, local, listens, network, past, asof, stale>>

\* The timer of the tracker.
OnlineStateTimeout ==
  /\ online.timer
  /\ Turned([online EXCEPT !.state = "Offline", !.timer = FALSE])
  /\ UNCHANGED <<disk, local, listens, network, stream, agg, backend, past, asof, stale, crossed>>

-----------------------------------------------------------------------------
(* Calls.                                                                   *)

\* SyncEngine and RemoteStore: Listen.  A view that is new is not current.
Listen(t) ==
  /\ t \notin L /\ Len(requests) < MaxRequests
  /\ local' = Bind(local, t, token[t])
  /\ listens' = Bind(listens, t, token[t])
  /\ IF network /\ ~IsStarted(stream)
     THEN /\ StartWatchStream(stream, online) /\ UNCHANGED requests
     ELSE /\ UNCHANGED <<online, synced>>
          /\ IF IsOpen
             THEN /\ agg' = RecordPendingTargetRequest(agg, t)
                  /\ requests' = Append(requests, Watch(t, token[t]))
                  /\ stream' = [stream EXCEPT !.idle = FALSE]
             ELSE UNCHANGED <<agg, requests, stream>>
  /\ asof' = [asof EXCEPT ![t] = 0]
  /\ UNCHANGED <<disk, network, responses, serving, past, stale, crossed>>

\* ReleaseTarget, and the view goes away.
ReleaseTarget(t) ==
  /\ token' = [token EXCEPT ![t] = local[t]]
  /\ local' = [u \in L \ {t} |-> local[u]]
  /\ listens' = [u \in L \ {t} |-> listens[u]]

\* SyncEngine and RemoteStore: StopListening.
StopListening(t) ==
  /\ t \in L /\ Len(requests) < MaxRequests
  /\ ReleaseTarget(t)
  /\ IF IsOpen
     THEN /\ agg' = RecordPendingTargetRequest(agg, t)
          /\ requests' = Append(requests, Unwatch(t))
          /\ stream' = [stream EXCEPT !.idle = L = {t}]
          /\ UNCHANGED online
     ELSE /\ online' = IF L = {t} /\ network THEN UpdateState("Unknown") ELSE online
          /\ UNCHANGED <<agg, requests, stream>>
  /\ synced' = synced \ {t}
  /\ UNCHANGED <<keys, network, responses, serving, past, asof, stale, crossed>>

\* Mutant: the stream that is needed is not started.
EnableNetworkOnly ==
  /\ ~network
  /\ network' = TRUE
  /\ Turned(UpdateState("Unknown"))
  /\ UNCHANGED <<disk, local, listens, stream, agg, backend, past, asof, stale, crossed>>

EnableNetwork ==
  /\ ~network
  /\ network' = TRUE
  /\ IF L # {} THEN StartWatchStream(stream, online)
     ELSE Turned(UpdateState("Unknown")) /\ UNCHANGED <<stream, agg>>
  /\ UNCHANGED <<disk, local, listens, backend, past, asof, stale, crossed>>

DisableNetwork ==
  /\ network
  /\ network' = FALSE
  /\ IF IsStarted(stream) THEN HangUp /\ stream' = [state |-> "Initial", idle |-> FALSE]
     ELSE UNCHANGED <<stream, backend, crossed>>
  /\ agg' = FreshAggregator
  /\ Turned(UpdateState("Offline"))
  /\ UNCHANGED <<disk, local, listens, past, asof, stale>>

\* RestartNetwork, when the connectivity or the user changes: no backoff.
RestartNetwork ==
  /\ network
  /\ HangUp
  /\ IF L # {} THEN StartWatchStream([state |-> "Initial", idle |-> FALSE], UpdateState("Unknown"))
     ELSE /\ stream' = [state |-> "Initial", idle |-> FALSE]
          /\ agg' = FreshAggregator
          /\ Turned(UpdateState("Unknown"))
  /\ UNCHANGED <<disk, local, listens, network, past, asof, stale>>

\* The app ends and starts again: only the file is left.
Restart ==
  /\ local' = <<>> /\ listens' = <<>> /\ synced' = {}
  /\ network' = TRUE
  /\ stream' = [state |-> "Initial", idle |-> FALSE]
  /\ agg' = FreshAggregator /\ online' = FreshTracker
  /\ HangUp
  /\ UNCHANGED <<disk, past, asof, stale>>

-----------------------------------------------------------------------------
(* OnWatchStreamChange.                                                     *)

\* A message is taken from the stream, and the client is online.
Receive(kind) ==
  /\ responses # <<>> /\ Head(responses).kind = kind
  /\ responses' = Tail(responses)
  /\ online' = UpdateState("Online")

\* What the aggregator makes of a message that completes no snapshot.
Aggregates(a) ==
  /\ agg' = a
  /\ UNCHANGED <<disk, listening, network, stream, requests, serving, past, asof, stale, crossed>>

OnDocumentChange ==
  /\ Receive("document")
  /\ LET m == Head(responses) IN
     Aggregates(HandleDocumentChange(agg, L, keys, m.doc, m.updated, m.removed))

OnTargetAdded ==
  /\ Receive("added")
  /\ Aggregates(TargetAdded(agg, Head(responses).t))

OnTargetRemoved ==
  /\ Receive("removed")
  /\ Aggregates(TargetRemoved(agg, Head(responses).t))

OnTargetCurrent ==
  /\ Receive("current")
  /\ LET m == Head(responses) IN Aggregates(TargetCurrent(agg, L, m.t, m.version))

OnTargetReset ==
  /\ Receive("reset")
  /\ Aggregates(TargetReset(agg, L, keys, Head(responses).t))

OnExistenceFilter ==
  /\ Receive("filter")
  /\ LET m == Head(responses) IN
     Aggregates(HandleExistenceFilter(agg, L, keys, m.t, m.count))

\* How many requests about t are answered neither here nor there yet.
Due(t, reqs, resps) ==
  Cardinality({i \in DOMAIN reqs : reqs[i].t = t})
  + Cardinality({i \in DOMAIN resps : resps[i].kind \in {"added", "removed", "refused"}
                                      /\ resps[i].t = t})

\* ProcessTargetError: a target that is listened to is given up.
ProcessTargetError ==
  /\ Receive("refused")
  /\ LET t == Head(responses).t IN
     /\ LET met == {u \in {t} : Due(u, requests, Tail(responses)) > 0} IN
        crossed' = crossed \cup met /\ stale' = stale \cup met
     /\ IF t \in L
        THEN /\ ReleaseTarget(t)
             /\ agg' = RemoveTarget(agg, t)
             /\ synced' = synced \ {t}
        ELSE UNCHANGED <<token, listening, agg>>
  /\ UNCHANGED <<keys, network, stream, requests, serving, past, asof>>

\* A change of no target with a version: RaiseWatchSnapshot, LocalStore's and
\* SyncEngine's ApplyRemoteEvent.  A token that comes without changes need not be
\* written to the file.
OnSnapshot ==
  /\ Receive("snapshot")
  /\ LET v == Head(responses).version
         a == TargetNoChange(agg, L, v)
         T == EventTargets(a, L)
         changed(t, c) == {d \in Docs : a.states[t].changes[d] = c}
         told == {t \in T : a.states[t].token # 0}
         mismatches == a.resets \cap L
         again == SetToSeq(mismatches)
     IN
     /\ keys' = [t \in Targets |-> IF t \in T THEN (keys[t] \ changed(t, "Removed"))
                                                    \cup changed(t, "Added")
                                   ELSE keys[t]]
     /\ local' = [t \in L |-> IF t \in told THEN a.states[t].token ELSE local[t]]
     /\ \E kept \in SUBSET {t \in told : local[t] # 0 /\ a.states[t].changes = NoChanges} :
          token' = [t \in Targets |-> IF t \in told \ kept THEN a.states[t].token ELSE token[t]]
     /\ listens' = [t \in L |-> IF t \in mismatches THEN 0
                                ELSE IF t \in told THEN a.states[t].token ELSE listens[t]]
     /\ synced' = {t \in L : IF t \in T THEN a.states[t].current ELSE t \in synced}
     /\ requests' = requests \o [i \in 1 .. 2 * Len(again) |->
                                  IF i % 2 = 1 THEN Unwatch(again[(i + 1) \div 2])
                                  ELSE Watch(again[i \div 2], 0)]
     /\ agg' = RecordPendingTargetRequests(AfterEvent(a, L), mismatches, 2)
     /\ stream' = [stream EXCEPT !.idle = @ /\ mismatches = {}]
     /\ asof' = [t \in Targets |-> IF IsActive(a, L, t) THEN v ELSE asof[t]]
     /\ stale' = (stale \cup mismatches)
                 \ {t \in told \ crossed : token'[t] = v /\ listens'[t] = v /\ keys'[t] = Result(t, v)}
  /\ UNCHANGED <<network, serving, past, crossed>>

-----------------------------------------------------------------------------
(* External: the backend.                                                   *)

\* The data changes.
NewVersion ==
  /\ Now < MaxVersion
  /\ \E r \in [Targets -> SUBSET Docs] : past' = Append(past, r)
  /\ UNCHANGED <<disk, listening, network, stream, agg, online, backend, asof, stale, crossed>>

Emits(messages) ==
  /\ IsOpen /\ Len(responses) < MaxResponses
  /\ responses' = responses \o messages
  /\ UNCHANGED <<disk, listening, network, stream, agg, online, past, asof, stale, crossed>>

About(kind, t) == [kind |-> kind, t |-> t]

ServesWatch ==
  /\ requests # <<>> /\ Head(requests).kind = "watch"
  /\ LET q == Head(requests) IN
     /\ Emits(<<About("added", q.t)>>)
     /\ serving' = Bind(serving, q.t, [at |-> q.token, is |-> "added"])
  /\ requests' = Tail(requests)

ServesUnwatch ==
  /\ requests # <<>> /\ Head(requests).kind = "unwatch"
  /\ Emits(<<About("removed", Head(requests).t)>>)
  /\ serving' = [t \in DOMAIN serving \ {Head(requests).t} |-> serving[t]]
  /\ requests' = Tail(requests)

\* A request to watch is refused; bound: not for a target in crossed.
Refuses ==
  /\ "refuse" \in Faults
  /\ requests # <<>> /\ Head(requests).kind = "watch" /\ Head(requests).t \notin crossed
  /\ Emits(<<About("refused", Head(requests).t)>>)
  /\ requests' = Tail(requests)
  /\ UNCHANGED serving

\* The messages about documents that bring each target t of S from what it was
\* told, before[t], to the present version; "more" have changed besides.
Updates(S, before, more) ==
  LET in(d) == {t \in S : d \in Result(t, Now) /\ (d \notin before[t] \/ d \in more)}
      out(d) == {t \in S : d \in before[t] \ Result(t, Now)}
      order == SetToSeq({d \in Docs : in(d) \cup out(d) # {}})
  IN [i \in DOMAIN order |-> [kind |-> "document", doc |-> order[i],
                              updated |-> in(order[i]), removed |-> out(order[i])]]

Current(t) == [kind |-> "current", t |-> t, version |-> Now]

\* A target that was added is brought up to date.
CatchesUp(t) ==
  /\ t \in DOMAIN serving /\ serving[t].is = "added"
  /\ Emits(Updates({t}, [u \in {t} |-> Result(u, serving[t].at)], {}) \o <<Current(t)>>)
  /\ serving' = [serving EXCEPT ![t] = [at |-> Now, is |-> "ready"]]
  /\ UNCHANGED requests

\* The same, when which documents have left is not known but how many are left.
CatchesUpByFilter(t) ==
  /\ "filter" \in Faults
  /\ t \in DOMAIN serving /\ serving[t].is = "added"
  /\ Result(t, serving[t].at) \ Result(t, Now) # {}
  /\ Emits(Updates({t}, [u \in {t} |-> Result(u, serving[t].at) \cap Result(u, Now)], {})
           \o <<[kind |-> "filter", t |-> t, count |-> Cardinality(Result(t, Now))], Current(t)>>)
  /\ serving' = [serving EXCEPT ![t] = [at |-> Now, is |-> "ready"]]
  /\ UNCHANGED requests

\* A target is told all over again.
Resets(t) ==
  /\ "reset" \in Faults
  /\ t \in DOMAIN serving /\ serving[t].is # "added"
  /\ Emits(<<About("reset", t)>> \o Updates({t}, [u \in {t} |-> {}], {}) \o <<Current(t)>>)
  /\ serving' = [serving EXCEPT ![t] = [at |-> Now, is |-> "ready"]]
  /\ UNCHANGED requests

\* When all targets are up to date as of some version, a snapshot is complete.
Snapshot ==
  /\ \A t \in DOMAIN serving : serving[t].is # "added"
  /\ \E t \in DOMAIN serving : serving[t].is = "ready" \/ serving[t].at < Now
  /\ \E more \in SUBSET Docs :
       Emits(Updates(DOMAIN serving, [t \in DOMAIN serving |-> Result(t, serving[t].at)], more)
             \o <<[kind |-> "snapshot", version |-> Now]>>)
  /\ serving' = [t \in DOMAIN serving |-> [at |-> Now, is |-> "told"]]
  /\ UNCHANGED requests

-----------------------------------------------------------------------------
Init ==
  /\ keys = [t \in Targets |-> {}] /\ token = [t \in Targets |-> 0]
  /\ local = <<>> /\ listens = <<>> /\ synced = {}
  /\ network = TRUE
  /\ stream = [state |-> "Initial", idle |-> FALSE]
  /\ agg = FreshAggregator /\ online = FreshTracker
  /\ requests = <<>> /\ responses = <<>> /\ serving = <<>>
  /\ past \in [{1} -> [Targets -> SUBSET Docs]]
  /\ asof = [t \in Targets |-> 0] /\ stale = {} /\ crossed = {}

\* What the user does, and the timers that wait for something better.
Calls ==
  \/ \E t \in Targets : Listen(t) \/ StopListening(t)
  \/ EnableNetwork
  \/ IdleTimeout \/ OnlineStateTimeout

\* What the stream, the worker queue and the backend go on doing.
Connects == StreamOpens \/ BackoffElapsed
Handles ==
  \/ OnDocumentChange \/ OnTargetAdded \/ OnTargetRemoved \/ OnTargetCurrent
  \/ OnTargetReset \/ OnExistenceFilter \/ ProcessTargetError \/ OnSnapshot
Serves ==
  \/ ServesWatch \/ ServesUnwatch \/ Snapshot
  \/ \E t \in Targets : CatchesUp(t)

Disturbance ==
  \/ StreamFails \/ DisableNetwork \/ RestartNetwork \/ Restart
  \/ Refuses
  \/ \E t \in Targets : CatchesUpByFilter(t) \/ Resets(t)

Next == Calls \/ Connects \/ Handles \/ Serves \/ Disturbance \/ NewVersion

Spec == Init /\ [][Next]_vars

\* A connection that is tried opens, the worker queue takes every message, and the
\* backend answers.
Fairness == WF_vars(Connects) /\ WF_vars(Handles) /\ WF_vars(Serves)
FairSpec == Spec /\ Fairness

-----------------------------------------------------------------------------
(* Properties.                                                              *)

\* Type invariant, with what the parts say of each other.
TypeOK ==
  /\ keys \in [Targets -> SUBSET Docs] /\ token \in [Targets -> 0 .. MaxVersion]
  /\ L \subseteq Targets /\ DOMAIN local = L /\ synced \subseteq L
  /\ \A t \in L : local[t] \in 0 .. MaxVersion /\ listens[t] \in 0 .. MaxVersion
  /\ network \in BOOLEAN
  /\ stream.state \in {"Initial", "Starting", "Open", "Backoff", "Error"}
  /\ stream.idle => IsOpen /\ L = {}
  /\ agg.resets \subseteq Targets /\ DOMAIN agg.states \subseteq Targets
  /\ \A t \in DOMAIN agg.states :
       agg.states[t] \in [out : Int, changes : [Docs -> {"none", "Added", "Modified", "Removed"}],
                          token : 0 .. MaxVersion, current : BOOLEAN, pending : BOOLEAN]
  /\ online \in [state : {"Unknown", "Online", "Offline"}, failures : 0 .. kMaxWatchStreamFailures,
                 timer : BOOLEAN]
  /\ online.timer => online.state = "Unknown" /\ online.failures = 0 /\ IsStarted(stream)

\* A view that is current (remote_event.h:158) shows exactly what matched its query
\* at the version of the last snapshot it was brought to: however often the target
\* was given up and taken again, the stream lost or the app restarted, no message
\* about an earlier watch is added to a later one.  Not so after a mismatch of an
\* existence filter or an error that met other requests, until a snapshot of a stream
\* that counts right has told what the file says.
CurrentIsConsistent ==
  \A t \in synced \ stale : keys[t] = Result(t, asof[t])

\* The documents on file are those of the token on file (remote_store.cc resumes from
\* it, and ApplyRemoteEvent writes both), so what a restart or another watch goes on
\* from is a result that the backend did have; stale targets as above.
FileMatchesToken ==
  \A t \in Targets \ stale : keys[t] = Result(t, token[t])

\* outstanding_responses_ is how many requests about a target are not answered yet,
\* through every order of calls, answers, resets and mismatches, and a target that is
\* listened to over an open stream has a state.
AnswersCounted ==
  IsOpen => \A t \in Targets \ crossed :
              /\ t \in L => t \in DOMAIN agg.states
              /\ Due(t, requests, responses) =
                   IF t \in DOMAIN agg.states THEN agg.states[t].out ELSE 0

\* A query that is listened to for good is brought to the backend's last version and
\* stays there, once the stream and the backend stop failing: OnWatchStreamOpen and
\* OnWatchStreamClose watch it again, and no timer or count leaves it out.
ListensSettle ==
  <>[][~Disturbance]_vars
    => \A t \in Targets :
         <>[](network /\ t \in L /\ t \notin stale)
           => <>[](t \in synced /\ keys[t] = Result(t, Now))

\* "We have a timeout for OnlineState to reach Online or Offline.  If the timeout is
\* reached, we transition to Offline rather than waiting indefinitely."
\* (online_state_tracker.cc:48): a client that is to listen and does not know whether
\* it is online has the timer running.
UnknownIsTimed == network /\ L # {} /\ online.state = "Unknown" => online.timer
=============================================================================
