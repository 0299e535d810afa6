------------------------ MODULE WatchChangeAggregator ------------------------
(***************************************************************************)
(* WatchChangeAggregator and OnlineStateTracker of the Firestore client, as *)
(* functions of their state: what the messages of a watch stream add up to *)
(* between two snapshots, and whether the client takes itself to be online. *)
(* An aggregator lives as long as a stream.  Queries for single documents   *)
(* and the contents of documents are left out.                             *)
(***************************************************************************)
EXTENDS Integers, FiniteSets, Sequences

CONSTANTS
  Targets,    \* the queries, each with the id LocalStore keeps for it
  Docs        \* the documents that may match them

ASSUME FiniteAssumption == IsFiniteSet(Targets) /\ IsFiniteSet(Docs)

-----------------------------------------------------------------------------
(* TargetState and the aggregator, a = [states, resets]: target_states_ and *)
(* pending_target_resets_.  L is the set of the targets listened to, keys   *)
(* the documents LocalStore knows to match each; token 0 is an empty one.   *)

NoChanges == [d \in Docs |-> "none"]
FreshState ==
  [out |-> 0, changes |-> NoChanges, token |-> 0, current |-> FALSE, pending |-> TRUE]
FreshAggregator == [states |-> <<>>, resets |-> {}]

\* Mutant: messages count although answers to requests for the target are due.
IsActiveAtOnce(a, L, t) == t \in L

\* IsActiveTarget.
IsActive(a, L, t) == t \in L /\ (t \in DOMAIN a.states => a.states[t].out = 0)

\* operator[] of a map, assigned to.
Bind(f, t, s) == [u \in DOMAIN f \cup {t} |-> IF u = t THEN s ELSE f[u]]

\* EnsureTargetState, and what it returns a reference to.
Ensured(a, t) == IF t \in DOMAIN a.states THEN a.states[t] ELSE FreshState
Put(a, t, s) == [a EXCEPT !.states = Bind(@, t, s)]

RecordPendingTargetRequest(a, t) == Put(a, t, [Ensured(a, t) EXCEPT !.out = @ + 1])

\* Mutant: once.
RecordOneRequestEach(a, S, n) ==
  LET asked(t) == [Ensured(a, t) EXCEPT !.out = @ + 1] IN
  [a EXCEPT !.states = [t \in DOMAIN @ \cup S |-> IF t \in S THEN asked(t) ELSE @[t]]]

\* The same, n times for every target of S.
RecordPendingTargetRequests(a, S, n) ==
  LET asked(t) == [Ensured(a, t) EXCEPT !.out = @ + n] IN
  [a EXCEPT !.states = [t \in DOMAIN @ \cup S |-> IF t \in S THEN asked(t) ELSE @[t]]]

RemoveTarget(a, t) ==
  [a EXCEPT !.states = [u \in DOMAIN @ \ {t} |-> @[u]]]

UpdateResumeToken(s, token) ==
  IF token = 0 THEN s ELSE [s EXCEPT !.token = token, !.pending = TRUE]

\* HandleDocumentChange with AddDocumentToTarget and RemoveDocumentFromTarget:
\* document d, changed, is in the targets updated and no longer in those removed.
HandleDocumentChange(a, L, keys, d, updated, removed) ==
  LET hit == {t \in updated \cup removed : IsActive(a, L, t)} IN
  [a EXCEPT !.states = [t \in hit \cup DOMAIN @ |->
     IF t \notin hit THEN @[t]
     ELSE [Ensured(a, t) EXCEPT
             !.pending = TRUE,
             !.changes[d] = IF t \in removed THEN IF d \in keys[t] THEN "Removed" ELSE "none"
                            ELSE IF d \in keys[t] THEN "Modified" ELSE "Added"]]]

\* Mutant: the documents known to match stay.
ResetStateOnly(a, keys, t) == Put(a, t, FreshState)

\* ResetTarget: the state is made anew, and every document known to match leaves.
ResetTarget(a, keys, t) ==
  Put(a, t, [FreshState EXCEPT
               !.changes = [d \in Docs |-> IF d \in keys[t] THEN "Removed" ELSE "none"]])

\* HandleTargetChange, one branch per state of the change.
TargetNoChange(a, L, token) ==
  [a EXCEPT !.states = [t \in DOMAIN @ |-> IF IsActive(a, L, t) THEN UpdateResumeToken(@[t], token)
                                           ELSE @[t]]]

TargetAdded(a, t) ==
  LET s == [Ensured(a, t) EXCEPT !.out = @ - 1] IN
  Put(a, t, IF s.out = 0 THEN [s EXCEPT !.pending = FALSE, !.changes = NoChanges] ELSE s)

TargetRemoved(a, t) ==
  LET s == [Ensured(a, t) EXCEPT !.out = @ - 1] IN
  IF s.out = 0 THEN RemoveTarget(a, t) ELSE Put(a, t, s)

TargetCurrent(a, L, t, token) ==
  LET s == Ensured(a, t) IN
  Put(a, t, IF IsActive(a, L, t)
            THEN UpdateResumeToken([s EXCEPT !.current = TRUE, !.pending = TRUE], token)
            ELSE s)

TargetReset(a, L, keys, t) ==
  IF IsActive(a, L, t) THEN ResetTarget(a, keys, t) ELSE Put(a, t, Ensured(a, t))

\* HandleExistenceFilter, with GetCurrentDocumentCountForTarget.
HandleExistenceFilter(a, L, keys, t, count) ==
  LET s == Ensured(a, t)
      n(change) == Cardinality({d \in Docs : s.changes[d] = change})
  IN IF ~IsActive(a, L, t) THEN a
     ELSE IF Cardinality(keys[t]) + n("Added") - n("Removed") = count THEN Put(a, t, s)
     ELSE [ResetTarget(a, keys, t) EXCEPT !.resets = @ \cup {t}]

\* CreateRemoteEvent: the targets whose changes it has, and what is left.
EventTargets(a, L) == {t \in DOMAIN a.states : IsActive(a, L, t) /\ a.states[t].pending}
AfterEvent(a, L) ==
  [resets |-> {},
   states |-> [t \in DOMAIN a.states |->
                 IF t \in EventTargets(a, L)
                 THEN [a.states[t] EXCEPT !.pending = FALSE, !.changes = NoChanges]
                 ELSE a.states[t]]]

-----------------------------------------------------------------------------
(* OnlineStateTracker, o = [state, failures, timer].                        *)

kMaxWatchStreamFailures == 1

FreshTracker == [state |-> "Unknown", failures |-> 0, timer |-> FALSE]

HandleWatchStreamStart(o) ==
  IF o.failures # 0 THEN o ELSE [o EXCEPT !.state = "Unknown", !.timer = TRUE]

\* Mutant: the timer goes on.
FailureKeepsTimer(o) ==
  IF o.state = "Online" THEN [o EXCEPT !.state = "Unknown"]
  ELSE IF o.failures + 1 < kMaxWatchStreamFailures THEN [o EXCEPT !.failures = @ + 1]
  ELSE [state |-> "Offline", failures |-> kMaxWatchStreamFailures, timer |-> o.timer]

\* The count stops at the most that makes a difference.
HandleWatchStreamFailure(o) ==
  IF o.state = "Online" THEN [o EXCEPT !.state = "Unknown"]
  ELSE IF o.failures + 1 < kMaxWatchStreamFailures THEN [o EXCEPT !.failures = @ + 1]
  ELSE [state |-> "Offline", failures |-> kMaxWatchStreamFailures, timer |-> FALSE]

UpdateState(to) == [state |-> to, failures |-> 0, timer |-> FALSE]
=============================================================================
