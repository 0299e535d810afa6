---------------------------- MODULE MCTaskBoard -----------------------------
(* Small instances of TaskBoard, with the ids of main.swift's accounts. *)
EXTENDS TaskBoard

\* Bound: a member may press the status entry any number of times, so the
\* counters are kept within a window.
CounterWindow == \A a \in Accounts : onGoingTaskCount[a] \in -2 .. 3
=============================================================================
