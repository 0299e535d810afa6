-------------------------- MODULE MCClientShutdown --------------------------
(* Instances of ClientShutdown for TLC. *)
EXTENDS ClientShutdown, TLC

\* The threads of the app are alike, and so are the tasks of one kind.
Symmetry ==
  Permutations(Apps) \cup Permutations(Jobs) \cup Permutations(Terms) \cup Permutations(Timed \ Owned)
=============================================================================
