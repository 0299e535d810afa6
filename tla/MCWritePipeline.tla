--------------------------- MODULE MCWritePipeline ---------------------------
(* Instances of WritePipeline for TLC. *)
EXTENDS WritePipeline, TLC

\* The users are alike, and so are the writes the backend takes.
Symmetry == Permutations(Users) \cup Permutations(Writes \ Bad)
=============================================================================
