----------------------------- MODULE WriteOutbox -----------------------------
(***************************************************************************)
(* What the write path of the Firestore client promises, without batches,  *)
(* streams, tokens or callbacks: the writes of each user are kept until    *)
(* they are settled, the backend applies them in the order they were made, *)
(* and a write is let go only when it has been applied or will never be.   *)
(* WritePipeline implements it.                                            *)
(***************************************************************************)
EXTENDS Integers, Sequences

CONSTANTS Users, Writes, Bad

VARIABLES made, committed, kept

ovars == <<made, committed, kept>>

OInit == made = [u \in Users |-> <<>>] /\ committed = {} /\ kept = {}

Make(u, w) ==
  /\ \A v \in Users : \A i \in DOMAIN made[v] : made[v][i] # w
  /\ made' = [made EXCEPT ![u] = Append(@, w)]
  /\ kept' = kept \cup {w}
  /\ UNCHANGED committed

\* The kept writes among the first n of user u are applied, some for the second
\* time: none of them is one the backend refuses.
Commit(u, n) ==
  LET S == {made[u][i] : i \in 1 .. n} \cap kept IN
  /\ S \cap Bad = {}
  /\ committed' = committed \cup S
  /\ UNCHANGED <<made, kept>>

\* The oldest kept write of user u is let go.
Settle(u, n) ==
  /\ made[u][n] \in kept \cap (committed \cup Bad)
  /\ \A i \in 1 .. n - 1 : made[u][i] \notin kept
  /\ kept' = kept \ {made[u][n]}
  /\ UNCHANGED <<made, committed>>

ONext ==
  \E u \in Users :
    \/ \E w \in Writes : Make(u, w)
    \/ \E n \in DOMAIN made[u] : Commit(u, n) \/ Settle(u, n)

OSpec == OInit /\ [][ONext]_ovars
=============================================================================
