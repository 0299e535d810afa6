------------------------------- MODULE Lists --------------------------------
(***************************************************************************)
(* The Swift array operations the apps are built from that the libraries   *)
(* define by recursion: filter and removeAll.  They are written here as a  *)
(* set of one sequence, so that what they contain can be proved without    *)
(* induction.                                                              *)
(***************************************************************************)
EXTENDS Integers, FiniteSets, SequencesExt

\* The elements of a finite set of positions, in ascending order.
Ascending(I) ==
  {e \in [1 .. Cardinality(I) -> I] :
     /\ \A m, n \in DOMAIN e : m < n => e[m] < e[n]
     /\ \A i \in I : \E n \in DOMAIN e : e[n] = i}

\* s.filter: the elements of s at the positions I, in the order of s.
Sublist(s, I) == {[n \in DOMAIN e |-> s[e[n]]] : e \in Ascending(I)}

\* A list of records in which firstIndex(where: { $0.id == id }) has at most
\* one answer.
UniqueIds(s) == \A i, j \in DOMAIN s : s[i].id = s[j].id => i = j

\* The position of the first element of s whose position is in I.
FirstOf(s, I) == s[Min(I)]
=============================================================================
