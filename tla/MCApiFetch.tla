---------------------------- MODULE MCApiFetch -----------------------------
(* Small instances of ApiFetch: the service answers with no rows or with all *)
(* of its own; an earlier start left an order on file.                       *)
EXTENDS ApiFetch

item(id) == [id |-> id, value |-> 1]
place(id) == [id |-> id, place |-> "boston"]

MCServed ==
  [k \in Fetched |->
     IF k = "item" THEN {<<>>, <<item(2), item(1)>>} ELSE {<<>>, <<place(1)>>}]

MCSeed ==
  [k \in Kinds |-> CASE k = "item" -> {item(1)}
                     [] k = "location" -> {place(1)}
                     [] k = "order" -> {[id |-> 1, item |-> item(1), from |-> place(1)]}]
=============================================================================
