---------------------------- MODULE MCLogistics ----------------------------
(* Small instances of Logistics: the rows a first start wrote. *)
EXTENDS Logistics

SeedItem == [id |-> 1, value |-> 1]
SeedLocation == [id |-> 1, place |-> "boston"]
SeedOrder ==
  [id |-> 1, from |-> SeedLocation, to |-> SeedLocation, departure |-> 1,
   arrival |-> 1, cost |-> 1, lines |-> <<[item |-> SeedItem, quantity |-> 1]>>]

MCSeed ==
  [k \in Kinds |-> CASE k = "item" -> {SeedItem}
                     [] k = "location" -> {SeedLocation}
                     [] k = "order" -> {SeedOrder}]
============================================================================
