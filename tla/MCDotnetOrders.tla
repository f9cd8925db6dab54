--------------------------- MODULE MCDotnetOrders ---------------------------
(* Instances of DotnetOrders for TLC.                                      *)
EXTENDS DotnetOrders, TLC

CONSTANTS o1, o2

\* Orders of the real seed: one being brewed, and one waiting behind it.
SeedBrewing == o1 :> [status |-> "BREWING", createdAt |-> 0, updatedAt |-> 1]
SeedPending == o1 :> [status |-> "PENDING", createdAt |-> 0, updatedAt |-> 0]

Symmetry == Permutations(Requests)
=============================================================================
