---------------------------- MODULE MCJavaOrders ----------------------------
(* Instances of JavaOrders for TLC.                                      *)
EXTENDS JavaOrders, TLC

CONSTANTS o1, o2

\* Orders of the real seed: one being brewed, and one waiting behind it.
SeedBrewing == o1 :> [status |-> "BREWING", createdAt |-> 0]
SeedPending == o1 :> [status |-> "PENDING", createdAt |-> 0]

Symmetry == Permutations(Requests)
=============================================================================
