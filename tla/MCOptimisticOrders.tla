------------------------- MODULE MCOptimisticOrders -------------------------
(* Instances of OptimisticOrders for TLC: the browser's clock is behind or *)
(* ahead of the server's.                                                  *)
EXTENDS OptimisticOrders

FastAndSlow == {-1, 2}
=============================================================================
