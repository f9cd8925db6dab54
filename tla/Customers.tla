----------------------------- MODULE Customers -----------------------------
(***************************************************************************)
(* GET /api/customers/active: the customers who wait for an order, from    *)
(* the list of orders, newest first.  The API knows no customers, only the *)
(* names they typed.  A name is a record: who it stands for once trimmed   *)
(* and in lower case, as a number in the order of the alphabet, and how it *)
(* was spelled.                                                            *)
(***************************************************************************)
EXTENDS OrderContract, FiniteSets, Sequences, SequencesExt, TLC

\* The loop over the orders, which fills the Map.
Counted(counts, order) ==
  LET key == order.name.key IN
  IF order.status = "READY" THEN counts
  ELSE IF key \in DOMAIN counts THEN [counts EXCEPT ![key].activeOrders = @ + 1]
  ELSE counts @@ (key :> [name |-> order.name, activeOrders |-> 1])

ActiveCustomers(list) ==
  LET counts == FoldLeft(Counted, <<>>, list)
  IN  SetToSortSeq(Range(counts), LAMBDA a, b : a.name.key < b.name.key)

\* The list the handler gets is cut at the limit of fetchOrders.
GetActive(list, limit) == ActiveCustomers(SubSeq(list, 1, Min({limit, Len(list)})))

-----------------------------------------------------------------------------
Waiting(list, key) == {k \in DOMAIN list : list[k].status # "READY" /\ list[k].name.key = key}

(* What the answer says without the Map: each customer who waits is there  *)
(* once, in the order of the alphabet, with the number of the orders that  *)
(* are not ready and the spelling of the newest of them (customers:8-25).  *)
IsActiveCustomers(answer, list) ==
  /\ {answer[i].name.key : i \in DOMAIN answer} =
       {list[k].name.key : k \in {j \in DOMAIN list : list[j].status # "READY"}}
  /\ \A i, j \in DOMAIN answer : i < j => answer[i].name.key < answer[j].name.key
  /\ \A i \in DOMAIN answer :
       LET waiting == Waiting(list, answer[i].name.key) IN
       /\ answer[i].activeOrders = Cardinality(waiting)
       /\ answer[i].name = list[Min(waiting)].name
=============================================================================
