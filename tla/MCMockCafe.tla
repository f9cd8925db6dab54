----------------------------- MODULE MCMockCafe -----------------------------
(* One order from the seed, which is done; and four kinds of days: an      *)
(* undisturbed one, one of a customer with others about, one of a customer *)
(* when things fail, and one of a barista with all of it.                  *)
EXTENDS MockCafe, Customers

OneReady == <<"READY">>

Some ==
  {[tabs |-> {Customer, Barista}, changes |-> 0, faults |-> 0],
   [tabs |-> {Customer}, changes |-> 1, faults |-> 0],
   [tabs |-> {Customer}, changes |-> 0, faults |-> 2],
   [tabs |-> {Barista}, changes |-> 3, faults |-> 1]}

\* Two customers, the first of whom spells the name in two ways.
Names == {[key |-> 1, spelling |-> "Ada"], [key |-> 1, spelling |-> "ada"],
          [key |-> 2, spelling |-> "Bo"]}

\* The lists of up to four orders, of which the last may be beyond the limit.
ASSUME ActiveCustomersAsDefined ==
  \A n \in 0..4 : \A list \in [1..n -> [name : Names, status : {"PENDING", "READY"}]] :
    /\ IsActiveCustomers(ActiveCustomers(list), list)
    /\ IsActiveCustomers(GetActive(list, 3), SubSeq(list, 1, Min({3, n})))
=============================================================================
