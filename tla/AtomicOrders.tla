---------------------------- MODULE AtomicOrders ----------------------------
(***************************************************************************)
(* What the order API promises its clients, with no threads in it: orders  *)
(* are created and given a status in one indivisible step each, and every  *)
(* such step that alters something is announced exactly once, in order.    *)
(* The stores of the .NET and the Java solution are compared with this     *)
(* specification.                                                          *)
(***************************************************************************)
EXTENDS OrderContract, Sequences

VARIABLES orders,      \* the status of each order, Absent before it is created
          announced    \* per order: its announcements, oldest first

vars == <<orders, announced>>

Announcement == [prev : Status \cup {Absent}, status : Status]

TypeOK == /\ orders \in [Orders -> Status \cup {Absent}]
          /\ announced \in [Orders -> Seq(Announcement)]

Init == /\ orders \in [Orders -> Status \cup {Absent}]
        /\ announced = [o \in Orders |-> <<>>]

Change(o, s) ==
  /\ orders' = [orders EXCEPT ![o] = s]
  /\ announced' = [announced EXCEPT ![o] = Append(@, [prev |-> orders[o], status |-> s])]

Create(o) == orders[o] = Absent /\ Change(o, "PENDING")

SetStatus(o, s) == orders[o] \notin {Absent, s} /\ Change(o, s)

Next == \E o \in Orders : Create(o) \/ \E s \in Status : SetStatus(o, s)

Spec == Init /\ [][Next]_vars

-----------------------------------------------------------------------------
(* Somebody who replays the announcements of an order arrives at its       *)
(* status: each one starts where the one before it ended, each one is a    *)
(* real change, and the last one ends at what is stored.                   *)
ReplayGivesOrders ==
  \A o \in Orders :
    LET n == Len(announced[o]) IN
    /\ \A k \in 1..n : announced[o][k].prev # announced[o][k].status
    /\ \A k \in 1..n-1 : announced[o][k].status = announced[o][k+1].prev
    /\ n > 0 => announced[o][n].status = orders[o]
=============================================================================
