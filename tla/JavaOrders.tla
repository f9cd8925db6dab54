----------------------------- MODULE JavaOrders -----------------------------
(***************************************************************************)
(* The order store of the Java solution and its writers: OrderStore, the   *)
(* request threads of OrdersController and the scheduled AutoBarista.      *)
(*                                                                         *)
(* Unlike in the .NET solution an Order is one mutable object, shared by   *)
(* every thread that has looked it up.  A thread sets its fields one after *)
(* the other, reads the status back to decide whether to announce, and     *)
(* Jackson reads the fields again, one at a time, when the event is sent.  *)
(* The fields are plain, so every read and write of one is a step; a       *)
(* reordering of them by the compiler or the hardware is not modelled.     *)
(* updatedAt, which only the clients read, is left out.                    *)
(***************************************************************************)
EXTENDS OrderContract, Sequences, FiniteSets

CONSTANTS
  Requests,   \* the requests clients send, each of them once
  Barista,    \* the scheduler's thread
  Seed,       \* the orders of SeedOrders.create, as a function to Fields
  Start,      \* the time at which the store is constructed
  MaxTime     \* the clock stops here; bounds the model

Workers == Requests \cup {Barista}

Fields == [status : Status, createdAt : Nat]

ASSUME JavaAssumption ==
  /\ Barista \notin Requests
  /\ DOMAIN Seed \subseteq Orders
  /\ \A o \in DOMAIN Seed : Seed[o] \in Fields
  /\ Absent \notin Orders \cup Fields
  /\ Start \in Nat /\ MaxTime \in Nat

VARIABLES
  heap,        \* the fields of each Order object in the map
  clock,       \* OffsetDateTime.now(UTC), in milliseconds
  published,   \* per order: the events sent, in order
  pc, order, want,
  previous,    \* StatusChange.previousStatus; Absent while creating
  stamp,       \* what now() gave the thread
  body,        \* the status Jackson has written into the body so far
  unscanned, best,  \* oldestWithStatus: what the stream has yet to visit, its minimum
  writes,      \* ghost: every status set on an order, with the number of the
               \*        write whose status its thread had read
  base, slot,  \* ghost: number of the write a thread read, and of its own
  seen,        \* ghost: number of the write Jackson read the status of
  picked       \* ghost: number of the write whose status made the barista choose

local == <<order, want, previous, stamp, body, unscanned, best, base, slot, seen, picked>>
vars  == <<heap, clock, published, pc, writes, local>>

Places == {"idle", "second", "scan", "picked", "read", "new", "stamped",
           "changed", "announcing", "serialised", "done"}

Event == [prev : Status \cup {Absent}, status : Status, of : Nat, at : Nat]

TypeOK ==
  /\ heap \in [Orders -> Fields \cup {Absent}]
  /\ clock \in Nat
  /\ published \in [Orders -> Seq(Event)]
  /\ pc \in [Workers -> Places]
  /\ order \in [Workers -> Orders \cup {Absent}]
  /\ want \in [Workers -> Status]
  /\ previous \in [Workers -> Status \cup {Absent}]
  /\ stamp \in [Workers -> Nat]
  /\ body \in [Workers -> Status]
  /\ unscanned \subseteq Orders /\ best \in Orders \cup {Absent}
  /\ writes \in [Orders -> Seq([status : Status, base : Nat])]
  /\ base \in [Workers -> Nat] /\ slot \in [Workers -> Nat] /\ seen \in [Workers -> Nat]
  /\ picked \in Nat

Init ==
  /\ heap = [o \in Orders |-> IF o \in DOMAIN Seed THEN Seed[o] ELSE Absent]
  /\ clock = Start
  /\ published = [o \in Orders |-> <<>>]
  /\ pc = [w \in Workers |-> "idle"]
  /\ order = [w \in Workers |-> Absent]
  /\ want = [w \in Workers |-> "PENDING"]
  /\ previous = [w \in Workers |-> Absent]
  /\ stamp = [w \in Workers |-> 0]
  /\ body = [w \in Workers |-> "PENDING"]
  /\ unscanned = {} /\ best = Absent
  /\ writes = [o \in Orders |->
                IF o \in DOMAIN Seed THEN <<[status |-> Seed[o].status, base |-> 0]>> ELSE <<>>]
  /\ base = [w \in Workers |-> 0]
  /\ slot = [w \in Workers |-> 0]
  /\ seen = [w \in Workers |-> 0]
  /\ picked = 0

Goto(w, place) == pc' = [pc EXCEPT ![w] = place]

Wrote(w, s) ==
  /\ writes' = [writes EXCEPT ![order[w]] = Append(@, [status |-> s, base |-> base[w]])]
  /\ slot' = [slot EXCEPT ![w] = Len(writes[order[w]]) + 1]

-----------------------------------------------------------------------------
(* setStatus, and create.                                                  *)

\* find(orderId) and order.getStatus().
Look(w, o, s) ==
  /\ order' = [order EXCEPT ![w] = o]
  /\ want' = [want EXCEPT ![w] = s]
  /\ previous' = [previous EXCEPT ![w] = heap[o].status]
  /\ base' = [base EXCEPT ![w] = Len(writes[o])]
  /\ Goto(w, "read")
  /\ UNCHANGED <<heap, clock, published, writes, stamp, body, unscanned, best, slot, seen, picked>>

\* order.setStatus(status); setUpdatedAt follows.
SetField(w) ==
  /\ pc[w] = "read"
  /\ heap' = [heap EXCEPT ![order[w]].status = want[w]]
  /\ Wrote(w, want[w])
  /\ Goto(w, "changed")
  /\ UNCHANGED <<clock, published, order, want, previous, stamp, body, unscanned, best, base, seen, picked>>

\* now()
Stamp(w) ==
  /\ pc[w] = "new"
  /\ stamp' = [stamp EXCEPT ![w] = clock]
  /\ Goto(w, "stamped")
  /\ UNCHANGED <<heap, clock, published, writes, order, want, previous, body,
                 unscanned, best, base, slot, seen, picked>>

\* Faulty: nobody sets the status of a new Order.
NewOrderUnset(w) == [status |-> Absent, createdAt |-> stamp[w]]

NewOrder(w) == [status |-> "PENDING", createdAt |-> stamp[w]]

\* orders.put(order.getOrderId(), order)
Put(w) ==
  /\ pc[w] = "stamped"
  /\ heap' = [heap EXCEPT ![order[w]] = NewOrder(w)]
  /\ Wrote(w, "PENDING")
  /\ Goto(w, "changed")
  /\ UNCHANGED <<clock, published, order, want, previous, stamp, body,
                 unscanned, best, base, seen, picked>>

-----------------------------------------------------------------------------
(* applyStatus, createOrder and advance, and the publish they call.        *)

After(w) == IF w # Barista THEN "done" ELSE IF want[w] = "READY" THEN "second" ELSE "idle"

\* The call returns and its local variables are gone.
Return(w) ==
  /\ Goto(w, After(w))
  /\ order' = [order EXCEPT ![w] = Absent]
  /\ want' = [want EXCEPT ![w] = "PENDING"]
  /\ previous' = [previous EXCEPT ![w] = Absent]
  /\ stamp' = [stamp EXCEPT ![w] = 0]
  /\ body' = [body EXCEPT ![w] = "PENDING"]
  /\ base' = [base EXCEPT ![w] = 0]
  /\ slot' = [slot EXCEPT ![w] = 0]
  /\ seen' = [seen EXCEPT ![w] = 0]
  /\ picked' = IF w = Barista THEN 0 ELSE picked
  /\ UNCHANGED <<unscanned, best>>

\* Faulty variants of Noteworthy: no comparison, and only READY is announced.
NoteworthyAlways(w) == TRUE
NoteworthyIfReady(w) == w = Barista \/ heap[order[w]].status = "READY"

\* applyStatus reads the status BACK from the shared object; the others announce.
Noteworthy(w) == w = Barista \/ previous[w] # heap[order[w]].status

Compare(w) ==
  /\ pc[w] = "changed"
  /\ IF Noteworthy(w)
     THEN Goto(w, "announcing") /\ UNCHANGED local
     ELSE Return(w)
  /\ UNCHANGED <<heap, clock, published, writes>>

\* Faulty: the event keeps the order as it was before the update.
SerialiseOld(w) ==
  /\ pc[w] = "announcing"
  /\ body' = [body EXCEPT ![w] = IF previous[w] = Absent THEN "PENDING" ELSE previous[w]]
  /\ seen' = [seen EXCEPT ![w] = base[w]]
  /\ Goto(w, "serialised")
  /\ UNCHANGED <<heap, clock, published, writes, order, want, previous, stamp,
                 unscanned, best, base, slot, picked>>

\* objectMapper.writeValueAsBytes(event) reaches getStatus() ...
Serialise(w) ==
  /\ pc[w] = "announcing"
  /\ body' = [body EXCEPT ![w] = heap[order[w]].status]
  /\ seen' = [seen EXCEPT ![w] = Len(writes[order[w]])]
  /\ Goto(w, "serialised")
  /\ UNCHANGED <<heap, clock, published, writes, order, want, previous, stamp,
                 unscanned, best, base, slot, picked>>

\* ... and the message goes to the exchange.
Send(w) ==
  /\ pc[w] = "serialised"
  /\ published' = [published EXCEPT ![order[w]] =
       Append(@, [prev |-> previous[w], status |-> body[w], of |-> slot[w], at |-> seen[w]])]
  /\ Return(w)
  /\ UNCHANGED <<heap, clock, writes>>

Patch(w, o, s) ==
  /\ pc[w] = "idle"
  /\ heap[o] # Absent
  /\ Look(w, o, s)

\* 404 for an unknown order or coffee.
NotFound(w) ==
  /\ pc[w] = "idle"
  /\ Goto(w, "done")
  /\ UNCHANGED <<heap, clock, published, writes, local>>

\* UUID.randomUUID() gives an identifier nobody else has.
Create(w, o) ==
  /\ pc[w] = "idle"
  /\ heap[o] = Absent
  /\ \A v \in Workers : order[v] # o
  /\ order' = [order EXCEPT ![w] = o]
  /\ Goto(w, "new")
  /\ UNCHANGED <<heap, clock, published, writes, want, previous, stamp, body,
                 unscanned, best, base, slot, seen, picked>>

-----------------------------------------------------------------------------
(* oldestWithStatus streams over the map without locking it: each order is *)
(* looked at in a step of its own, in any order.  An order inserted        *)
(* meanwhile is left for the next round.                                   *)
BeginScan(at, to) ==
  /\ pc[Barista] = at
  /\ unscanned' = {o \in Orders : heap[o] # Absent}
  /\ best' = Absent
  /\ want' = [want EXCEPT ![Barista] = to]
  /\ Goto(Barista, "scan")
  /\ UNCHANGED <<heap, clock, published, writes, order, previous, stamp, body, base, slot, seen,
                 picked>>

From == IF want[Barista] = "READY" THEN "BREWING" ELSE "PENDING"

Scan(o) ==
  /\ pc[Barista] = "scan"
  /\ o \in unscanned
  /\ unscanned' = unscanned \ {o}
  /\ IF /\ heap[o].status = From
        /\ best = Absent \/ heap[o].createdAt < heap[best].createdAt
     THEN best' = o /\ picked' = Len(writes[o])
     ELSE UNCHANGED <<best, picked>>
  /\ UNCHANGED <<heap, clock, published, writes, pc, order, want, previous, stamp, body,
                 base, slot, seen>>

EndScan ==
  /\ pc[Barista] = "scan"
  /\ unscanned = {}
  /\ IF best = Absent
     THEN Return(Barista)
     ELSE /\ Goto(Barista, "picked")
          /\ order' = [order EXCEPT ![Barista] = best]
          /\ best' = Absent
          /\ UNCHANGED <<want, previous, stamp, body, unscanned, base, slot, seen, picked>>
  /\ UNCHANGED <<heap, clock, published, writes>>

BaristaLook == pc[Barista] = "picked" /\ Look(Barista, order[Barista], want[Barista])

\* work(): BREWING to READY, then PENDING to BREWING.
Tick == \/ BeginScan("idle", "READY")
        \/ BeginScan("second", "BREWING")
        \/ \E o \in Orders : Scan(o)
        \/ EndScan
        \/ BaristaLook

Arrive(w) ==
  \/ NotFound(w)
  \/ \E o \in Orders : Create(w, o) \/ \E s \in Status : Patch(w, o, s)

Work(w) == SetField(w) \/ Stamp(w) \/ Put(w) \/ Compare(w) \/ Serialise(w) \/ Send(w)

TimePasses ==
  /\ clock < MaxTime
  /\ clock' = clock + 1
  /\ UNCHANGED <<heap, published, pc, writes, local>>

Next == \/ \E w \in Requests : Arrive(w)
        \/ \E w \in Workers : Work(w)
        \/ Tick
        \/ TimePasses

Spec == Init /\ [][Next]_vars
-----------------------------------------------------------------------------
(* A write is overtaken when its thread had read an older status than the  *)
(* one it replaced.                                                        *)
Overtaken(o, i) == writes[o][i].base # i - 1

AfterWrite == {"changed", "announcing", "serialised"}

AnnouncedOrOwed(o, i) ==
  \/ \E k \in 1..Len(published[o]) : published[o][k].of = i
  \/ \E w \in Workers : pc[w] \in AfterWrite /\ order[w] = o /\ slot[w] = i

(* The change that left an order with the status it has now is announced,  *)
(* unless it was overtaken.  An earlier change may well be passed over: a  *)
(* thread that reads the status back finds somebody else's                 *)
(* (OrdersController.applyStatus).                                         *)
LatestChangeAnnouncedUnlessOvertaken ==
  \A o \in Orders : \A i \in 2..Len(writes[o]) :
    i = Len(writes[o]) /\ ~Overtaken(o, i) /\ writes[o][i - 1].status # writes[o][i].status
      => AnnouncedOrOwed(o, i)

(* An event never carries a status older than the update it announces: the *)
(* object is read after it was written (OrderEventPublisher.publish).      *)
EventsAreAtLeastAsNewAsTheirUpdate ==
  \A o \in Orders : \A k \in 1..Len(published[o]) :
    LET e == published[o][k] IN
    /\ e.of \in 1..Len(writes[o]) /\ e.at \in e.of..Len(writes[o])
    /\ e.status = writes[o][e.at].status
    /\ e.prev = IF writes[o][e.of].base = 0 THEN Absent
                ELSE writes[o][writes[o][e.of].base].status

-----------------------------------------------------------------------------
(* Left to itself, an update of this store too is atomic.                  *)

\* An update is about to replace a status it did not read, or has been
\* replaced before it was announced; or the barista found another status
\* than the one that made him choose the order.
Disturbed(w) ==
  LET newest == Len(writes[order[w]]) IN
  \/ pc[w] = "read" /\ base[w] # newest
  \/ pc[w] \in AfterWrite /\ slot[w] # newest
  \/ pc[w] \in AfterWrite /\ w = Barista /\ base[w] # picked

StatusOf(o) == IF heap[o] = Absent THEN Absent ELSE heap[o].status

\* The threads that have changed a status and have yet to announce it, in the
\* order in which they set it.
Late(o) == {w \in Workers : /\ order[w] = o
                            /\ \/ pc[w] \in {"announcing", "serialised"}
                               \/ pc[w] = "changed" /\ previous[w] # want[w]}

InOrder(writers, places) ==
  [k \in 1..Cardinality(writers) |->
     CHOOSE w \in writers : Cardinality({v \in writers : places[v] < places[w]}) = k - 1]

Owed(w) == [prev |-> previous[w], status |-> want[w]]

\* What the clients have been told of an order, and what they will be told.
Told(o) == [k \in 1..Len(published[o]) |->
              [prev |-> published[o][k].prev, status |-> published[o][k].status]]

Owing(o) == LET writers == InOrder(Late(o), slot)
            IN  [k \in DOMAIN writers |-> Owed(writers[k])]

Promise(o) == INSTANCE AtomicOrders
              WITH Orders <- {o}, orders <- [p \in {o} |-> StatusOf(p)],
                   announced <- [p \in {o} |-> Told(p) \o Owing(p)]

(* Of each order this store too does what the abstract store would do, in  *)
(* one step with its announcement, however many steps its fields take,     *)
(* except in the steps that are taken while a write disturbs an update of  *)
(* that order.                                                             *)
ImplementsAtomicOrders ==
  /\ \A o \in Orders : Promise(o)!Init
  /\ [][\A o \in Orders :
          \/ Promise(o)!Next \/ UNCHANGED Promise(o)!vars
          \/ \E w \in Workers : order[w] = o /\ Disturbed(w)]_vars
=============================================================================
