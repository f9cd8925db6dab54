---------------------------- MODULE MockKaffebar ----------------------------
(***************************************************************************)
(* The kaffebar that runs inside the web application when there are no     *)
(* containers (USE_MOCK_API): a Map of orders, a bus of events, a barista  *)
(* on a timer, and the streams of /api/events that listen to the bus.      *)
(*                                                                         *)
(* All of it is on one event loop: a request, or a tick of a timer, is one *)
(* step.  Orders are numbered as they are created, which is the order of   *)
(* the Map and of createdAt.                                               *)
(***************************************************************************)
EXTENDS OrderContract, Sequences, SequencesExt, FiniteSetsExt

CONSTANTS
  Seed,   \* the statuses of SEED, oldest first
  Days    \* what a behaviour may have in it: the tabs that are open, how many
          \* changes are asked for by others, and how many streams break and
          \* requests fail; bounds the model

ASSUME MockAssumption ==
  /\ IsFiniteSet(Orders) /\ Orders = 1..Cardinality(Orders)
  /\ Seed \in Seq(Status) /\ DOMAIN Seed \subseteq Orders
  /\ \A d \in Days : IsFiniteSet(d.tabs) /\ d.changes \in Nat /\ d.faults \in Nat

VARIABLES
  day,        \* which of them it is
  orders,     \* the Map: each order's status
  created,    \* how many orders there have been
  stream,     \* of each tab
  inbox,      \* the events on their way to each tab
  changes,    \* asked for by others, so far
  demo,       \* whether a demo stream has moved an order
  faults,     \* so far
  announced   \* ghost: what the bus has carried about each order

mock == <<day, orders, created, stream, inbox, changes, demo, faults, announced>>

Event == [order : Orders, prev : Status \cup {Absent}, status : Status, n : Nat]

MockTypeOK ==
  /\ day \in Days
  /\ orders \in [Orders -> Status \cup {Absent}] /\ created \in 0..Cardinality(Orders)
  /\ stream \in [day.tabs -> {"none", "importing", "open"}]
  /\ inbox \in [day.tabs -> Seq(Event)]
  /\ \A t \in day.tabs : stream[t] # "open" => inbox[t] = <<>>
  /\ changes \in 0..day.changes /\ demo \in BOOLEAN /\ faults \in 0..day.faults
  /\ announced \in [Orders -> Seq([prev : Status \cup {Absent}, status : Status])]

NoOrders == [o \in Orders |-> Absent]

\* Faulty: every bundle that loads the module seeds the store.
SeededAgain(store) == [o \in Orders |-> IF o \in DOMAIN Seed THEN Seed[o] ELSE store[o]]

\* The module is loaded once per bundle, and seeds a store that is empty.
Seeded(store) ==
  IF store = NoOrders
  THEN [o \in Orders |-> IF o \in DOMAIN Seed THEN Seed[o] ELSE Absent] ELSE store

\* instrumentation.ts has loaded it, and started the barista.
MockInit ==
  /\ day \in Days
  /\ orders = Seeded(NoOrders) /\ created = Len(Seed)
  /\ stream = [t \in day.tabs |-> "none"] /\ inbox = [t \in day.tabs |-> <<>>]
  /\ changes = 0 /\ demo = FALSE /\ faults = 0
  /\ announced = [o \in Orders |-> <<>>]

Present == {o \in Orders : orders[o] # Absent}

\* oldestMockWithStatus
With(s) == {o \in Orders : orders[o] = s}

\* listMockOrders: the newest of them
List(limit) ==
  [o \in Orders |->
    IF Cardinality({p \in Present : p > o}) < limit THEN orders[o] ELSE Absent]

-----------------------------------------------------------------------------
(* Changes that go over the bus.  bus.emit calls its listeners there and   *)
(* then: each open stream has the event before the request is answered.    *)

Events(moves) ==
  [k \in DOMAIN moves |->
    [order |-> moves[k].order, prev |-> orders[moves[k].order], status |-> moves[k].status,
     n |-> Len(announced[moves[k].order]) + 1]]

\* No order is moved twice at a time.
About(o, moves) == {k \in DOMAIN moves : moves[k].order = o}
TheMove(o, moves) == CHOOSE k \in About(o, moves) : TRUE

Stored(moves) ==
  [o \in Orders |-> IF About(o, moves) = {} THEN orders[o] ELSE moves[TheMove(o, moves)].status]

Notice(e) == [prev |-> e.prev, status |-> e.status]

Announce(moves) ==
  LET events == Events(moves) IN
  /\ inbox' = [t \in day.tabs |-> IF stream[t] = "open" THEN inbox[t] \o events ELSE inbox[t]]
  /\ announced' = [o \in Orders |->
       IF About(o, moves) = {} THEN announced[o]
       ELSE Append(announced[o], Notice(events[TheMove(o, moves)]))]

Perform(moves) == orders' = Stored(moves) /\ Announce(moves)

MockCreateOrder ==
  /\ created < Cardinality(Orders)
  /\ created' = created + 1
  /\ Perform(<<[order |-> created', status |-> "PENDING"]>>)
  /\ UNCHANGED <<day, stream, demo, faults>>

Noteworthy(o, s) == orders[o] # s

MockUpdateOrderStatus(o, s) ==
  /\ orders[o] # Absent
  /\ IF Noteworthy(o, s)
     THEN Perform(<<[order |-> o, status |-> s]>>)
     ELSE UNCHANGED <<orders, inbox, announced>>
  /\ UNCHANGED <<day, created, stream, demo, faults>>

\* A tick of the barista takes the oldest order of each kind one step on.
Advance(from, to) ==
  IF With(from) = {} THEN <<>> ELSE <<[order |-> Min(With(from)), status |-> to]>>

Moves == Advance("BREWING", "READY") \o Advance("PENDING", "BREWING")

Tick ==
  /\ Moves # <<>>
  /\ Perform(Moves)
  /\ UNCHANGED <<day, created, stream, changes, demo, faults>>

-----------------------------------------------------------------------------
(* Changes that do not go over the bus.                                    *)

MockDeleteOrder(o) ==
  /\ orders[o] # Absent
  /\ orders' = [orders EXCEPT ![o] = Absent]
  /\ UNCHANGED <<day, created, stream, inbox, demo, faults, announced>>

\* advanceOneOrder: a demo stream moves an order, and tells its own tab alone.
Transitions == <<<<"BREWING", "READY">>, <<"PENDING", "BREWING">>, <<"READY", "PENDING">>>>

DemoTick ==
  \E k \in DOMAIN Transitions :
    /\ With(Transitions[k][1]) # {}
    /\ \A j \in 1..k-1 : With(Transitions[j][1]) = {}
    /\ orders' = [orders EXCEPT ![Min(With(Transitions[k][1]))] = Transitions[k][2]]
    /\ demo' = TRUE
    /\ UNCHANGED <<day, created, stream, inbox, faults, announced>>

\* The requests of others, and a route that is used for the first time.
Others ==
  /\ changes < day.changes
  /\ changes' = changes + 1
  /\ \/ MockCreateOrder \/ DemoTick
     \/ \E o \in Orders : MockDeleteOrder(o) \/ \E s \in Status : MockUpdateOrderStatus(o, s)

Load ==
  /\ orders' = Seeded(orders) /\ orders' # orders
  /\ UNCHANGED <<day, created, stream, inbox, changes, demo, faults, announced>>

-----------------------------------------------------------------------------
(* The streams.  The bus is imported first; a tab that is closed before    *)
(* that is done leaves a listener which writes to nobody.                  *)
Connect(t) ==
  /\ stream[t] = "none"
  /\ stream' = [stream EXCEPT ![t] = "importing"]
  /\ UNCHANGED <<day, orders, created, inbox, changes, demo, faults, announced>>

SubscribeToMockOrders(t) ==
  /\ stream[t] = "importing"
  /\ stream' = [stream EXCEPT ![t] = "open"]
  /\ UNCHANGED <<day, orders, created, inbox, changes, demo, faults, announced>>

Fault == faults < day.faults /\ faults' = faults + 1

\* The connection breaks, with what was on its way.  The browser retries.
Break(t) ==
  /\ stream[t] # "none" /\ Fault
  /\ stream' = [stream EXCEPT ![t] = "none"]
  /\ inbox' = [inbox EXCEPT ![t] = <<>>]
  /\ UNCHANGED <<day, orders, created, changes, demo, announced>>

Take(t) ==
  /\ inbox[t] # <<>>
  /\ inbox' = [inbox EXCEPT ![t] = Tail(@)]
  /\ UNCHANGED <<day, orders, created, stream, changes, demo, faults, announced>>

MockNext == \/ Tick \/ Others \/ Load
            \/ \E t \in day.tabs : Connect(t) \/ SubscribeToMockOrders(t) \/ Break(t)
-----------------------------------------------------------------------------
Promise(o) == INSTANCE AtomicOrders
              WITH Orders <- {o}, orders <- [p \in {o} |-> orders[p]],
                   announced <- [p \in {o} |-> announced[p]]

(* The mock keeps the promise of the real API, as its comment has it       *)
(* (mocks/store.ts:3-8): of each order every change is announced once, and *)
(* nothing else.  What goes past the bus is a deletion, a demo stream, and *)
(* the seed, which comes back when the last order has been deleted and     *)
(* some bundle is loaded after that.                                       *)
PastTheBus(o) ==
  /\ UNCHANGED announced
  /\ \/ orders'[o] = Absent
     \/ changes' # changes /\ demo'
     \/ orders = NoOrders /\ o \in DOMAIN Seed /\ orders'[o] = Seed[o]

KeepsThePromise ==
  /\ \A o \in Orders : Promise(o)!Init
  /\ [][\A o \in Orders :
          Promise(o)!Next \/ PastTheBus(o) \/ UNCHANGED Promise(o)!vars]_mock
=============================================================================
