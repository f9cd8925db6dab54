-------------------------- MODULE MockCafe_proofs --------------------------
(***************************************************************************)
(* Proofs about MockCafe, for any number of orders, of changes and of      *)
(* faults.                                                                 *)
(***************************************************************************)
EXTENDS MockCafe, FiniteSetTheorems, SequenceTheorems, WellFoundedInduction, TLAPS

Place   == Status \cup {Absent}
Notices == [prev : Place, status : Status]
Move    == [order : Orders, status : Status]

\* An event is numbered from one: 0 in timers means that there is no timeout.
Numbered == [order : Orders, prev : Place, status : Status, n : Nat \ {0}]

KitchenInv ==
  /\ day \in Days
  /\ orders \in [Orders -> Place]
  /\ created \in 0..Cardinality(Orders)
  /\ announced \in [Orders -> Seq(Notices)]
  /\ inbox \in [day.tabs -> Seq(Numbered)]

BoardInv == timers \in [Orders -> Nat] /\ AlertsHaveTimers

Inv == KitchenInv /\ BoardInv

-----------------------------------------------------------------------------
(* The orders.                                                             *)

(* There is an order to take whenever oldestMockWithStatus finds one.      *)
LEMMA OldestIsAnOrder ==
  ASSUME NEW S, S \subseteq Orders, S # {}
  PROVE  Min(S) \in S
<1>1. S \subseteq Nat
  BY FS_CardinalityType, MockAssumption
<1>2. PICK x \in S : \A y \in S : ~(<<y, x>> \in OpToRel(<, Nat))
  BY <1>1, NatLessThanWellFounded, WFMin
<1>3. \A y \in S : ~(y < x)
  BY <1>1, <1>2, Zenon DEF OpToRel
<1>4. \A y \in S : x <= y
  BY <1>1, <1>3
<1> QED
  BY <1>4 DEF Min

(* What the barista does in a tick is a sequence of moves.                 *)
LEMMA AdvanceMoves ==
  ASSUME NEW from \in Status, NEW to \in Status
  PROVE  Advance(from, to) \in Seq(Move)
<1>1. CASE With(from) = {}
  BY <1>1 DEF Advance
<1>2. CASE With(from) # {}
  <2>1. Min(With(from)) \in Orders
    BY <1>2, OldestIsAnOrder DEF With
  <2> DEFINE m == [order |-> Min(With(from)), status |-> to]
  <2>2. m \in Move
    BY <2>1 DEF Move
  <2>3. Advance(from, to) = <<m>>
    BY <1>2 DEF Advance
  <2> QED
    BY <2>2, <2>3
<1> QED
  BY <1>1, <1>2

(* What goes over the bus keeps the types, and numbers its events.         *)
LEMMA PerformKeepsKitchen ==
  ASSUME KitchenInv, NEW moves \in Seq(Move), Perform(moves),
         UNCHANGED day, created' \in 0..Cardinality(Orders)
  PROVE  KitchenInv'
<1> DEFINE events == Events(moves)
<1>1. \A k \in DOMAIN moves : moves[k] \in Move
  BY ElementOfSeq
<1>2. events \in Seq(Numbered)
  <2>1. \A k \in DOMAIN moves :
          [order |-> moves[k].order, prev |-> orders[moves[k].order], status |-> moves[k].status,
           n |-> Len(announced[moves[k].order]) + 1] \in Numbered
    <3> SUFFICES ASSUME NEW k \in DOMAIN moves
                 PROVE  [order |-> moves[k].order, prev |-> orders[moves[k].order],
                         status |-> moves[k].status,
                         n |-> Len(announced[moves[k].order]) + 1] \in Numbered
      OBVIOUS
    <3>1. moves[k].order \in Orders /\ moves[k].status \in Status
      BY <1>1 DEF Move
    <3>2. orders[moves[k].order] \in Place /\ Len(announced[moves[k].order]) \in Nat
      BY <3>1 DEF KitchenInv
    <3> QED
      BY <3>1, <3>2 DEF Numbered
  <2>2. DOMAIN moves = 1..Len(moves) /\ Len(moves) \in Nat
    OBVIOUS
  <2>3. events \in [1..Len(moves) -> Numbered]
    BY <2>1, <2>2 DEF Events
  <2> QED
    BY <2>2, <2>3, SeqDef
<1>3. \A o \in Orders : About(o, moves) # {} => TheMove(o, moves) \in DOMAIN moves
  BY DEF About, TheMove
<1>4. orders' \in [Orders -> Place]
  <2> SUFFICES ASSUME NEW o \in Orders, About(o, moves) # {}
               PROVE  moves[TheMove(o, moves)].status \in Place
    BY DEF Perform, Stored, KitchenInv
  <2> QED
    BY <1>1, <1>3 DEF Move, Place
<1>5. announced' \in [Orders -> Seq(Notices)]
  <2> SUFFICES ASSUME NEW o \in Orders, About(o, moves) # {}
               PROVE  Notice(events[TheMove(o, moves)]) \in Notices
    BY DEF Perform, Announce, KitchenInv
  <2>1. events[TheMove(o, moves)] \in Numbered
    BY <1>2, <1>3, ElementOfSeq DEF Events
  <2> QED
    BY <2>1 DEF Notice, Notices, Numbered
<1>6. inbox' \in [day.tabs -> Seq(Numbered)]
  BY <1>2, ConcatProperties DEF Perform, Announce, KitchenInv
<1> QED
  BY <1>4, <1>5, <1>6 DEF KitchenInv

(* The seed, when the module is loaded first and when the store is empty.  *)
LEMMA SeededType ==
  ASSUME NEW s \in [Orders -> Place]
  PROVE  Seeded(s) \in [Orders -> Place]
BY MockAssumption, ElementOfSeq DEF Seeded, Place

(* The orders of the seed are the first ones.                              *)
LEMMA CreatedFits == Len(Seed) \in 0..Cardinality(Orders)
<1>1. Cardinality(Orders) \in Nat /\ Len(Seed) \in Nat
  BY MockAssumption, FS_CardinalityType
<1>2. DOMAIN Seed = 1..Len(Seed)
  BY MockAssumption
<1>3. \A i \in 1..Len(Seed) : i \in 1..Cardinality(Orders)
  BY <1>2, MockAssumption
<1> QED
  BY <1>1, <1>3

(* An order that is created has the next number.                           *)
LEMMA CreateStep ==
  ASSUME KitchenInv, MockCreateOrder
  PROVE  KitchenInv'
<1>1. created' \in 0..Cardinality(Orders) /\ created' \in Orders
  BY MockAssumption, FS_CardinalityType DEF MockCreateOrder, KitchenInv
<1> DEFINE m == [order |-> created', status |-> "PENDING"]
<1>2. <<m>> \in Seq(Move)
  BY <1>1 DEF Move, Status
<1> QED
  BY <1>1, <1>2, PerformKeepsKitchen DEF MockCreateOrder

(* Every step of the mock keeps its types.                                 *)
LEMMA MockStep ==
  ASSUME KitchenInv, MockNext
  PROVE  KitchenInv'
<1>1. CASE Tick
  <2>1. Advance("BREWING", "READY") \in Seq(Move) /\ Advance("PENDING", "BREWING") \in Seq(Move)
    BY AdvanceMoves DEF Status
  <2>2. Moves \in Seq(Move)
    BY <2>1, ConcatProperties DEF Moves
  <2> QED
    BY <1>1, <2>2, PerformKeepsKitchen DEF Tick, KitchenInv
<1>2. CASE Others
  <2>1. CASE MockCreateOrder
    BY <2>1, CreateStep
  <2>2. CASE DemoTick
    <3>1. PICK k \in DOMAIN Transitions :
            /\ With(Transitions[k][1]) # {}
            /\ orders' = [orders EXCEPT ![Min(With(Transitions[k][1]))] = Transitions[k][2]]
      BY <2>2 DEF DemoTick
    <3>2. Min(With(Transitions[k][1])) \in Orders
      BY <3>1, OldestIsAnOrder DEF With
    <3>3. Transitions[k][2] \in Place
      BY DEF Transitions, Place, Status
    <3> QED
      BY <2>2, <3>1, <3>2, <3>3 DEF DemoTick, KitchenInv
  <2>3. CASE \E o \in Orders : MockDeleteOrder(o)
    BY <2>3 DEF MockDeleteOrder, KitchenInv, Place
  <2>4. ASSUME NEW o \in Orders, NEW s \in Status, MockUpdateOrderStatus(o, s)
        PROVE  KitchenInv'
    <3>1. CASE Noteworthy(o, s)
      <4> DEFINE m == [order |-> o, status |-> s]
      <4>1. <<m>> \in Seq(Move)
        BY DEF Move
      <4> QED
        BY <2>4, <3>1, <4>1, PerformKeepsKitchen DEF MockUpdateOrderStatus, KitchenInv
    <3>2. CASE ~Noteworthy(o, s)
      BY <2>4, <3>2 DEF MockUpdateOrderStatus, KitchenInv
    <3> QED
      BY <3>1, <3>2
  <2> QED
    BY <1>2, <2>1, <2>2, <2>3, <2>4 DEF Others
<1>3. CASE Load
  BY <1>3, SeededType DEF Load, KitchenInv
<1>4. ASSUME NEW t \in day.tabs, Connect(t) \/ SubscribeToMockOrders(t) \/ Break(t)
      PROVE  KitchenInv'
  <2>1. inbox' = inbox \/ inbox' = [inbox EXCEPT ![t] = <<>>]
    BY <1>4 DEF Connect, SubscribeToMockOrders, Break
  <2>2. <<>> \in Seq(Numbered) /\ inbox \in [day.tabs -> Seq(Numbered)]
    BY DEF KitchenInv
  <2>3. inbox' \in [day.tabs -> Seq(Numbered)]
    BY <2>1, <2>2, Zenon
  <2> QED
    BY <1>4, <2>3 DEF Connect, SubscribeToMockOrders, Break, KitchenInv
<1> QED
  BY <1>1, <1>2, <1>3, <1>4 DEF MockNext

(* Reading an event leaves the others in line.                             *)
LEMMA TakeStep ==
  ASSUME KitchenInv, NEW t \in day.tabs, Take(t)
  PROVE  KitchenInv' /\ Head(inbox[t]) \in Numbered
<1>1. inbox[t] \in Seq(Numbered) /\ inbox[t] # <<>>
  BY DEF KitchenInv, Take
<1>2. Head(inbox[t]) \in Numbered /\ Tail(inbox[t]) \in Seq(Numbered)
  BY <1>1, HeadTailProperties
<1> QED
  BY <1>2 DEF KitchenInv, Take

-----------------------------------------------------------------------------
(* The alerts.                                                             *)

(* The orders that have a timeout, of timeouts that are known per order.   *)
LEMMA OrdersOfTimeouts ==
  ASSUME NEW f, NEW T, T = {<<o, f[o]>> : o \in {p \in Orders : f[p] # 0}}
  PROVE  {t[1] : t \in T} = {p \in Orders : f[p] # 0}
<1>1. \A o \in Orders : f[o] # 0 => <<o, f[o]>> \in T /\ <<o, f[o]>>[1] = o
  OBVIOUS
<1>2. \A t \in T : \E o \in Orders : f[o] # 0 /\ t[1] = o
  OBVIOUS
<1>3. {t[1] : t \in T} \subseteq {p \in Orders : f[p] # 0}
  BY <1>2
<1>4. \A p \in Orders : f[p] # 0 => \E t \in T : p = t[1]
  BY <1>1
<1>5. {p \in Orders : f[p] # 0} \subseteq {t[1] : t \in T}
  BY <1>4
<1> QED
  BY <1>3, <1>5, Zenon

(* A new alert clears the timeout of the one it replaces.                  *)
LEMMA AlertStep ==
  ASSUME BoardInv, NEW e \in Numbered, OnOrderEvent(e)
  PROVE  BoardInv'
<1>1. e.order \in Orders /\ e.n \in Nat /\ e.n # 0
  BY DEF Numbered
<1>2. CASE IsNewQueuedOrder(e) /\ Unseen(e)
  <2>1. timers' = [timers EXCEPT ![e.order] = e.n] /\ alerts' = alerts \cup {e.order}
        /\ timeouts' = (timeouts \ {<<e.order, timers[e.order]>>}) \cup {<<e.order, e.n>>}
    BY <1>2 DEF OnOrderEvent, ClearTimeout, Key
  <2>2. timers' \in [Orders -> Nat]
    BY <1>1, <2>1 DEF BoardInv
  <2>3. timeouts' = {<<o, timers'[o]>> : o \in {p \in Orders : timers'[p] # 0}}
    BY <1>1, <2>1 DEF BoardInv, AlertsHaveTimers
  <2>4. {t[1] : t \in timeouts'} = {p \in Orders : timers'[p] # 0}
    BY <2>3, OrdersOfTimeouts
  <2>5. alerts = {p \in Orders : timers[p] # 0}
    <3>1. /\ timeouts = {<<o, timers[o]>> : o \in {p \in Orders : timers[p] # 0}}
          /\ alerts = {t[1] : t \in timeouts}
      BY DEF BoardInv, AlertsHaveTimers
    <3>2. {t[1] : t \in timeouts} = {p \in Orders : timers[p] # 0}
      BY <3>1, OrdersOfTimeouts
    <3> QED
      BY <3>1, <3>2
  <2>6. alerts' = {p \in Orders : timers'[p] # 0}
    BY <1>1, <2>1, <2>5 DEF BoardInv
  <2> QED
    BY <2>2, <2>3, <2>4, <2>6 DEF BoardInv, AlertsHaveTimers
<1>3. CASE ~(IsNewQueuedOrder(e) /\ Unseen(e))
  BY <1>3 DEF OnOrderEvent, board, BoardInv, AlertsHaveTimers
<1> QED
  BY <1>2, <1>3

(* An alert that goes takes its timeout with it, and no other.             *)
LEMMA GoesStep ==
  ASSUME BoardInv, NEW o \in Orders,
         timers' = [timers EXCEPT ![o] = 0], alerts' = alerts \ {o},
         timeouts' = timeouts \ {<<o, timers[o]>>}
  PROVE  BoardInv'
<1>1. timers' \in [Orders -> Nat]
  BY DEF BoardInv
<1>2. timeouts' = {<<p, timers'[p]>> : p \in {q \in Orders : timers'[q] # 0}}
  BY DEF BoardInv, AlertsHaveTimers
<1>3. {t[1] : t \in timeouts'} = alerts'
  BY <1>2 DEF BoardInv, AlertsHaveTimers
<1> QED
  BY <1>1, <1>2, <1>3 DEF BoardInv, AlertsHaveTimers

-----------------------------------------------------------------------------
(* The invariants of the kitchen and of the board hold at first ...        *)
LEMMA InvInit == Init => Inv
<1> SUFFICES ASSUME Init PROVE Inv
  OBVIOUS
<1>1. created \in 0..Cardinality(Orders)
  BY CreatedFits DEF Init, MockInit
<1>2. KitchenInv
  BY <1>1, SeededType DEF Init, MockInit, KitchenInv, NoOrders, Place
<1>3. BoardInv
  BY DEF Init, BoardInit, BoardInv, AlertsHaveTimers
<1> QED
  BY <1>2, <1>3 DEF Inv

(* ... and every step of the application keeps them.                       *)
LEMMA InvStep == Inv /\ [Next]_vars => Inv'
<1> SUFFICES ASSUME Inv, [Next]_vars PROVE Inv'
  OBVIOUS
<1> USE DEF Inv
<1>1. UNCHANGED mock => KitchenInv'
  BY DEF mock, KitchenInv
<1>2. UNCHANGED board => BoardInv'
  BY DEF board, BoardInv, AlertsHaveTimers
<1>3. CASE Kitchen
  BY <1>2, <1>3, MockStep DEF Kitchen
<1>4. CASE BaristaReceives
  BY <1>4, TakeStep, AlertStep DEF BaristaReceives
<1>5. CASE Redelivery
  <2>1. Head(inbox[Barista]) \in Numbered
    BY <1>5, HeadTailProperties DEF Redelivery, KitchenInv
  <2>2. KitchenInv'
    BY <1>5 DEF Redelivery, KitchenInv
  <2> QED
    BY <1>5, <2>1, <2>2, AlertStep DEF Redelivery
<1>6. CASE AlertGoes
  <2>1. CASE \E o \in Orders : DismissAlert(o)
    <3>1. PICK o \in Orders : DismissAlert(o)
      BY <2>1
    <3>2. BoardInv'
      BY <3>1, GoesStep DEF DismissAlert, ClearTimeout
    <3> QED
      BY <1>1, <1>6, <3>2 DEF AlertGoes
  <2>2. ASSUME NEW t \in timeouts, TimesOut(t) PROVE BoardInv'
    <3>1. t[1] \in Orders /\ t = <<t[1], timers[t[1]]>>
      BY DEF BoardInv, AlertsHaveTimers
    <3> QED
      BY <2>2, <3>1, GoesStep DEF TimesOut, ClearTimeout
  <2> QED
    BY <1>1, <1>6, <2>1, <2>2 DEF AlertGoes
<1>7. CASE CustomerReceives
  BY <1>2, <1>7, TakeStep DEF CustomerReceives
<1>8. CASE Order
  BY <1>2, <1>8, CreateStep DEF Order
<1>9. CASE CustomerSees \/ CustomerOrders \/ (GetOrders /\ UNCHANGED <<mock, board, missed>>)
  BY <1>1, <1>2, <1>9 DEF CustomerSees, CustomerOrders
<1>10. CASE Fails
  BY <1>2, <1>10 DEF Fails, KitchenInv
<1>11. CASE UNCHANGED vars
  BY <1>1, <1>2, <1>11 DEF vars
<1> QED
  BY <1>3, <1>4, <1>5, <1>6, <1>7, <1>8, <1>9, <1>10, <1>11 DEF Next

(* Each alert has exactly one timeout running, its own, however events,    *)
(* redeliveries, dismissals and timeouts follow one another                *)
(* (BaristaBoard.showAlert, dismissAlert).                                 *)
THEOREM AlertsHaveTimersAlways == Spec => []AlertsHaveTimers
<1>1. Inv => AlertsHaveTimers
  BY DEF Inv, BoardInv
<1> QED
  BY <1>1, InvInit, InvStep, PTL DEF Spec

-----------------------------------------------------------------------------
(* The promise of the API, order by order.                                 *)

\* Orders that are not yet created are not there; and a move takes an order
\* somewhere else, and a new one into the queue.
Numbering ==
  /\ created >= Len(Seed)
  /\ \A o \in Orders : o > created => orders[o] = Absent

RealMove(m) ==
  /\ m \in Move
  /\ m.status # orders[m.order]
  /\ orders[m.order] = Absent => m.status = "PENDING" /\ m.order = created' /\ created' = created + 1

RealMoves(moves) ==
  /\ moves \in Seq(Move)
  /\ \A k \in DOMAIN moves : RealMove(moves[k])
  /\ \A j, k \in DOMAIN moves : moves[j].order = moves[k].order => j = k

Same(o) == UNCHANGED Promise(o)!vars

(* What the abstract API can do with one order.                            *)
LEMMA OneChange ==
  ASSUME KitchenInv, NEW o \in Orders, NEW s \in Status,
         s # orders[o], orders[o] = Absent => s = "PENDING",
         orders'[o] = s, announced'[o] = Append(announced[o], [prev |-> orders[o], status |-> s])
  PROVE  Promise(o)!Next
<1> DEFINE st == [p \in {o} |-> orders[p]]
           an == [p \in {o} |-> announced[p]]
<1>a. st[o] = orders[o] /\ an[o] = announced[o]
  OBVIOUS
<1>b. [p \in {o} |-> orders'[p]] = [st EXCEPT ![o] = s]
  OBVIOUS
<1>c. [p \in {o} |-> announced'[p]]
        = [an EXCEPT ![o] = Append(an[o], [prev |-> st[o], status |-> s])]
  BY <1>a
<1>1. Promise(o)!Change(o, s)
  BY <1>b, <1>c DEF Promise!Change
<1>2. CASE orders[o] = Absent
  BY <1>1, <1>2, <1>a DEF Promise!Next, Promise!Create
<1>3. CASE orders[o] # Absent
  BY <1>1, <1>3, <1>a DEF Promise!Next, Promise!SetStatus, Promise!Status, Status
<1> QED
  BY <1>2, <1>3

(* An order whose status and announcements stay is not stepped.            *)
LEMMA SameIfUntouched ==
  ASSUME NEW o \in Orders, orders'[o] = orders[o], announced'[o] = announced[o]
  PROVE  Same(o)
BY DEF Same, Promise!vars

(* Whatever goes over the bus is a step of the abstract API.               *)
LEMMA PerformKeepsPromise ==
  ASSUME KitchenInv, NEW moves, RealMoves(moves), Perform(moves), NEW o \in Orders
  PROVE  Promise(o)!Next \/ Same(o)
<1> DEFINE j == TheMove(o, moves)
<1>1. CASE About(o, moves) = {}
  <2>1. orders'[o] = orders[o] /\ announced'[o] = announced[o]
    BY <1>1 DEF Perform, Stored, Announce
  <2> QED
    BY <2>1, SameIfUntouched
<1>2. CASE About(o, moves) # {}
  <2>1. j \in DOMAIN moves /\ moves[j].order = o
    BY <1>2 DEF About, TheMove
  <2> DEFINE s == moves[j].status
  <2>2. RealMove(moves[j])
    BY <2>1 DEF RealMoves
  <2>3. s \in Status /\ s # orders[o] /\ (orders[o] = Absent => s = "PENDING")
    BY <2>1, <2>2 DEF RealMove, Move
  <2>4. orders'[o] = s
    BY <1>2 DEF Perform, Stored
  <2>5. Events(moves)[j].prev = orders[o] /\ Events(moves)[j].status = s
    BY <2>1 DEF Events
  <2>6. announced'[o] = Append(announced[o], [prev |-> orders[o], status |-> s])
    BY <1>2, <2>5 DEF Perform, Announce, Notice
  <2> HIDE DEF s, j
  <2> QED
    BY <2>3, <2>4, <2>6, OneChange
<1> QED
  BY <1>1, <1>2

(* Advance moves the oldest order of a status, or none.                    *)
LEMMA AdvanceShape ==
  ASSUME NEW from \in Status, NEW to \in Status
  PROVE  \/ Advance(from, to) = <<>>
         \/ \E o \in Orders : /\ orders[o] = from
                             /\ Advance(from, to) = <<[order |-> o, status |-> to]>>
<1>1. CASE With(from) # {}
  <2>1. Min(With(from)) \in With(from)
    BY <1>1, OldestIsAnOrder DEF With
  <2> QED
    BY <1>1, <2>1 DEF Advance, With
<1> QED
  BY <1>1 DEF Advance

(* A tick moves at most two orders, and not one of them twice, since they  *)
(* have different statuses.                                                *)
LEMMA TickMoves ==
  ASSUME KitchenInv
  PROVE  RealMoves(Moves)
<1> DEFINE first  == Advance("BREWING", "READY")
           second == Advance("PENDING", "BREWING")
<1>1. \/ first = <<>>
      \/ \E o \in Orders : orders[o] = "BREWING" /\ first = <<[order |-> o, status |-> "READY"]>>
  BY AdvanceShape DEF Status
<1>2. \/ second = <<>>
      \/ \E o \in Orders : orders[o] = "PENDING" /\ second = <<[order |-> o, status |-> "BREWING"]>>
  BY AdvanceShape DEF Status
<1>3. Moves = first \o second
  BY DEF Moves
<1> HIDE DEF first, second
<1>4. \A o \in Orders : orders[o] = "BREWING" => RealMove([order |-> o, status |-> "READY"])
  BY AbsentAssumption DEF RealMove, Move, Status
<1>5. \A o \in Orders : orders[o] = "PENDING" => RealMove([order |-> o, status |-> "BREWING"])
  BY AbsentAssumption DEF RealMove, Move, Status
<1>6. CASE first = <<>> /\ second = <<>>
  <2>1. Moves = <<>>
    BY <1>3, <1>6
  <2> QED
    BY <2>1 DEF RealMoves
<1>7. CASE first # <<>> /\ second = <<>>
  <2>1. PICK o \in Orders : orders[o] = "BREWING" /\ first = <<[order |-> o, status |-> "READY"]>>
    BY <1>1, <1>7
  <2>2. Moves = <<[order |-> o, status |-> "READY"]>>
    BY <1>3, <1>7, <2>1
  <2> QED
    BY <1>4, <2>1, <2>2 DEF RealMoves, RealMove
<1>8. CASE first = <<>> /\ second # <<>>
  <2>1. PICK o \in Orders : orders[o] = "PENDING" /\ second = <<[order |-> o, status |-> "BREWING"]>>
    BY <1>2, <1>8
  <2>2. Moves = <<[order |-> o, status |-> "BREWING"]>>
    BY <1>3, <1>8, <2>1
  <2> QED
    BY <1>5, <2>1, <2>2 DEF RealMoves, RealMove
<1>9. CASE first # <<>> /\ second # <<>>
  <2>1. PICK o \in Orders : orders[o] = "BREWING" /\ first = <<[order |-> o, status |-> "READY"]>>
    BY <1>1, <1>9
  <2>2. PICK p \in Orders : orders[p] = "PENDING" /\ second = <<[order |-> p, status |-> "BREWING"]>>
    BY <1>2, <1>9
  <2> DEFINE a == [order |-> o, status |-> "READY"]
             b == [order |-> p, status |-> "BREWING"]
  <2>3. Moves = <<a>> \o <<b>>
    BY <1>3, <2>1, <2>2
  <2>4. RealMove(a) /\ RealMove(b) /\ a.order # b.order
    BY <1>4, <1>5, <2>1, <2>2
  <2> HIDE DEF a, b
  <2>5. a \in Move /\ b \in Move
    BY <2>4 DEF RealMove
  <2>6. /\ <<a>> \in Seq(Move) /\ <<b>> \in Seq(Move)
        /\ Len(<<a>>) = 1 /\ Len(<<b>>) = 1 /\ <<a>>[1] = a /\ <<b>>[1] = b
    BY <2>5
  <2>7. Moves \in Seq(Move) /\ Len(Moves) = 2 /\ Moves[1] = a /\ Moves[2] = b
    BY <2>3, <2>6, ConcatProperties
  <2>8. DOMAIN Moves = {1, 2}
    BY <2>7
  <2> QED
    BY <2>4, <2>7, <2>8 DEF RealMoves
<1> QED
  BY <1>6, <1>7, <1>8, <1>9

(* A new order is the next one, which nobody has seen.                     *)
LEMMA CreateMoves ==
  ASSUME KitchenInv, Numbering, MockCreateOrder
  PROVE  \E moves : RealMoves(moves) /\ Perform(moves)
<1>1. created' = created + 1 /\ created' \in Orders
  BY MockAssumption, FS_CardinalityType DEF MockCreateOrder, KitchenInv
<1>2. orders[created'] = Absent
  BY <1>1 DEF Numbering, KitchenInv
<1> DEFINE m == [order |-> created', status |-> "PENDING"]
<1>3. RealMove(m)
  BY <1>1, <1>2, AbsentAssumption DEF RealMove, Move, Status
<1>4. RealMoves(<<m>>)
  BY <1>3 DEF RealMoves, RealMove
<1> QED
  BY <1>4 DEF MockCreateOrder

(* Somebody else's update is announced if it is a change.                  *)
LEMMA UpdateMoves ==
  ASSUME KitchenInv, NEW o \in Orders, NEW s \in Status, MockUpdateOrderStatus(o, s), Noteworthy(o, s)
  PROVE  \E moves : RealMoves(moves) /\ Perform(moves)
<1> DEFINE m == [order |-> o, status |-> s]
<1>1. RealMove(m)
  BY DEF RealMove, Move, MockUpdateOrderStatus, Noteworthy
<1>2. RealMoves(<<m>>)
  BY <1>1 DEF RealMoves, RealMove
<1> QED
  BY <1>2 DEF MockUpdateOrderStatus

(* Only the next order can appear over the bus.                            *)
LEMMA PerformKeepsNumbering ==
  ASSUME KitchenInv, Numbering, NEW moves, RealMoves(moves), Perform(moves),
         created' \in Nat, created' >= created
  PROVE  Numbering'
<1>1. \A o \in Orders : o \in Nat
  BY MockAssumption, FS_CardinalityType
<1>2. ASSUME NEW o \in Orders, o > created' PROVE orders'[o] = Absent
  <2>1. orders[o] = Absent
    BY <1>1, <1>2 DEF Numbering, KitchenInv
  <2>2. About(o, moves) = {}
    BY <1>1, <1>2, <2>1 DEF About, RealMoves, RealMove
  <2> QED
    BY <2>1, <2>2 DEF Perform, Stored
<1>3. created' >= Len(Seed)
  BY MockAssumption DEF Numbering, KitchenInv
<1> QED
  BY <1>2, <1>3 DEF Numbering

\* What a step may do: keep the promise for each order, and the numbering.
Sound == Numbering' /\ \A o \in Orders : Promise(o)!Next \/ PastTheBus(o) \/ Same(o)

(* A step over the bus is sound ...                                        *)
LEMMA BusStep ==
  ASSUME KitchenInv, Numbering, created' \in Nat, created' >= created,
         \E moves : RealMoves(moves) /\ Perform(moves)
  PROVE  Sound
BY PerformKeepsNumbering, PerformKeepsPromise DEF Sound

(* ... and so is one that leaves the store alone.                          *)
LEMMA QuietStep ==
  ASSUME Numbering, UNCHANGED <<orders, created, announced>>
  PROVE  Sound
BY SameIfUntouched DEF Sound, Numbering

(* Creating an order is sound.                                             *)
LEMMA CreateIsSound ==
  ASSUME KitchenInv, Numbering, MockCreateOrder
  PROVE  Sound
<1>1. created' = created + 1 /\ created \in Nat
  BY MockAssumption, FS_CardinalityType DEF MockCreateOrder, KitchenInv
<1> QED
  BY <1>1, CreateMoves, BusStep

(* The mock alone.                                                         *)
LEMMA MockIsSound ==
  ASSUME KitchenInv, Numbering, changes \in Nat, MockNext
  PROVE  Sound
<1>0. created \in Nat /\ \A o \in Orders : o \in Nat
  BY MockAssumption, FS_CardinalityType DEF KitchenInv
<1>1. CASE Tick
  BY <1>0, <1>1, TickMoves, BusStep DEF Tick
<1>2. CASE Others
  <2>1. CASE MockCreateOrder
    BY <2>1, CreateIsSound
  <2>2. CASE DemoTick
    <3>1. PICK k \in DOMAIN Transitions :
            /\ With(Transitions[k][1]) # {}
            /\ orders' = [orders EXCEPT ![Min(With(Transitions[k][1]))] = Transitions[k][2]]
      BY <2>2 DEF DemoTick
    <3>2. Transitions[k][1] # Absent
      BY AbsentAssumption DEF Transitions, Status
    <3>3. orders[Min(With(Transitions[k][1]))] # Absent /\ Min(With(Transitions[k][1])) \in Orders
      BY <3>1, <3>2, OldestIsAnOrder DEF With
    <3>4. Numbering'
      BY <2>2, <3>1, <3>3 DEF DemoTick, Numbering, KitchenInv
    <3>5. \A o \in Orders : PastTheBus(o)
      BY <1>0, <1>2, <2>2 DEF Others, DemoTick, PastTheBus
    <3> QED
      BY <3>4, <3>5 DEF Sound
  <2>3. ASSUME NEW o \in Orders, MockDeleteOrder(o) PROVE Sound
    <3>1. Numbering'
      BY <2>3 DEF MockDeleteOrder, Numbering, KitchenInv
    <3>2. PastTheBus(o)
      BY <2>3 DEF MockDeleteOrder, PastTheBus, KitchenInv
    <3>3. \A p \in Orders : p # o => Same(p)
      BY <2>3, SameIfUntouched DEF MockDeleteOrder, KitchenInv
    <3> QED
      BY <3>1, <3>2, <3>3 DEF Sound
  <2>4. ASSUME NEW o \in Orders, NEW s \in Status, MockUpdateOrderStatus(o, s) PROVE Sound
    <3>1. CASE Noteworthy(o, s)
      BY <1>0, <2>4, <3>1, UpdateMoves, BusStep DEF MockUpdateOrderStatus
    <3>2. CASE ~Noteworthy(o, s)
      BY <2>4, <3>2, QuietStep DEF MockUpdateOrderStatus
    <3> QED
      BY <3>1, <3>2
  <2> QED
    BY <1>2, <2>1, <2>2, <2>3, <2>4 DEF Others
<1>3. CASE Load
  <2>1. orders = NoOrders /\ UNCHANGED <<created, announced>>
    BY <1>3 DEF Load, Seeded
  <2>2. orders' = [o \in Orders |-> IF o \in DOMAIN Seed THEN Seed[o] ELSE Absent]
    BY <1>3, <2>1 DEF Load, Seeded
  <2>3. DOMAIN Seed = 1..Len(Seed) /\ Len(Seed) \in Nat
    BY MockAssumption
  <2>4. Numbering'
    BY <1>0, <2>1, <2>2, <2>3 DEF Numbering
  <2>5. \A o \in Orders : PastTheBus(o)
    BY <2>1, <2>2 DEF PastTheBus
  <2> QED
    BY <2>4, <2>5 DEF Sound
<1>4. CASE \E t \in day.tabs : Connect(t) \/ SubscribeToMockOrders(t) \/ Break(t)
  BY <1>4, QuietStep DEF Connect, SubscribeToMockOrders, Break
<1> QED
  BY <1>1, <1>2, <1>3, <1>4 DEF MockNext

(* Every step of the application.                                          *)
LEMMA StepIsSound ==
  ASSUME KitchenInv, Numbering, changes \in Nat, [Next]_vars
  PROVE  Sound
<1>1. CASE Kitchen
  BY <1>1, MockIsSound DEF Kitchen
<1>2. CASE Order
  BY <1>2, CreateIsSound DEF Order
<1>3. CASE BaristaReceives \/ Redelivery \/ AlertGoes \/ CustomerReceives \/ CustomerSees
           \/ CustomerOrders \/ Fails \/ (GetOrders /\ UNCHANGED <<mock, board, missed>>)
           \/ UNCHANGED vars
  BY <1>3, QuietStep DEF BaristaReceives, Redelivery, AlertGoes, CustomerReceives, CustomerSees,
     CustomerOrders, Fails, Take, vars, mock
<1> QED
  BY <1>1, <1>2, <1>3 DEF Next

(* The count of the changes that others ask for.                           *)
LEMMA ChangesStep ==
  ASSUME changes \in Nat, [Next]_vars
  PROVE  changes' \in Nat
BY DEF Next, Kitchen, MockNext, Tick, Others, Load, Connect, SubscribeToMockOrders, Break,
   BaristaReceives, Redelivery, AlertGoes, CustomerReceives, Order, CustomerSees,
   CustomerOrders, Fails, Take, vars, mock

(* The store begins as the abstract one may, with nothing announced.       *)
LEMMA PromiseInit == Init => Numbering /\ \A o \in Orders : Promise(o)!Init
<1> SUFFICES ASSUME Init PROVE Numbering /\ \A o \in Orders : Promise(o)!Init
  OBVIOUS
<1>1. orders = [o \in Orders |-> IF o \in DOMAIN Seed THEN Seed[o] ELSE Absent]
  BY DEF Init, MockInit, Seeded
<1>2. DOMAIN Seed = 1..Len(Seed) /\ Len(Seed) \in Nat /\ \A o \in Orders : o \in Nat
  BY MockAssumption, FS_CardinalityType
<1>3. Numbering
  BY <1>1, <1>2 DEF Numbering, Init, MockInit
<1>4. orders \in [Orders -> Place] /\ announced = [o \in Orders |-> <<>>]
  BY InvInit DEF Inv, KitchenInv, Init, MockInit
<1>5. \A o \in Orders : Promise(o)!Init
  BY <1>4 DEF Promise!Init, Promise!Status, Place, Status
<1> QED
  BY <1>3, <1>5

(* The mock implements the abstract API order by order: every change is    *)
(* announced once and nothing else is, but for what goes past the bus      *)
(* (mocks/store.ts, mocks/api.ts).                                         *)
THEOREM MockKeepsThePromise == Spec => KeepsThePromise
<1> DEFINE begun == \A o \in Orders : Promise(o)!Init
           kept  == \A o \in Orders :
                      Promise(o)!Next \/ PastTheBus(o) \/ UNCHANGED Promise(o)!vars
           counted == changes \in Nat
<1>1. (Init => counted) /\ (counted /\ [Next]_vars => counted')
  BY ChangesStep DEF Init, MockInit
<1>2. Inv /\ Numbering /\ counted /\ [Next]_vars => Numbering' /\ [kept]_mock
  BY StepIsSound DEF Inv, Sound, Same
<1>3. Init => Numbering /\ begun
  BY PromiseInit
<1>4. KeepsThePromise <=> begun /\ [][kept]_mock
  BY DEF KeepsThePromise
<1> HIDE DEF begun, kept, counted
<1> QED
  BY <1>1, <1>2, <1>3, <1>4, InvInit, InvStep, PTL DEF Spec

-----------------------------------------------------------------------------
(* The customer's card.                                                    *)

Post == [at : {"sent"}] \cup [at : {"served"}, order : Orders]

\* The orders of the form are none of the seed's, and what is created after
\* them has a higher number.
New(o) == Len(Seed) < o /\ o <= created

OrdersAreNew ==
  /\ \A k \in DOMAIN posts : posts[k].at = "served" => New(posts[k].order)
  /\ myOrder # None => New(myOrder)

\* A list that the card can be shown from.
Has(list) == list[myOrder] # Absent \/ orders[myOrder] = Absent \/ Behind(myOrder)

\* The list that is shown, or the one that comes, has the order.
ListHasIt ==
  myOrder # None /\ faults = 0 =>
    /\ fetch = Idle => Has(cache)
    /\ fetch.at = "served" => Has(fetch.data)

CardInv == ScreenTypeOK /\ faults \in Nat /\ OrdersAreNew /\ ListHasIt

(* With one request at most, to remove one is to have none.                *)
LEMMA NoneLeft ==
  ASSUME ScreenTypeOK, NEW k \in DOMAIN posts
  PROVE  RemoveAt(posts, k) = <<>> /\ posts[k] \in Post
<1>1. posts \in Seq(Post) /\ Len(posts) \in Nat /\ Len(posts) <= 1
      /\ DOMAIN posts = 1..Len(posts)
  BY DEF ScreenTypeOK, Post
<1>2. k = 1 /\ Len(posts) = 1
  BY <1>1
<1>3. SubSeq(posts, 1, 0) = <<>> /\ SubSeq(posts, 2, 1) = <<>>
  BY <1>1
<1> QED
  BY <1>1, <1>2, <1>3, ElementOfSeq DEF RemoveAt

(* The newest orders are as many as have been created since.               *)
LEMMA FewAreNewer ==
  ASSUME KitchenInv, Numbering, NEW o \in Orders, ~Behind(o), o <= created
  PROVE  List(ListLimit)[o] = orders[o]
<1> DEFINE newer == {p \in Present : p > o}
<1>1. created \in Nat /\ o \in Nat /\ \A p \in Orders : p \in Nat
  BY MockAssumption, FS_CardinalityType DEF KitchenInv
<1>2. newer \subseteq (o + 1)..created
  <2> SUFFICES ASSUME NEW p \in newer PROVE p \in (o + 1)..created
    OBVIOUS
  <2>1. p \in Orders /\ orders[p] # Absent /\ p > o
    BY DEF Present
  <2>2. ~(p > created)
    BY <2>1 DEF Numbering
  <2> QED
    BY <1>1, <2>1, <2>2
<1> DEFINE since == (o + 1)..created
<1>3. IsFiniteSet(since) /\ Cardinality(since) = created - o
  <2>1. o + 1 \in Int /\ created \in Int
    BY <1>1
  <2>2. IsFiniteSet(since)
        /\ Cardinality(since) = IF o + 1 > created THEN 0 ELSE created - (o + 1) + 1
    BY <2>1, FS_Interval
  <2> HIDE DEF since
  <2> QED
    BY <1>1, <2>2
<1>4. Cardinality(newer) <= created - o /\ Cardinality(newer) \in Nat
  BY <1>2, <1>3, FS_Subset, FS_CardinalityType
<1>5. Cardinality(newer) < ListLimit
  BY <1>1, <1>4, CafeAssumption DEF Behind
<1> QED
  BY <1>5 DEF List

(* What goes over the bus brings nothing back ...                          *)
LEMMA BusBringsNothingBack ==
  ASSUME KitchenInv, NEW moves, RealMoves(moves), Perform(moves),
         NEW o \in Orders, o <= created, orders[o] = Absent
  PROVE  orders'[o] = Absent
<1>1. created \in Nat /\ o \in Nat
  BY MockAssumption, FS_CardinalityType DEF KitchenInv
<1>2. About(o, moves) = {}
  BY <1>1 DEF About, RealMoves, RealMove
<1> QED
  BY <1>2 DEF Perform, Stored

(* ... and of the rest only the seed comes back.                           *)
LEMMA GoneForGood ==
  ASSUME KitchenInv, Numbering, [Next]_vars
  PROVE  /\ created' \in Nat /\ created' >= created
         /\ \A o \in Orders : New(o) /\ orders[o] = Absent => orders'[o] = Absent
<1>0. created \in Nat /\ (\A o \in Orders : o \in Nat) /\ Len(Seed) \in Nat
  BY MockAssumption, FS_CardinalityType DEF KitchenInv
<1>1. CASE UNCHANGED <<orders, created>>
  BY <1>0, <1>1
<1>2. CASE MockCreateOrder
  <2>1. created' = created + 1
    BY <1>2 DEF MockCreateOrder
  <2> QED
    BY <1>0, <1>2, <2>1, CreateMoves, BusBringsNothingBack DEF New
<1>3. CASE Tick
  <2>1. created' = created /\ Perform(Moves)
    BY <1>3 DEF Tick
  <2> QED
    BY <1>0, <2>1, TickMoves, BusBringsNothingBack DEF New
<1>4. CASE DemoTick
  <2>1. PICK k \in DOMAIN Transitions :
          /\ With(Transitions[k][1]) # {}
          /\ orders' = [orders EXCEPT ![Min(With(Transitions[k][1]))] = Transitions[k][2]]
    BY <1>4 DEF DemoTick
  <2>2. Transitions[k][1] # Absent
    BY AbsentAssumption DEF Transitions, Status
  <2>3. orders[Min(With(Transitions[k][1]))] # Absent
    BY <2>1, <2>2, OldestIsAnOrder DEF With
  <2> QED
    BY <1>0, <1>4, <2>1, <2>3 DEF DemoTick, KitchenInv
<1>5. ASSUME NEW p \in Orders, MockDeleteOrder(p)
      PROVE  created' = created /\ \A o \in Orders : orders[o] = Absent => orders'[o] = Absent
  BY <1>5 DEF MockDeleteOrder, KitchenInv
<1>6. ASSUME NEW p \in Orders, NEW s \in Status, MockUpdateOrderStatus(p, s)
      PROVE  created' = created /\ \A o \in Orders : New(o) /\ orders[o] = Absent => orders'[o] = Absent
  <2>1. created' = created
    BY <1>6 DEF MockUpdateOrderStatus
  <2>2. CASE Noteworthy(p, s)
    BY <1>6, <2>1, <2>2, UpdateMoves, BusBringsNothingBack DEF New
  <2>3. CASE ~Noteworthy(p, s)
    BY <1>6, <2>1, <2>3 DEF MockUpdateOrderStatus
  <2> QED
    BY <2>1, <2>2, <2>3
<1>7. CASE Load
  <2>1. \A o \in DOMAIN Seed : ~New(o)
    <3>1. DOMAIN Seed = 1..Len(Seed)
      BY MockAssumption
    <3> QED
      BY <1>0, <3>1 DEF New
  <2> QED
    BY <1>0, <1>7, <2>1 DEF Load, Seeded
<1>8. CASE Kitchen
  <2>1. CASE Others
    BY <1>0, <1>2, <1>4, <1>5, <1>6, <2>1 DEF Others
  <2>2. CASE \E t \in day.tabs : Connect(t) \/ SubscribeToMockOrders(t) \/ Break(t)
    BY <1>1, <2>2 DEF Connect, SubscribeToMockOrders, Break
  <2> QED
    BY <1>3, <1>7, <1>8, <2>1, <2>2 DEF Kitchen, MockNext
<1>9. CASE Order
  BY <1>2, <1>9 DEF Order
<1>10. CASE ~Kitchen /\ ~Order
  BY <1>1, <1>10 DEF Next, BaristaReceives, Redelivery, AlertGoes, CustomerReceives,
     CustomerSees, CustomerOrders, Fails, Take, vars, mock
<1> QED
  BY <1>8, <1>9, <1>10

(* A list that has the order, or need not, goes on to do so.               *)
LEMMA HasForGood ==
  ASSUME KitchenInv, Numbering, [Next]_vars, NEW l \in AList,
         myOrder \in Orders, New(myOrder), UNCHANGED myOrder, Has(l)
  PROVE  New(myOrder)' /\ (Has(l))'
<1>1. created' \in Nat /\ created' >= created /\ created \in Nat /\ myOrder \in Nat
      /\ Len(Seed) \in Nat /\ ListLimit \in Nat
  BY GoneForGood, MockAssumption, CafeAssumption, FS_CardinalityType DEF KitchenInv
<1>2. orders[myOrder] = Absent => orders'[myOrder] = Absent
  BY GoneForGood
<1>3. Len(Seed) < myOrder' /\ myOrder' <= created'
  BY <1>1 DEF New
<1>4. created - myOrder >= ListLimit => created' - myOrder' >= ListLimit
  <2>1. \A a, b, c, n \in Nat : b >= a /\ a - c >= n => b - c >= n
    OBVIOUS
  <2>2. myOrder' = myOrder
    OBVIOUS
  <2> QED
    BY <1>1, <2>1, <2>2, Zenon
<1>5. l[myOrder'] # Absent \/ orders'[myOrder'] = Absent \/ created' - myOrder' >= ListLimit
  BY <1>2, <1>4 DEF Has, Behind
<1> QED
  BY <1>3, <1>5 DEF Has, New, Behind

(* What the screen is made of keeps its type.                              *)
LEMMA ScreenStep ==
  ASSUME KitchenInv, ScreenTypeOK, [Next]_vars
  PROVE  ScreenTypeOK'
<1> USE DEF AList
<1>1. ASSUME NEW n \in Nat PROVE List(n) \in AList
  BY DEF List, KitchenInv, Place
<1>2. CASE Respond \/ FetchFails
  BY <1>2 DEF Respond, FetchFails, ScreenTypeOK, Idle
<1>3. CASE GetOrders
  <2>1. fetch.tries \in 0..1
    BY <1>3 DEF GetOrders, ServeList, ScreenTypeOK, Idle
  <2> QED
    BY <1>1, <1>3, <2>1, CafeAssumption DEF GetOrders, ServeList, ScreenTypeOK
<1>4. CASE Submit
  BY <1>4, AppendProperties DEF Submit, Disabled, ScreenTypeOK
<1>5. CASE OnEvent
  BY <1>5 DEF OnEvent, Invalidate, ScreenTypeOK
<1>6. ASSUME NEW k \in DOMAIN posts, OnSuccess(k) \/ PostFails(k)
      PROVE  ScreenTypeOK'
  <2>1. posts' = <<>> /\ posts[k] \in Post
    BY <1>6, NoneLeft DEF OnSuccess, PostFails
  <2>2. posts' \in Seq(Post) /\ Len(posts') <= 1
    BY <2>1
  <2>3. myOrder' \in Orders \cup {None}
    BY <1>6, <2>1 DEF OnSuccess, PostFails, Post, ScreenTypeOK
  <2> QED
    BY <1>6, <2>2, <2>3 DEF OnSuccess, PostFails, Refetch, Invalidate, ScreenTypeOK, Post
<1>7. ASSUME NEW k \in DOMAIN posts, created' \in Orders, ServePost(k, created')
      PROVE  ScreenTypeOK'
  <2> DEFINE m == [at |-> "served", order |-> created']
  <2>1. posts \in Seq(Post) /\ m \in Post
    BY <1>7 DEF Post, ScreenTypeOK
  <2>2. posts' \in Seq(Post) /\ Len(posts') = Len(posts)
    BY <1>7, <2>1, ExceptSeq DEF ServePost
  <2> QED
    BY <1>7, <2>2 DEF ServePost, ScreenTypeOK, Post
<1>8. CASE UNCHANGED screen
  BY <1>8 DEF screen, ScreenTypeOK
<1>9. MockCreateOrder => created' \in Orders
  BY MockAssumption, FS_CardinalityType DEF MockCreateOrder, KitchenInv
<1> QED
  BY <1>2, <1>3, <1>4, <1>5, <1>6, <1>7, <1>8, <1>9 DEF Next, Kitchen, BaristaReceives, Redelivery,
     AlertGoes, CustomerReceives, Order, CustomerSees, CustomerOrders, Fails, vars

(* Failures are counted.                                                   *)
LEMMA FaultsStep ==
  ASSUME faults \in Nat, [Next]_vars
  PROVE  faults' \in Nat /\ faults' >= faults /\ (Fails => faults' # 0)
<1>1. Fault => faults' = faults + 1
  BY DEF Fault
<1>2. Fault \/ UNCHANGED faults
  BY DEF Next, Kitchen, MockNext, Tick, Others, MockCreateOrder, DemoTick, MockDeleteOrder,
     MockUpdateOrderStatus, Load, Connect, SubscribeToMockOrders, Break, BaristaReceives,
     Redelivery, AlertGoes, CustomerReceives, Order, CustomerSees, CustomerOrders, Fails,
     Take, vars, mock
<1> QED
  BY <1>1, <1>2 DEF Fails

(* The orders of the form are new.                                         *)
LEMMA OrdersStayNew ==
  ASSUME KitchenInv, Numbering, ScreenTypeOK, OrdersAreNew, [Next]_vars
  PROVE  OrdersAreNew'
<1>0. created' \in Nat /\ created' >= created /\ created \in Nat /\ Len(Seed) \in Nat
      /\ \A o \in Orders : o \in Nat
  BY GoneForGood, MockAssumption, FS_CardinalityType DEF KitchenInv
<1> DEFINE StillNew(o) == Len(Seed) < o /\ o <= created'
<1>a. \A o \in Orders : New(o) => StillNew(o)
  BY <1>0 DEF New
<1>b. OrdersAreNew' <=>
        /\ \A k \in DOMAIN posts' : posts'[k].at = "served" => StillNew(posts'[k].order)
        /\ myOrder' # None => StillNew(myOrder')
  BY DEF OrdersAreNew, New
<1> HIDE DEF StillNew
<1>2. DOMAIN posts = 1..Len(posts) /\ Len(posts) \in Nat /\ \A k \in DOMAIN posts : posts[k] \in Post
  BY ElementOfSeq DEF ScreenTypeOK, Post
<1>3. CASE UNCHANGED <<posts, myOrder>>
  BY <1>b, <1>a, <1>2, <1>3 DEF OrdersAreNew, ScreenTypeOK, Post
<1>4. CASE Submit
  <2>1. DOMAIN posts' = DOMAIN posts \cup {Len(posts) + 1} /\ posts'[Len(posts) + 1].at = "sent"
        /\ \A k \in DOMAIN posts : posts'[k] = posts[k]
    BY <1>2, <1>4 DEF Submit
  <2> QED
    BY <1>b, <1>a, <1>2, <1>4, <2>1 DEF OrdersAreNew, Submit, ScreenTypeOK, Post
<1>5. ASSUME NEW k \in DOMAIN posts, OnSuccess(k) \/ PostFails(k)
      PROVE  OrdersAreNew'
  <2>1. posts' = <<>>
    BY <1>5, NoneLeft DEF OnSuccess, PostFails
  <2>2. myOrder' = myOrder \/ (posts[k].at = "served" /\ myOrder' = posts[k].order /\ myOrder' \in Orders)
    BY <1>2, <1>5 DEF OnSuccess, PostFails, Post
  <2>3. myOrder' # None => StillNew(myOrder')
    BY <1>a, <2>2 DEF OrdersAreNew, ScreenTypeOK
  <2> QED
    BY <1>b, <2>1, <2>3
<1>6. ASSUME NEW k \in DOMAIN posts, MockCreateOrder, ServePost(k, created')
      PROVE  OrdersAreNew'
  <2>1. created' = created + 1 /\ created' > Len(Seed)
    BY <1>0, <1>6 DEF MockCreateOrder, Numbering
  <2>2. StillNew(created')
    BY <1>0, <2>1 DEF StillNew
  <2>3. myOrder' # None => StillNew(myOrder')
    BY <1>a, <1>6 DEF OrdersAreNew, ScreenTypeOK, ServePost
  <2>4. DOMAIN posts' = DOMAIN posts /\ posts'[k].order = created'
        /\ \A j \in DOMAIN posts \ {k} : posts'[j] = posts[j]
    BY <1>6 DEF ServePost
  <2> QED
    BY <1>b, <1>a, <1>2, <2>2, <2>3, <2>4 DEF OrdersAreNew, Post
<1> QED
  BY <1>3, <1>4, <1>5, <1>6 DEF Next, Kitchen, BaristaReceives, Redelivery, AlertGoes,
     CustomerReceives, OnEvent, Order, CustomerSees, CustomerOrders, Fails, GetOrders, ServeList,
     Respond, FetchFails, vars, screen

(* The list that is shown or comes has the order.                          *)
LEMMA ListGoesOnToHaveIt ==
  ASSUME KitchenInv, Numbering, CardInv, [Next]_vars
  PROVE  ListHasIt'
<1> SUFFICES ASSUME (myOrder # None)', faults' = 0
             PROVE  /\ fetch' = Idle => Has(cache)'
                    /\ fetch'.at = "served" => Has(fetch.data)'
  BY DEF ListHasIt
<1>1. faults = 0 /\ ~Fails
  BY FaultsStep DEF CardInv
<1>2. cache \in AList /\ (fetch.at = "served" => fetch.data \in AList)
  BY DEF CardInv, ScreenTypeOK, Idle
<1>3. ASSUME UNCHANGED myOrder, NEW l \in AList, Has(l)
      PROVE  Has(l)'
  BY <1>3, HasForGood DEF CardInv, OrdersAreNew, ScreenTypeOK
<1>4. CASE UNCHANGED <<myOrder, cache, fetch>>
  <2>1. fetch = Idle => Has(cache)
    BY <1>1, <1>4 DEF CardInv, ListHasIt
  <2>2. fetch.at = "served" => Has(fetch.data)
    BY <1>1, <1>4 DEF CardInv, ListHasIt
  <2>3. fetch = Idle => Has(cache)'
    BY <1>2, <1>3, <1>4, <2>1 DEF Has
  <2>4. fetch.at = "served" => Has(fetch.data)'
    BY <1>2, <1>3, <1>4, <2>2 DEF Has
  <2> QED
    BY <1>4, <2>3, <2>4
<1>5. ASSUME fetch' = [at |-> "sent", tries |-> 0]
      PROVE  fetch' # Idle /\ fetch'.at # "served"
  BY <1>5 DEF Idle
<1>6. CASE OnEvent \/ \E k \in DOMAIN posts : OnSuccess(k)
  BY <1>5, <1>6 DEF OnEvent, OnSuccess, Refetch, Invalidate
<1>7. CASE Respond /\ UNCHANGED mock
  <2>1. Has(fetch.data)
    BY <1>1, <1>7 DEF CardInv, ListHasIt, Respond
  <2>2. fetch'.at # "served" /\ cache' = fetch.data /\ UNCHANGED <<myOrder, orders, created>>
    BY <1>7 DEF Respond, Idle, mock
  <2> QED
    BY <2>1, <2>2 DEF Has, Behind
<1>8. CASE GetOrders /\ UNCHANGED mock
  <2>1. fetch' # Idle /\ fetch'.data = List(ListLimit) /\ UNCHANGED <<myOrder, orders, created>>
    BY <1>8 DEF GetOrders, ServeList, Idle, mock
  <2>2. myOrder \in Orders /\ myOrder <= created
    BY <2>1 DEF CardInv, OrdersAreNew, New, ScreenTypeOK
  <2>3. Has(List(ListLimit))
    BY <2>2, FewAreNewer DEF Has
  <2> QED
    BY <2>1, <2>3 DEF Has, Behind
<1> QED
  BY <1>1, <1>4, <1>6, <1>7, <1>8 DEF Next, Kitchen, BaristaReceives, Redelivery, AlertGoes,
     CustomerReceives, Order, ServePost, CustomerSees, CustomerOrders, Submit, vars, screen

(* The store and the screen begin in order, and stay so.                   *)
LEMMA CardInit == Init => CardInv
<1> SUFFICES ASSUME Init PROVE CardInv
  OBVIOUS
<1>1. KitchenInv /\ PageLimit \in Nat
  BY InvInit, CafeAssumption DEF Inv
<1>2. List(PageLimit) \in AList
  BY <1>1 DEF List, AList, KitchenInv, Place
<1> QED
  BY <1>2 DEF Init, MockInit, ScreenInit, CardInv, ScreenTypeOK, OrdersAreNew, ListHasIt

LEMMA CardStep == KitchenInv /\ Numbering /\ CardInv /\ [Next]_vars => CardInv'
BY ScreenStep, FaultsStep, OrdersStayNew, ListGoesOnToHaveIt DEF CardInv

(* The count of changes and the numbering, along the whole behaviour.      *)
LEMMA NumberingHolds == Spec => [](Inv /\ Numbering)
<1> DEFINE counted == changes \in Nat
<1>1. (Init => counted) /\ (counted /\ [Next]_vars => counted')
  BY ChangesStep DEF Init, MockInit
<1>2. Inv /\ Numbering /\ counted /\ [Next]_vars => Numbering'
  BY StepIsSound DEF Inv, Sound
<1>3. Init => Numbering
  BY PromiseInit
<1> HIDE DEF counted
<1> QED
  BY <1>1, <1>2, <1>3, InvInit, InvStep, PTL DEF Spec

(* With no request of the form and no fetch under way the card shows the   *)
(* order that was confirmed last, whatever events and lists overtake one   *)
(* another, unless a request failed, the order was deleted, or the list is *)
(* cut before it (OrderForm:54-59, MyOrderTracker:23).                     *)
THEOREM ConfirmedOrderIsShown == Spec => []ConfirmedIsShown
<1>1. CardInv => ConfirmedIsShown
  BY DEF CardInv, ListHasIt, Has, ConfirmedIsShown, Shown
<1>2. Inv => KitchenInv
  BY DEF Inv
<1> QED
  BY <1>1, <1>2, CardInit, CardStep, NumberingHolds, PTL DEF Spec

-----------------------------------------------------------------------------
(* The types of what the proofs above had no use for.                      *)

\* A stream that is not open has nothing on its way.
StreamsInv ==
  /\ stream \in [day.tabs -> {"none", "importing", "open"}]
  /\ \A t \in day.tabs : stream[t] # "open" => inbox[t] = <<>>

CountsInv == changes \in 0..day.changes /\ demo \in BOOLEAN /\ faults \in 0..day.faults

SeenInv == seen \subseteq Orders \X Nat /\ raised \in [Orders -> Nat]

RestInv == StreamsInv /\ CountsInv /\ SeenInv /\ missed \in BOOLEAN

(* The bus writes to the streams that are open.                            *)
LEMMA StreamsStep ==
  ASSUME KitchenInv, StreamsInv, [Next]_vars
  PROVE  StreamsInv'
<1>1. CASE UNCHANGED <<day, stream, inbox>>
  BY <1>1 DEF StreamsInv
<1>2. ASSUME NEW moves, Announce(moves), UNCHANGED <<day, stream>>
      PROVE  StreamsInv'
  BY <1>2 DEF Announce, StreamsInv
<1>3. CASE MockCreateOrder \/ Tick
  BY <1>2, <1>3 DEF MockCreateOrder, Tick, Perform
<1>4. ASSUME NEW o \in Orders, NEW s \in Status, MockUpdateOrderStatus(o, s)
      PROVE  StreamsInv'
  BY <1>1, <1>2, <1>4 DEF MockUpdateOrderStatus, Perform
<1>5. CASE DemoTick \/ Load \/ \E o \in Orders : MockDeleteOrder(o)
  BY <1>1, <1>5 DEF DemoTick, Load, MockDeleteOrder
<1>6. ASSUME NEW t \in day.tabs, Connect(t) \/ SubscribeToMockOrders(t) \/ Break(t)
      PROVE  StreamsInv'
  <2>1. CASE Connect(t)
    BY <2>1 DEF Connect, StreamsInv
  <2>2. CASE SubscribeToMockOrders(t)
    BY <2>2 DEF SubscribeToMockOrders, StreamsInv
  <2>3. CASE Break(t)
    BY <2>3 DEF Break, StreamsInv, KitchenInv
  <2> QED
    BY <1>6, <2>1, <2>2, <2>3
<1>7. ASSUME NEW t \in day.tabs, Take(t)
      PROVE  StreamsInv'
  BY <1>7 DEF Take, StreamsInv, KitchenInv
<1>8. CASE Kitchen
  BY <1>3, <1>4, <1>5, <1>6, <1>8 DEF Kitchen, MockNext, Others
<1>9. CASE Order
  BY <1>3, <1>9 DEF Order
<1>10. CASE BaristaReceives \/ CustomerReceives
  BY <1>7, <1>10 DEF BaristaReceives, CustomerReceives
<1>11. CASE ~Kitchen /\ ~Order /\ ~BaristaReceives /\ ~CustomerReceives
  BY <1>1, <1>11 DEF Next, Redelivery, AlertGoes, CustomerSees, CustomerOrders, Fails, vars, mock
<1> QED
  BY <1>8, <1>9, <1>10, <1>11

(* Changes and faults stay within the bounds of the day.                   *)
LEMMA CountsStep ==
  ASSUME KitchenInv, CountsInv, [Next]_vars
  PROVE  CountsInv'
<1>1. day' = day /\ day.changes \in Nat /\ day.faults \in Nat
  BY MockAssumption DEF KitchenInv, Next, Kitchen, MockNext, Tick, Others, MockCreateOrder,
     DemoTick, MockDeleteOrder, MockUpdateOrderStatus, Load, Connect, SubscribeToMockOrders, Break,
     BaristaReceives, Redelivery, AlertGoes, CustomerReceives, Order, CustomerSees, CustomerOrders,
     Fails, Take, vars, mock
<1>2. changes' \in 0..day.changes
  <2>1. UNCHANGED changes \/ (changes < day.changes /\ changes' = changes + 1)
    BY DEF Next, Kitchen, MockNext, Tick, Others, Load, Connect, SubscribeToMockOrders, Break,
       BaristaReceives, Redelivery, AlertGoes, CustomerReceives, Order, CustomerSees,
       CustomerOrders, Fails, Take, vars, mock
  <2> QED
    BY <1>1, <2>1 DEF CountsInv
<1>3. faults' \in 0..day.faults
  <2>1. UNCHANGED faults \/ (faults < day.faults /\ faults' = faults + 1)
    BY DEF Next, Kitchen, MockNext, Tick, Others, MockCreateOrder, DemoTick, MockDeleteOrder,
       MockUpdateOrderStatus, Load, Connect, SubscribeToMockOrders, Break, BaristaReceives,
       Redelivery, AlertGoes, CustomerReceives, Order, CustomerSees, CustomerOrders, Fails,
       Take, Fault, vars, mock
  <2> QED
    BY <1>1, <2>1 DEF CountsInv
<1>4. UNCHANGED demo \/ demo' = TRUE
  BY DEF Next, Kitchen, MockNext, Tick, Others, MockCreateOrder, DemoTick, MockDeleteOrder,
     MockUpdateOrderStatus, Load, Connect, SubscribeToMockOrders, Break, BaristaReceives,
     Redelivery, AlertGoes, CustomerReceives, Order, CustomerSees, CustomerOrders, Fails,
     Take, vars, mock
<1> QED
  BY <1>1, <1>2, <1>3, <1>4 DEF CountsInv

(* What the board has seen.                                                *)
LEMMA SeenStep ==
  ASSUME KitchenInv, SeenInv, [Next]_vars
  PROVE  SeenInv'
<1>1. CASE UNCHANGED <<seen, raised>>
  BY <1>1 DEF SeenInv
<1>2. ASSUME NEW e \in Numbered, OnOrderEvent(e)
      PROVE  SeenInv'
  BY <1>2 DEF OnOrderEvent, SeenInv, Numbered, Key, board
<1>3. inbox \in [day.tabs -> Seq(Numbered)]
  BY DEF KitchenInv
<1>4. CASE BaristaReceives \/ Redelivery
  <2>1. Head(inbox[Barista]) \in Numbered
    BY <1>3, <1>4, HeadTailProperties DEF BaristaReceives, Redelivery, Take
  <2> QED
    BY <1>2, <1>4, <2>1 DEF BaristaReceives, Redelivery
<1>5. CASE ~BaristaReceives /\ ~Redelivery
  BY <1>1, <1>5 DEF Next, Kitchen, AlertGoes, DismissAlert, TimesOut, CustomerReceives, Order,
     CustomerSees, CustomerOrders, Fails, vars, board
<1> QED
  BY <1>4, <1>5

(* The streams that were not there.                                        *)
LEMMA MissedStep ==
  ASSUME missed \in BOOLEAN, [Next]_vars
  PROVE  missed' \in BOOLEAN
<1>1. CASE Missed
  BY <1>1, Zenon DEF Missed
<1>2. CASE UNCHANGED missed
  BY <1>2
<1> QED
  BY <1>1, <1>2 DEF Next, Kitchen, BaristaReceives, Redelivery, AlertGoes, CustomerReceives, Order,
     CustomerSees, CustomerOrders, Fails, vars

(* Whatever the day, every variable keeps its type, an inbox that belongs  *)
(* to no open stream is empty, and failures keep to the bounds.            *)
THEOREM TypeCorrect == Spec => []TypeOK
<1>1. Init => RestInv
  <2> SUFFICES ASSUME Init PROVE RestInv
    OBVIOUS
  <2>1. day.changes \in Nat /\ day.faults \in Nat
    BY MockAssumption DEF Init, MockInit
  <2>2. CountsInv
    <3>1. changes = 0 /\ faults = 0
      BY DEF Init, MockInit
    <3>2. changes \in 0..day.changes /\ faults \in 0..day.faults
      BY <2>1, <3>1
    <3>3. demo \in BOOLEAN
      BY DEF Init, MockInit
    <3> QED
      BY <3>2, <3>3 DEF CountsInv
  <2>3. StreamsInv
    BY DEF Init, MockInit, StreamsInv
  <2>4. SeenInv
    BY DEF Init, BoardInit, SeenInv
  <2>5. missed \in BOOLEAN
    BY DEF Init
  <2> QED
    BY <2>2, <2>3, <2>4, <2>5 DEF RestInv
<1>2. Inv /\ RestInv /\ [Next]_vars => RestInv'
  BY StreamsStep, CountsStep, SeenStep, MissedStep DEF Inv, RestInv
<1>3. Inv /\ RestInv /\ CardInv => TypeOK
  <2> SUFFICES ASSUME Inv, RestInv, CardInv PROVE TypeOK
    OBVIOUS
  <2>1. inbox \in [day.tabs -> Seq(Event)]
    <3>1. ASSUME NEW q \in Seq(Numbered) PROVE q \in Seq(Event)
      <4>1. Numbered \subseteq Event
        BY DEF Numbered, Event, Place
      <4>2. q \in [1..Len(q) -> Event] /\ Len(q) \in Nat
        BY <4>1, ElementOfSeq
      <4> QED
        BY <4>2, SeqDef
    <3> QED
      BY <3>1 DEF Inv, KitchenInv
  <2>2. MockTypeOK
    BY <2>1 DEF Inv, KitchenInv, RestInv, StreamsInv, CountsInv, MockTypeOK, Place, Notices
  <2>3. alerts \subseteq Orders /\ timeouts \subseteq Orders \X Nat
    BY DEF Inv, BoardInv, AlertsHaveTimers
  <2>4. BoardTypeOK
    BY <2>3 DEF Inv, BoardInv, RestInv, SeenInv, BoardTypeOK
  <2> QED
    BY <2>2, <2>4 DEF RestInv, CardInv, TypeOK
<1> QED
  BY <1>1, <1>2, <1>3, InvInit, InvStep, CardInit, CardStep, NumberingHolds, PTL DEF Spec, Inv

-----------------------------------------------------------------------------
(* The alerts, one for each entry of an order into the queue.              *)

TrueEvent(e, said) == e.n \in DOMAIN said[e.order] /\ said[e.order][e.n] = Notice(e)

\* What the bus has said was a change each time, and what is on its way was said.
BusInv ==
  /\ \A o \in Orders : \A k \in DOMAIN announced[o] : announced[o][k].prev # announced[o][k].status
  /\ \A t \in day.tabs : \A j \in DOMAIN inbox[t] : TrueEvent(inbox[t][j], announced)

SeenOf(o) == {k \in Nat : <<o, k>> \in seen}

\* The board has been told, or will be.
Heard(o, k) ==
  \/ <<o, k>> \in seen
  \/ \E j \in DOMAIN inbox[Barista] : inbox[Barista][j].order = o /\ inbox[Barista][j].n = k

AlertsInv ==
  /\ \A o \in Orders : SeenOf(o) \subseteq Entries(o) /\ raised[o] = Cardinality(SeenOf(o))
  /\ Barista \in day.tabs /\ ~missed => \A o \in Orders : \A k \in Entries(o) : Heard(o, k)

(* Events are about orders.                                                *)
LEMMA NumberedElements ==
  ASSUME NEW s \in Seq(Numbered), NEW i \in DOMAIN s
  PROVE  s[i] \in Numbered /\ s[i].order \in Orders
<1>1. s[i] \in Numbered
  BY ElementOfSeq
<1> QED
  BY <1>1 DEF Numbered

(* The bus carries events of changes.                                      *)
LEMMA EventsAreNumbered ==
  ASSUME KitchenInv, NEW moves, RealMoves(moves)
  PROVE  Events(moves) \in Seq(Numbered)
<1> DEFINE events == Events(moves)
<1>1. \A k \in DOMAIN moves : events[k] \in Numbered
  <2> SUFFICES ASSUME NEW k \in DOMAIN moves PROVE events[k] \in Numbered
    OBVIOUS
  <2>1. moves[k].order \in Orders /\ moves[k].status \in Status
    BY DEF RealMoves, RealMove, Move
  <2>2. orders[moves[k].order] \in Place /\ Len(announced[moves[k].order]) \in Nat
    BY <2>1 DEF KitchenInv
  <2> QED
    BY <2>1, <2>2 DEF Events, Numbered
<1>2. DOMAIN moves = 1..Len(moves) /\ Len(moves) \in Nat
  BY DEF RealMoves
<1>3. events \in [1..Len(moves) -> Numbered]
  BY <1>1, <1>2 DEF Events
<1> QED
  BY <1>2, <1>3, SeqDef

(* Of each order the bus says one thing in a step, or nothing.             *)
LEMMA OneWordPerOrder ==
  ASSUME KitchenInv, NEW moves, RealMoves(moves), Perform(moves), NEW o \in Orders
  PROVE  \/ /\ announced'[o] = announced[o]
            /\ \A k \in DOMAIN Events(moves) : Events(moves)[k].order # o
         \/ \E j \in DOMAIN Events(moves) :
              /\ Events(moves)[j].order = o /\ Events(moves)[j].n = Len(announced[o]) + 1
              /\ Events(moves)[j].prev # Events(moves)[j].status
              /\ announced'[o] = Append(announced[o], Notice(Events(moves)[j]))
              /\ \A k \in DOMAIN Events(moves) : Events(moves)[k].order = o => k = j
<1> DEFINE events == Events(moves)
           j == TheMove(o, moves)
<1>1. DOMAIN events = DOMAIN moves /\ \A k \in DOMAIN moves :
        /\ events[k].order = moves[k].order /\ events[k].prev = orders[moves[k].order]
        /\ events[k].status = moves[k].status /\ events[k].n = Len(announced[moves[k].order]) + 1
  BY DEF Events
<1>2. CASE About(o, moves) = {}
  BY <1>1, <1>2 DEF About, Perform, Announce
<1>3. CASE About(o, moves) # {}
  <2>1. j \in DOMAIN moves /\ moves[j].order = o
    BY <1>3 DEF About, TheMove
  <2>2. announced'[o] = Append(announced[o], Notice(events[j]))
    BY <1>3 DEF Perform, Announce
  <2>3. \A k \in DOMAIN moves : moves[k].order = o => k = j
    BY <2>1 DEF RealMoves
  <2>4. moves[j].status # orders[o]
    BY <2>1 DEF RealMoves, RealMove
  <2> HIDE DEF j, events
  <2>5. \A k \in DOMAIN events : events[k].order = o => k = j
    BY <1>1, <2>3
  <2>6. /\ j \in DOMAIN events /\ events[j].order = o /\ events[j].n = Len(announced[o]) + 1
        /\ events[j].prev # events[j].status
    BY <1>1, <2>1, <2>4
  <2> QED
    BY <2>2, <2>5, <2>6 DEF events
<1> QED
  BY <1>2, <1>3

(* What goes over the bus is a change, and is said to those who listen.    *)
LEMMA BusStaysTrue ==
  ASSUME KitchenInv, BusInv, NEW moves, RealMoves(moves), Perform(moves), UNCHANGED day
  PROVE  /\ BusInv'
         /\ \A o \in Orders : Entries(o) \subseteq Entries(o)'
<1> DEFINE events == Events(moves)
<1>1. ASSUME NEW o \in Orders
      PROVE  /\ announced[o] \in Seq(Notices)
             /\ \A k \in DOMAIN announced[o] :
                  k \in DOMAIN announced'[o] /\ announced'[o][k] = announced[o][k]
             /\ \A k \in DOMAIN announced'[o] : announced'[o][k].prev # announced'[o][k].status
             /\ \A k \in DOMAIN events : events[k].order = o =>
                  events[k].n \in DOMAIN announced'[o] /\ announced'[o][events[k].n] = Notice(events[k])
  <2>1. announced[o] \in Seq(Notices)
    BY DEF KitchenInv
  <2>2. CASE announced'[o] = announced[o] /\ \A k \in DOMAIN events : events[k].order # o
    BY <2>1, <2>2 DEF BusInv
  <2>3. ASSUME NEW j \in DOMAIN events,
               events[j].order = o, events[j].n = Len(announced[o]) + 1,
               events[j].prev # events[j].status,
               announced'[o] = Append(announced[o], Notice(events[j])),
               \A k \in DOMAIN events : events[k].order = o => k = j
        PROVE  /\ \A k \in DOMAIN announced[o] :
                    k \in DOMAIN announced'[o] /\ announced'[o][k] = announced[o][k]
               /\ \A k \in DOMAIN announced'[o] : announced'[o][k].prev # announced'[o][k].status
               /\ \A k \in DOMAIN events : events[k].order = o =>
                    events[k].n \in DOMAIN announced'[o] /\ announced'[o][events[k].n] = Notice(events[k])
    <3> DEFINE n == Len(announced[o])
               x == Notice(events[j])
    <3>1. x.prev # x.status
      BY <2>3 DEF Notice
    <3> HIDE DEF x
    <3>2. /\ n \in Nat /\ DOMAIN announced[o] = 1..n /\ DOMAIN announced'[o] = 1..n + 1
          /\ announced'[o][n + 1] = x /\ \A k \in 1..n : announced'[o][k] = announced[o][k]
      <4>1. \A s \in Seq(Notices) : \A y :
              /\ Len(s) \in Nat /\ DOMAIN s = 1..Len(s) /\ DOMAIN Append(s, y) = 1..Len(s) + 1
              /\ Append(s, y)[Len(s) + 1] = y /\ \A k \in 1..Len(s) : Append(s, y)[k] = s[k]
        OBVIOUS
      <4> QED
        BY <2>1, <2>3, <4>1 DEF x
    <3>3. \A k \in 1..n : announced[o][k].prev # announced[o][k].status
      BY <3>2 DEF BusInv
    <3>4. \A k \in 1..n + 1 : k \in 1..n \/ k = n + 1
      BY <3>2
    <3> QED
      BY <2>3, <3>1, <3>2, <3>3, <3>4 DEF x
  <2> QED
    BY <2>1, <2>2, <2>3, OneWordPerOrder
<1>2. \A o \in Orders : Entries(o) \subseteq Entries(o)'
  BY <1>1 DEF Entries
<1>3. events \in Seq(Numbered)
  BY EventsAreNumbered
<1>4. ASSUME NEW t \in day.tabs, NEW j \in DOMAIN inbox'[t]
      PROVE  TrueEvent(inbox'[t][j], announced')
  <2>1. inbox[t] \in Seq(Numbered)
    BY DEF KitchenInv
  <2>2. \/ j \in DOMAIN inbox[t] /\ inbox'[t][j] = inbox[t][j]
        \/ \E k \in DOMAIN events : inbox'[t][j] = events[k]
    <3>1. inbox'[t] = inbox[t] \/ inbox'[t] = inbox[t] \o events
      BY DEF Perform, Announce
    <3> HIDE DEF events
    <3>2. CASE inbox'[t] = inbox[t] \o events
      <4>1. \A s \in Seq(Numbered), r \in Seq(Numbered) : \A i \in DOMAIN (s \o r) :
              \/ i \in DOMAIN s /\ (s \o r)[i] = s[i]
              \/ i - Len(s) \in DOMAIN r /\ (s \o r)[i] = r[i - Len(s)]
        OBVIOUS
      <4> QED
        BY <1>3, <2>1, <3>2, <4>1
    <3> QED
      BY <3>1, <3>2
  <2>3. CASE j \in DOMAIN inbox[t] /\ inbox'[t][j] = inbox[t][j]
    <3>1. TrueEvent(inbox[t][j], announced)
      BY <2>3 DEF BusInv
    <3>2. inbox[t][j].order \in Orders
      BY <2>1, <2>3, NumberedElements
    <3> QED
      BY <1>1, <2>3, <3>1, <3>2 DEF TrueEvent
  <2>4. ASSUME NEW k \in DOMAIN events, inbox'[t][j] = events[k]
        PROVE  TrueEvent(inbox'[t][j], announced')
    <3>1. events[k].order \in Orders
      BY <1>3, <2>4, NumberedElements
    <3> QED
      BY <1>1, <2>4, <3>1 DEF TrueEvent
  <2> QED
    BY <2>2, <2>3, <2>4
<1> QED
  BY <1>1, <1>2, <1>4 DEF BusInv
(* The bus has said what is on its way, whatever a step does.              *)
LEMMA BusInvStep ==
  ASSUME KitchenInv, Numbering, BusInv, [Next]_vars
  PROVE  BusInv' /\ \A o \in Orders : Entries(o) \subseteq Entries(o)'
<1>1. CASE UNCHANGED <<day, announced, inbox>>
  BY <1>1 DEF BusInv, Entries
<1>2. CASE UNCHANGED day /\ \E moves : RealMoves(moves) /\ Perform(moves)
  BY <1>2, BusStaysTrue
<1>3. ASSUME NEW t \in day.tabs, UNCHANGED <<day, announced>>,
             inbox' = [inbox EXCEPT ![t] = <<>>] \/ Take(t)
      PROVE  BusInv' /\ \A o \in Orders : Entries(o) \subseteq Entries(o)'
  <2>1. inbox[t] \in Seq(Numbered) /\ inbox \in [day.tabs -> Seq(Numbered)]
    BY DEF KitchenInv
  <2>2. ASSUME NEW u \in day.tabs, NEW j \in DOMAIN inbox'[u]
        PROVE  TrueEvent(inbox'[u][j], announced)
    <3>1. CASE u # t
      BY <1>3, <2>1, <2>2, <3>1 DEF Take, BusInv
    <3>2. CASE u = t /\ inbox' = [inbox EXCEPT ![t] = <<>>]
      BY <2>1, <2>2, <3>2
    <3>3. CASE u = t /\ Take(t)
      <4>1. inbox'[u] = Tail(inbox[t]) /\ inbox[t] # <<>>
        BY <2>1, <3>3 DEF Take
      <4>2. j + 1 \in DOMAIN inbox[t] /\ inbox'[u][j] = inbox[t][j + 1]
        <5>1. \A s \in Seq(Numbered) : s # <<>> =>
                \A i \in DOMAIN Tail(s) : i + 1 \in DOMAIN s /\ Tail(s)[i] = s[i + 1]
          OBVIOUS
        <5> QED
          BY <2>1, <2>2, <4>1, <5>1
      <4> QED
        BY <4>2 DEF BusInv
    <3> QED
      BY <1>3, <3>1, <3>2, <3>3
  <2> QED
    BY <1>3, <2>2 DEF BusInv, Entries
<1>4. CASE Kitchen
  <2>1. CASE Tick
    BY <1>2, <2>1, TickMoves DEF Tick
  <2>2. CASE MockCreateOrder
    BY <1>2, <2>2, CreateMoves DEF MockCreateOrder
  <2>3. ASSUME NEW o \in Orders, NEW s \in Status, MockUpdateOrderStatus(o, s)
        PROVE  BusInv' /\ \A p \in Orders : Entries(p) \subseteq Entries(p)'
    <3>1. CASE Noteworthy(o, s)
      BY <1>2, <2>3, <3>1, UpdateMoves DEF MockUpdateOrderStatus
    <3>2. CASE ~Noteworthy(o, s)
      BY <1>1, <2>3, <3>2 DEF MockUpdateOrderStatus
    <3> QED
      BY <3>1, <3>2
  <2>4. CASE DemoTick \/ Load \/ (\E o \in Orders : MockDeleteOrder(o))
             \/ \E t \in day.tabs : Connect(t) \/ SubscribeToMockOrders(t)
    BY <1>1, <2>4 DEF DemoTick, Load, MockDeleteOrder, Connect, SubscribeToMockOrders
  <2>5. ASSUME NEW t \in day.tabs, Break(t)
        PROVE  BusInv' /\ \A p \in Orders : Entries(p) \subseteq Entries(p)'
    BY <1>3, <2>5 DEF Break
  <2> QED
    BY <1>4, <2>1, <2>2, <2>3, <2>4, <2>5 DEF Kitchen, MockNext, Others
<1>5. CASE Order
  BY <1>2, <1>5, CreateMoves DEF Order, MockCreateOrder
<1>6. CASE BaristaReceives \/ CustomerReceives
  BY <1>3, <1>6 DEF BaristaReceives, CustomerReceives, Take
<1>7. CASE Redelivery \/ AlertGoes \/ CustomerSees \/ CustomerOrders \/ Fails
           \/ (GetOrders /\ UNCHANGED <<mock, board, missed>>) \/ UNCHANGED vars
  BY <1>1, <1>7 DEF Redelivery, AlertGoes, CustomerSees, CustomerOrders, Fails, vars, mock
<1> QED
  BY <1>4, <1>5, <1>6, <1>7 DEF Next

(* An event that is true raises an alert if it is an entry into the queue  *)
(* which the board has not heard of, and otherwise none.                   *)
LEMMA AlertIsRight ==
  ASSUME SeenInv, BusInv, \A o \in Orders : announced[o] \in Seq(Notices),
         \A o \in Orders : SeenOf(o) \subseteq Entries(o) /\ raised[o] = Cardinality(SeenOf(o)),
         NEW e \in Numbered, TrueEvent(e, announced), OnOrderEvent(e)
  PROVE  /\ \A o \in Orders : /\ SeenOf(o)' \subseteq Entries(o)
                             /\ raised'[o] = Cardinality(SeenOf(o)')
         /\ seen \subseteq seen'
         /\ e.n \in Entries(e.order) => <<e.order, e.n>> \in seen'
<1>1. e.order \in Orders /\ e.n \in Nat
  BY DEF Numbered
<1>2. e.n \in DOMAIN announced[e.order] /\ announced[e.order][e.n].status = e.status
      /\ announced[e.order][e.n].prev = e.prev
  BY DEF TrueEvent, Notice
<1>3. e.n \in Entries(e.order) <=> IsNewQueuedOrder(e)
  BY <1>1, <1>2 DEF Entries, IsNewQueuedOrder, BusInv
<1>4. CASE IsNewQueuedOrder(e) /\ Unseen(e)
  <2>1. seen' = seen \cup {<<e.order, e.n>>} /\ raised' = [raised EXCEPT ![e.order] = @ + 1]
    BY <1>4 DEF OnOrderEvent, Key
  <2>2. SeenOf(e.order)' = SeenOf(e.order) \cup {e.n} /\ e.n \notin SeenOf(e.order)
    BY <1>1, <1>4, <2>1 DEF SeenOf, Unseen, Key
  <2>3. \A o \in Orders : o # e.order => SeenOf(o)' = SeenOf(o)
    BY <2>1 DEF SeenOf
  <2>4. IsFiniteSet(SeenOf(e.order))
    <3>1. IsFiniteSet(1..Len(announced[e.order])) /\ Len(announced[e.order]) \in Nat
      <4>1. Len(announced[e.order]) \in Nat /\ 1 \in Int
        BY <1>1
      <4> QED
        BY <4>1, FS_Interval
    <3>2. SeenOf(e.order) \subseteq 1..Len(announced[e.order])
      BY <1>1 DEF Entries
    <3> QED
      BY <3>1, <3>2, FS_Subset
  <2>5. Cardinality(SeenOf(e.order) \cup {e.n}) = Cardinality(SeenOf(e.order)) + 1
    BY <2>2, <2>4, FS_AddElement
  <2>6. raised'[e.order] = Cardinality(SeenOf(e.order)')
    BY <1>1, <2>1, <2>2, <2>5 DEF SeenInv
  <2>7. \A o \in Orders : o # e.order => raised'[o] = raised[o]
    BY <1>1, <2>1 DEF SeenInv
  <2>8. e.n \in Entries(e.order)
    BY <1>3, <1>4
  <2> QED
    BY <2>1, <2>2, <2>3, <2>6, <2>7, <2>8
<1>5. CASE ~(IsNewQueuedOrder(e) /\ Unseen(e))
  <2>1. UNCHANGED <<seen, raised>>
    BY <1>5 DEF OnOrderEvent, board
  <2>2. \A o : SeenOf(o)' = SeenOf(o)
    BY <2>1 DEF SeenOf
  <2>3. e.n \in Entries(e.order) => <<e.order, e.n>> \in seen
    BY <1>3, <1>5 DEF Unseen, Key
  <2> QED
    BY <2>1, <2>2, <2>3
<1> QED
  BY <1>4, <1>5

(* What the board has seen are entries, and each has raised an alert.      *)
LEMMA SeenIsRight ==
  ASSUME KitchenInv, Numbering, BusInv, SeenInv, AlertsInv, [Next]_vars, NEW o \in Orders
  PROVE  (SeenOf(o) \subseteq Entries(o))' /\ (raised[o] = Cardinality(SeenOf(o)))'
<1>1. \A p \in Orders : Entries(p) \subseteq Entries(p)' /\ announced[p] \in Seq(Notices)
  BY BusInvStep DEF KitchenInv
<1>2. CASE UNCHANGED <<seen, raised>>
  <2>1. SeenOf(o)' = SeenOf(o)
    BY <1>2 DEF SeenOf
  <2> QED
    BY <1>1, <1>2, <2>1 DEF AlertsInv
<1>3. CASE BaristaReceives \/ Redelivery
  <2> DEFINE e == Head(inbox[Barista])
  <2>1. inbox[Barista] \in Seq(Numbered) /\ inbox[Barista] # <<>> /\ Barista \in day.tabs
    BY <1>3 DEF BaristaReceives, Redelivery, Take, KitchenInv
  <2>2. 1 \in DOMAIN inbox[Barista] /\ e = inbox[Barista][1]
    BY <2>1
  <2>3. e \in Numbered /\ TrueEvent(e, announced) /\ OnOrderEvent(e)
    BY <1>3, <2>1, <2>2, NumberedElements DEF BusInv, BaristaReceives, Redelivery
  <2>4. \A p \in Orders : SeenOf(p)' \subseteq Entries(p) /\ raised'[p] = Cardinality(SeenOf(p)')
    BY <1>1, <2>3, AlertIsRight DEF AlertsInv
  <2> QED
    BY <1>1, <2>4
<1>4. CASE ~BaristaReceives /\ ~Redelivery
  <2>1. UNCHANGED <<seen, raised>>
    BY <1>4 DEF Next, Kitchen, AlertGoes, DismissAlert, TimesOut, CustomerReceives, Order,
       CustomerSees, CustomerOrders, Fails, vars, board
  <2> QED
    BY <1>2, <2>1
<1> QED
  BY <1>3, <1>4

(* What is on its way to the barista stays so while nobody takes it.       *)
LEMMA StillHeard ==
  ASSUME seen \subseteq seen', inbox'[Barista] = inbox[Barista], NEW o, NEW k, Heard(o, k)
  PROVE  Heard(o, k)'
BY DEF Heard

(* An open stream gets what goes over the bus.                             *)
LEMMA BusIsHeard ==
  ASSUME KitchenInv, NEW moves, RealMoves(moves), Perform(moves), UNCHANGED <<day, stream, seen>>,
         Barista \in day.tabs, announced' = announced \/ stream[Barista] = "open",
         \A o \in Orders : \A k \in Entries(o) : Heard(o, k),
         NEW o \in Orders, NEW k \in Entries(o)'
  PROVE  Heard(o, k)'
<1> DEFINE events == Events(moves)
           q == inbox[Barista]
<1>1. q \in Seq(Numbered)
  BY DEF KitchenInv
<1>2. CASE stream[Barista] # "open"
  <2>1. inbox'[Barista] = q /\ k \in Entries(o)
    BY <1>2 DEF Perform, Announce, Entries
  <2> QED
    BY <2>1, StillHeard
<1>3. CASE stream[Barista] = "open"
  <2>1. inbox'[Barista] = q \o events
    BY <1>3 DEF Perform, Announce
  <2>2. events \in Seq(Numbered)
    BY EventsAreNumbered
  <2>3. \A a, b \in Seq(Numbered) :
          /\ \A i \in DOMAIN a : i \in DOMAIN (a \o b) /\ (a \o b)[i] = a[i]
          /\ \A i \in DOMAIN b : Len(a) + i \in DOMAIN (a \o b) /\ (a \o b)[Len(a) + i] = b[i]
    OBVIOUS
  <2> HIDE DEF events, q
  <2>4. /\ \A i \in DOMAIN q : i \in DOMAIN inbox'[Barista] /\ inbox'[Barista][i] = q[i]
        /\ \A i \in DOMAIN events : /\ Len(q) + i \in DOMAIN inbox'[Barista]
                                    /\ inbox'[Barista][Len(q) + i] = events[i]
    BY <1>1, <2>1, <2>2, <2>3
  <2>5. CASE k \in Entries(o)
    <3>1. Heard(o, k)
      BY <2>5
    <3>2. CASE <<o, k>> \in seen
      BY <3>2 DEF Heard, q
    <3>3. CASE \E j \in DOMAIN q : q[j].order = o /\ q[j].n = k
      BY <2>4, <3>3 DEF Heard
    <3> QED
      BY <3>1, <3>2, <3>3 DEF Heard, q
  <2>6. CASE k \notin Entries(o)
    <3>1. PICK j \in DOMAIN events :
            /\ events[j].order = o /\ events[j].n = Len(announced[o]) + 1
            /\ announced'[o] = Append(announced[o], Notice(events[j]))
      <4>1. announced'[o] # announced[o]
        BY <2>6 DEF Entries
      <4> QED
        BY <4>1, OneWordPerOrder DEF events
    <3>2. k = Len(announced[o]) + 1
      <4>1. announced[o] \in Seq(Notices)
        BY DEF KitchenInv
      <4>2. \A s \in Seq(Notices) : \A y :
              /\ Len(s) \in Nat /\ DOMAIN s = 1..Len(s) /\ DOMAIN Append(s, y) = 1..Len(s) + 1
              /\ \A i \in 1..Len(s) : Append(s, y)[i] = s[i]
        OBVIOUS
      <4>3. \A i \in DOMAIN announced'[o] :
              \/ i = Len(announced[o]) + 1
              \/ i \in DOMAIN announced[o] /\ announced'[o][i] = announced[o][i]
        BY <3>1, <4>1, <4>2
      <4> QED
        BY <2>6, <4>3 DEF Entries
    <3>3. Len(q) + j \in DOMAIN inbox'[Barista] /\ inbox'[Barista][Len(q) + j] = events[j]
      BY <2>4
    <3> QED
      BY <3>1, <3>2, <3>3 DEF Heard
  <2> QED
    BY <2>5, <2>6
<1> QED
  BY <1>2, <1>3
(* The barista has heard of each entry, or will, or misses something.      *)
LEMMA AllAreHeard ==
  ASSUME KitchenInv, Numbering, StreamsInv, BusInv, SeenInv, AlertsInv, [Next]_vars,
         Barista \in day.tabs, ~missed',
         NEW o \in Orders, NEW k \in Entries(o)'
  PROVE  Heard(o, k)'
<1>1. ASSUME ~missed
      PROVE  \A p \in Orders : \A i \in Entries(p) : Heard(p, i)
  BY <1>1 DEF AlertsInv
<1>2. ASSUME UNCHANGED announced, ~missed, seen \subseteq seen', inbox'[Barista] = inbox[Barista]
      PROVE  Heard(o, k)'
  BY <1>1, <1>2, StillHeard DEF Entries
<1>3. ASSUME NEW moves, RealMoves(moves), Perform(moves), UNCHANGED <<day, stream, seen>>, Missed
      PROVE  Heard(o, k)'
  <2>1. ~missed /\ (announced' = announced \/ stream[Barista] = "open")
    BY <1>3, Zenon DEF Missed, MissesOne
  <2> QED
    BY <1>1, <1>3, <2>1, BusIsHeard
<1>4. CASE Kitchen
  <2>1. Missed /\ ~missed /\ seen' = seen
    BY <1>4, Zenon DEF Kitchen, Missed, board
  <2>2. CASE Tick
    BY <1>3, <2>1, <2>2, TickMoves DEF Tick
  <2>3. CASE MockCreateOrder
    BY <1>3, <2>1, <2>3, CreateMoves DEF MockCreateOrder
  <2>4. ASSUME NEW p \in Orders, NEW s \in Status, MockUpdateOrderStatus(p, s)
        PROVE  Heard(o, k)'
    <3>1. CASE Noteworthy(p, s)
      BY <1>3, <2>1, <2>4, <3>1, UpdateMoves DEF MockUpdateOrderStatus
    <3>2. CASE ~Noteworthy(p, s)
      BY <1>2, <2>1, <2>4, <3>2 DEF MockUpdateOrderStatus
    <3> QED
      BY <3>1, <3>2
  <2>5. CASE DemoTick \/ Load \/ (\E p \in Orders : MockDeleteOrder(p))
             \/ \E t \in day.tabs : Connect(t) \/ SubscribeToMockOrders(t)
    BY <1>2, <2>1, <2>5 DEF DemoTick, Load, MockDeleteOrder, Connect, SubscribeToMockOrders
  <2>6. ASSUME NEW t \in day.tabs, Break(t)
        PROVE  Heard(o, k)'
    <3>1. /\ UNCHANGED announced /\ inbox' = [inbox EXCEPT ![t] = <<>>]
          /\ stream' = [stream EXCEPT ![t] = "none"]
      BY <2>6 DEF Break
    <3>2. ~MissesOne(Barista)
      BY <2>1 DEF Missed
    <3>3. inbox'[Barista] = inbox[Barista]
      <4>1. CASE t # Barista
        BY <3>1, <4>1 DEF KitchenInv
      <4>2. CASE t = Barista
        BY <3>1, <3>2, <4>2 DEF KitchenInv, StreamsInv, MissesOne
      <4> QED
        BY <4>1, <4>2
    <3> QED
      BY <1>2, <2>1, <3>1, <3>3
  <2> QED
    BY <1>4, <2>2, <2>3, <2>4, <2>5, <2>6 DEF Kitchen, MockNext, Others
<1>5. CASE Order
  <2>1. MockCreateOrder /\ Missed /\ UNCHANGED <<day, stream, seen>>
    BY <1>5 DEF Order, MockCreateOrder, board
  <2> QED
    BY <1>3, <2>1, CreateMoves
<1>6. CASE BaristaReceives \/ Redelivery
  <2> DEFINE q == inbox[Barista]
             e == Head(q)
  <2>1. q \in Seq(Numbered) /\ q # <<>>
    BY <1>6 DEF BaristaReceives, Redelivery, Take, KitchenInv
  <2>2. 1 \in DOMAIN q /\ e = q[1]
    BY <2>1
  <2>3. e \in Numbered /\ TrueEvent(e, announced) /\ OnOrderEvent(e)
    BY <1>6, <2>1, <2>2, NumberedElements DEF BusInv, BaristaReceives, Redelivery
  <2>4. seen \subseteq seen' /\ (e.n \in Entries(e.order) => <<e.order, e.n>> \in seen')
    BY <2>3, AlertIsRight DEF AlertsInv, KitchenInv
  <2>5. UNCHANGED <<announced, missed>>
    BY <1>6 DEF BaristaReceives, Redelivery, Take
  <2>6. k \in Entries(o) /\ Heard(o, k)
    BY <1>1, <2>5 DEF Entries
  <2>7. CASE Redelivery
    BY <1>2, <2>4, <2>5, <2>7 DEF Redelivery
  <2>8. CASE BaristaReceives
    <3>1. inbox'[Barista] = Tail(q)
      BY <2>8 DEF BaristaReceives, Take, KitchenInv
    <3>2. CASE <<o, k>> \in seen
      BY <2>4, <3>2 DEF Heard
    <3>3. ASSUME NEW j \in DOMAIN q, q[j].order = o, q[j].n = k
          PROVE  Heard(o, k)'
      <4>1. CASE j = 1
        BY <2>2, <2>4, <2>6, <3>3, <4>1 DEF Heard
      <4>2. CASE j # 1
        <5>1. j - 1 \in DOMAIN Tail(q) /\ Tail(q)[j - 1] = q[j]
          <6>1. \A s \in Seq(Numbered) : s # <<>> =>
                  \A i \in DOMAIN s : i # 1 => i - 1 \in DOMAIN Tail(s) /\ Tail(s)[i - 1] = s[i]
            OBVIOUS
          <6> HIDE DEF q
          <6> QED
            BY <2>1, <3>3, <4>2, <6>1
        <5> QED
          BY <3>1, <3>3, <5>1 DEF Heard
      <4> QED
        BY <4>1, <4>2
    <3> QED
      BY <2>6, <3>2, <3>3 DEF Heard
  <2> QED
    BY <1>6, <2>7, <2>8
<1>7. CASE CustomerReceives
  <2>1. inbox'[Barista] = inbox[Barista] /\ UNCHANGED <<announced, missed, seen>>
    BY <1>7, CafeAssumption DEF CustomerReceives, Take, KitchenInv, board
  <2> QED
    BY <1>2, <2>1
<1>8. CASE AlertGoes \/ CustomerSees \/ CustomerOrders \/ Fails
           \/ (GetOrders /\ UNCHANGED <<mock, board, missed>>) \/ UNCHANGED vars
  <2>1. UNCHANGED <<announced, missed, seen, inbox>>
    BY <1>8 DEF AlertGoes, DismissAlert, TimesOut, CustomerSees, CustomerOrders, Fails, vars, mock, board
  <2> QED
    BY <1>2, <2>1
<1> QED
  BY <1>4, <1>5, <1>6, <1>7, <1>8 DEF Next

(* The tabs of a day are those it began with.                              *)
LEMMA SameDay ==
  ASSUME [Next]_vars
  PROVE  day' = day
BY DEF Next, Kitchen, MockNext, Tick, Others, MockCreateOrder, DemoTick, MockDeleteOrder,
   MockUpdateOrderStatus, Load, Connect, SubscribeToMockOrders, Break, BaristaReceives,
   Redelivery, AlertGoes, CustomerReceives, Order, CustomerSees, CustomerOrders, Fails, Take,
   vars, mock

(* One step of the barista's alerts.                                       *)
LEMMA AlertsStep ==
  ASSUME KitchenInv, Numbering, StreamsInv, BusInv, SeenInv, AlertsInv, [Next]_vars
  PROVE  AlertsInv'
<1>1. \A o \in Orders : (SeenOf(o) \subseteq Entries(o))' /\ (raised[o] = Cardinality(SeenOf(o)))'
  BY SeenIsRight
<1>2. Barista \in day.tabs /\ ~missed' => \A o \in Orders : \A k \in Entries(o)' : Heard(o, k)'
  BY AllAreHeard
<1> QED
  BY <1>1, <1>2, SameDay DEF AlertsInv

(* The barista is alerted once for each time an order comes into the       *)
(* queue, however events of several orders are interleaved and delivered   *)
(* again, and never for anything else (BaristaBoard:27-28, lib/orders:31). *)
THEOREM AlertedOnce == Spec => []AlertedOncePerEntry
<1> DEFINE I == StreamsInv /\ SeenInv /\ BusInv /\ AlertsInv
<1>1. Init => I
  <2> SUFFICES ASSUME Init PROVE I
    OBVIOUS
  <2>1. /\ seen = {} /\ raised = [o \in Orders |-> 0] /\ announced = [o \in Orders |-> <<>>]
        /\ inbox = [t \in day.tabs |-> <<>>]
    BY DEF Init, BoardInit, MockInit
  <2>2. \A o \in Orders : SeenOf(o) = {} /\ Entries(o) = {}
    <3>1. DOMAIN <<>> = {}
      OBVIOUS
    <3> QED
      BY <2>1, <3>1 DEF SeenOf, Entries
  <2>3. Cardinality({}) = 0
    BY FS_EmptySet
  <2>4. StreamsInv
    BY DEF Init, MockInit, StreamsInv
  <2>5. SeenInv
    BY <2>1 DEF SeenInv
  <2>6. BusInv
    BY <2>1 DEF BusInv
  <2>7. AlertsInv
    BY <2>1, <2>2, <2>3 DEF AlertsInv
  <2> QED
    BY <2>4, <2>5, <2>6, <2>7
<1>2. Inv /\ Numbering /\ I /\ [Next]_vars => I'
  BY StreamsStep, SeenStep, BusInvStep, AlertsStep DEF Inv
<1>3. Inv /\ I => AlertedOncePerEntry
  <2> SUFFICES ASSUME Inv, I, NEW o \in Orders
               PROVE  /\ raised[o] <= Cardinality(Entries(o))
                      /\ Barista \in day.tabs /\ ~missed /\ inbox[Barista] = <<>> =>
                           raised[o] = Cardinality(Entries(o))
    BY DEF AlertedOncePerEntry
  <2>1. IsFiniteSet(Entries(o))
    <3>1. Len(announced[o]) \in Nat /\ Entries(o) \subseteq 1..Len(announced[o])
      BY DEF Inv, KitchenInv, Entries
    <3>2. IsFiniteSet(1..Len(announced[o]))
      BY <3>1, FS_Interval
    <3> QED
      BY <3>1, <3>2, FS_Subset
  <2>2. SeenOf(o) \subseteq Entries(o) /\ raised[o] = Cardinality(SeenOf(o))
    BY DEF AlertsInv
  <2>3. raised[o] <= Cardinality(Entries(o))
    BY <2>1, <2>2, FS_Subset
  <2>4. ASSUME Barista \in day.tabs, ~missed, inbox[Barista] = <<>>
        PROVE  Entries(o) \subseteq SeenOf(o)
    <3>1. \A k \in Entries(o) : <<o, k>> \in seen
      BY <2>4 DEF AlertsInv, Heard
    <3>2. Entries(o) \subseteq Nat
      BY DEF Inv, KitchenInv, Entries
    <3> QED
      BY <3>1, <3>2 DEF SeenOf
  <2>5. Entries(o) \subseteq SeenOf(o) => raised[o] = Cardinality(Entries(o))
    <3>1. Entries(o) \subseteq SeenOf(o) => Entries(o) = SeenOf(o)
      BY <2>2
    <3> QED
      BY <2>2, <3>1
  <2> QED
    BY <2>3, <2>4, <2>5
<1> HIDE DEF I
<1> QED
  BY <1>1, <1>2, <1>3, NumberingHolds, PTL DEF Spec
=============================================================================
