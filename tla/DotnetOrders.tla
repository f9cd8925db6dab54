---------------------------- MODULE DotnetOrders ----------------------------
(***************************************************************************)
(* The order store of the .NET solution and everything that writes to it:  *)
(* InMemoryOrderRepository, the handlers of OrdersController, which        *)
(* Kestrel runs in parallel, and the AutoBarista, a background service.    *)
(*                                                                         *)
(* A status update is not one step.  SetStatus reads the immutable Order   *)
(* record, asks the clock, stores a copy, and its caller then decides from *)
(* the record it READ whether to announce.  Each of these is an action.    *)
(***************************************************************************)
EXTENDS OrderContract, Sequences, FiniteSets

CONSTANTS
  Requests,   \* the requests clients send, each of them once
  Barista,    \* the AutoBarista's thread
  Seed,       \* the orders of Seed.Orders(now), as a function to Version
  Start,      \* the time at which the repository is constructed
  MaxTime     \* the clock stops here; bounds the model

Workers == Requests \cup {Barista}

ASSUME DotnetAssumption ==
  /\ Barista \notin Requests
  /\ DOMAIN Seed \subseteq Orders
  /\ Start \in Nat /\ MaxTime \in Nat
  /\ \A o \in DOMAIN Seed : /\ Seed[o] \in Version
                             /\ Seed[o].createdAt <= Seed[o].updatedAt
                             /\ Seed[o].updatedAt <= Start

VARIABLES
  store,       \* _orders
  clock,       \* DateTimeOffset.UtcNow, in the milliseconds Now() rounds to
  announced,   \* per order: the calls of OrderCreated and OrderStatusChanged
  pc,          \* where each worker is
  order, want, \* the order a worker works on and the status it will store
  existing,    \* what TryGetValue gave it; Absent while creating
  stamp,       \* what Now() gave it
  history,     \* ghost: every version ever stored of an order, with the
               \*        position of the version it was computed from
  base, slot,  \* ghost: position a worker read from, position it stored at
  picked       \* ghost: position of the version the barista chose

local == <<order, want, existing, stamp, base, slot, picked>>
vars  == <<store, clock, announced, pc, history, local>>

Announcement == [prev : Status \cup {Absent}, data : Version, of : Nat, by : Workers]
Entry        == [ver : Version, base : Nat]

TypeOK ==
  /\ store \in [Orders -> Version \cup {Absent}]
  /\ clock \in Nat
  /\ announced \in [Orders -> Seq(Announcement)]
  /\ pc \in [Workers -> {"idle", "second", "picked", "read", "stamped", "wrote", "done"}]
  /\ order \in [Workers -> Orders \cup {Absent}]
  /\ want \in [Workers -> Status]
  /\ existing \in [Workers -> Version \cup {Absent}]
  /\ stamp \in [Workers -> Nat]
  /\ history \in [Orders -> Seq(Entry)]
  /\ base \in [Workers -> Nat]
  /\ slot \in [Workers -> Nat]
  /\ picked \in Nat

Init ==
  /\ store = [o \in Orders |-> IF o \in DOMAIN Seed THEN Seed[o] ELSE Absent]
  /\ clock = Start
  /\ announced = [o \in Orders |-> <<>>]
  /\ pc = [w \in Workers |-> "idle"]
  /\ order = [w \in Workers |-> Absent]
  /\ want = [w \in Workers |-> "PENDING"]
  /\ existing = [w \in Workers |-> Absent]
  /\ stamp = [w \in Workers |-> 0]
  /\ history = [o \in Orders |->
                 IF o \in DOMAIN Seed THEN <<[ver |-> Seed[o], base |-> 0]>> ELSE <<>>]
  /\ base = [w \in Workers |-> 0]
  /\ slot = [w \in Workers |-> 0]
  /\ picked = 0

Goto(w, place) == pc' = [pc EXCEPT ![w] = place]

-----------------------------------------------------------------------------
(* SetStatus: the three accesses it makes, for whoever called it.          *)

\* TryGetValue.
Lookup(w, o, s) ==
  /\ order' = [order EXCEPT ![w] = o]
  /\ want' = [want EXCEPT ![w] = s]
  /\ existing' = [existing EXCEPT ![w] = store[o]]
  /\ base' = [base EXCEPT ![w] = Len(history[o])]
  /\ Goto(w, "read")
  /\ UNCHANGED <<store, clock, announced, history, stamp, slot, picked>>

\* Now(), in SetStatus and in Create.
Stamp(w) ==
  /\ pc[w] = "read"
  /\ stamp' = [stamp EXCEPT ![w] = clock]
  /\ Goto(w, "stamped")
  /\ UNCHANGED <<store, clock, announced, history, order, want, existing, base, slot, picked>>

\* Faulty: the status of a new order is left unset.
ComputedUnset(w) ==
  IF existing[w] = Absent
  THEN [status |-> Absent, createdAt |-> stamp[w], updatedAt |-> stamp[w]]
  ELSE [existing[w] EXCEPT !.status = want[w], !.updatedAt = stamp[w]]

\* The record a worker stores: a new order, or a copy with two fields changed.
Computed(w) ==
  IF existing[w] = Absent
  THEN [status |-> "PENDING", createdAt |-> stamp[w], updatedAt |-> stamp[w]]
  ELSE [existing[w] EXCEPT !.status = want[w], !.updatedAt = stamp[w]]

\* _orders[orderId] = updated.
Write(w) ==
  /\ pc[w] = "stamped"
  /\ store' = [store EXCEPT ![order[w]] = Computed(w)]
  /\ history' = [history EXCEPT ![order[w]] =
                   Append(@, [ver |-> Computed(w), base |-> base[w]])]
  /\ slot' = [slot EXCEPT ![w] = Len(history[order[w]]) + 1]
  /\ Goto(w, "wrote")
  /\ UNCHANGED <<clock, announced, order, want, existing, stamp, base, picked>>

-----------------------------------------------------------------------------
(* The callers: ApplyStatus, CreateOrder and Advance.                      *)

\* Faulty: the previous status is read when the update has been made.
PreviousStatusTooLate(w) == IF store[order[w]] = Absent THEN Absent ELSE store[order[w]].status

PreviousStatus(w) == IF existing[w] = Absent THEN Absent ELSE existing[w].status

\* Faulty variants of Noteworthy: no comparison, and one with the store.
NoteworthyAlways(w) == TRUE
NoteworthyByStore(w) == w = Barista \/ store[order[w]].status # Computed(w).status

\* ApplyStatus announces when the status differs from the one that was read;
\* CreateOrder and the barista always announce.
Noteworthy(w) == w = Barista \/ PreviousStatus(w) # Computed(w).status

Announce(w) ==
  /\ pc[w] = "wrote"
  /\ announced' = [announced EXCEPT ![order[w]] =
       IF Noteworthy(w)
       THEN Append(@, [prev |-> PreviousStatus(w), data |-> Computed(w),
                       of |-> slot[w], by |-> w])
       ELSE @]
  /\ Goto(w, IF w # Barista THEN "done"
             ELSE IF want[w] = "READY" THEN "second" ELSE "idle")
  /\ UNCHANGED <<store, clock, history, local>>

\* PATCH /orders/{id} and POST /orders/{id}/status reach TryGetValue.
Patch(w, o, s) ==
  /\ pc[w] = "idle"
  /\ store[o] # Absent
  /\ Lookup(w, o, s)

\* A request that changes nothing: 404 for an unknown order or coffee.
NotFound(w) ==
  /\ pc[w] = "idle"
  /\ Goto(w, "done")
  /\ UNCHANGED <<store, clock, announced, history, local>>

\* POST /orders: Guid.NewGuid() gives an identifier nobody else has.
Create(w, o) ==
  /\ pc[w] = "idle"
  /\ store[o] = Absent
  /\ \A v \in Workers : order[v] # o
  /\ Lookup(w, o, "PENDING")

Oldest(s) ==
  LET with == {o \in Orders : store[o] # Absent /\ store[o].status = s}
  IN  {o \in with : \A p \in with : store[o].createdAt <= store[p].createdAt}

\* Advance(from, to) as far as OldestWithStatus; with nothing to move it returns.
Pick(at, from, to, next) ==
  /\ pc[Barista] = at
  /\ \/ \E o \in Oldest(from) :
          /\ order' = [order EXCEPT ![Barista] = o]
          /\ want' = [want EXCEPT ![Barista] = to]
          /\ picked' = Len(history[o])
          /\ Goto(Barista, "picked")
          /\ UNCHANGED <<existing, stamp, base, slot>>
     \/ /\ Oldest(from) = {}
        /\ Goto(Barista, next)
        /\ UNCHANGED local
  /\ UNCHANGED <<store, clock, announced, history>>

\* Faulty variants of Tick: an order skips BREWING, and the second Advance is
\* a copy of the first.
TickSkips == \/ Pick("idle", "PENDING", "READY", "second")
             \/ Pick("second", "PENDING", "BREWING", "idle")
TickCopied == \/ Pick("idle", "BREWING", "READY", "second")
              \/ Pick("second", "BREWING", "READY", "idle")

\* A tick: Advance(Brewing, Ready), then Advance(Pending, Brewing).
Tick == \/ Pick("idle", "BREWING", "READY", "second")
        \/ Pick("second", "PENDING", "BREWING", "idle")

\* The barista's call of SetStatus looks the order up again.
BaristaLookup ==
  /\ pc[Barista] = "picked"
  /\ Lookup(Barista, order[Barista], want[Barista])

Arrive(w) ==
  \/ NotFound(w)
  \/ \E o \in Orders : Create(w, o) \/ \E s \in Status : Patch(w, o, s)

Work(w) == Stamp(w) \/ Write(w) \/ Announce(w)

TimePasses ==
  /\ clock < MaxTime
  /\ clock' = clock + 1
  /\ UNCHANGED <<store, announced, pc, history, local>>

Next == \/ \E w \in Requests : Arrive(w)
        \/ \E w \in Workers : Work(w)
        \/ Tick
        \/ BaristaLookup
        \/ TimePasses

Spec == Init /\ [][Next]_vars

\* Threads are scheduled and the timer keeps ticking; clients owe nothing.
FairSpec == Spec /\ WF_vars(Tick) /\ WF_vars(BaristaLookup) /\ \A w \in Workers : WF_vars(Work(w))
-----------------------------------------------------------------------------
(* Two updates of one order overlap when the later write was computed from *)
(* a version that the store had already replaced.                          *)
Overtaken(o, i) == history[o][i].base # i - 1

StatusAt(o, i) == history[o][i].ver.status

\* The announcement of version i is out, or its writer is about to announce.
AnnouncedOrOwed(o, i) ==
  \/ \E k \in 1..Len(announced[o]) : announced[o][k].of = i
  \/ \E w \in Workers : pc[w] = "wrote" /\ order[w] = o /\ slot[w] = i

(* An event carries an order exactly as it was once stored, never a mix of *)
(* two updates, and as previousStatus the status it was computed from      *)
(* (immutable record: `existing with {...}`, InMemoryOrderRepository:71).  *)
AnnouncementsAreStoredVersions ==
  \A o \in Orders : \A k \in 1..Len(announced[o]) :
    LET a == announced[o][k] IN
    /\ a.of \in 1..Len(history[o])
    /\ a.data = history[o][a.of].ver
    /\ a.prev = IF history[o][a.of].base = 0 THEN Absent
                ELSE StatusAt(o, history[o][a.of].base)

(* No write is announced twice.                                            *)
AnnouncedOnce ==
  \A o \in Orders : \A k, l \in 1..Len(announced[o]) :
    announced[o][k].of = announced[o][l].of => k = l

(* The clients are told of every change of status: only the write of an    *)
(* update that was overtaken can alter an order in silence                 *)
(* (OrdersController.ApplyStatus compares with the status it read).        *)
ChangesAnnouncedUnlessOvertaken ==
  \A o \in Orders : \A i \in 2..Len(history[o]) :
    ~Overtaken(o, i) /\ StatusAt(o, i - 1) # StatusAt(o, i) => AnnouncedOrOwed(o, i)

(* A request makes noise, an event for a status the order already had,     *)
(* only when its update was overtaken (OrdersController:132-136).          *)
NoiseOnlyWhenOvertaken ==
  \A o \in Orders : \A k \in 1..Len(announced[o]) :
    LET i == announced[o][k].of IN
    announced[o][k].by \in Requests /\ i \in 2..Len(history[o]) /\ ~Overtaken(o, i)
      => StatusAt(o, i - 1) # StatusAt(o, i)

(* The barista takes an order one step forward, unless somebody wrote to   *)
(* it between OldestWithStatus and the lookup of SetStatus.                *)
BaristaAtWork == pc[Barista] \in {"read", "stamped", "wrote"}
ForwardTo     == [READY |-> "BREWING", BREWING |-> "PENDING"]

BaristaMovesForwardUnlessPatched ==
  BaristaAtWork /\ base[Barista] = picked =>
    /\ want[Barista] \in DOMAIN ForwardTo
    /\ existing[Barista].status = ForwardTo[want[Barista]]

(* Once the clients leave it alone, the barista finishes every order,      *)
(* whatever overlapped before.                                             *)
EveryOrderGetsReady ==
  \A o \in Orders : store[o] # Absent ~> store[o] # Absent /\ store[o].status = "READY"

-----------------------------------------------------------------------------
(* OrdersController.cs:132: published only when something really changed;  *)
(* otherwise a frontend setting one status twice makes noise.              *)
NoNoise ==
  \A o \in Orders : \A k \in 2..Len(announced[o]) :
    announced[o][k].data.status # announced[o][k-1].data.status

-----------------------------------------------------------------------------
(* Left to itself, an update is atomic.                                    *)
Busy(w) == pc[w] \in {"picked", "read", "stamped", "wrote"}

\* An update is about to replace a version it did not read, or has been
\* replaced before it was announced; or the barista found another version
\* than the one that made him choose the order.
Disturbed(w) ==
  LET newest == Len(history[order[w]]) IN
  \/ pc[w] = "stamped" /\ base[w] # newest
  \/ pc[w] = "wrote" /\ slot[w] # newest
  \/ pc[w] = "wrote" /\ w = Barista /\ base[w] # picked

StatusOf(o) == IF store[o] = Absent THEN Absent ELSE store[o].status

\* The writers that have stored a change and have yet to announce it, in the
\* order in which they stored it.
Late(o) == {w \in Workers : pc[w] = "wrote" /\ order[w] = o /\ PreviousStatus(w) # Computed(w).status}

InOrder(writers, places) ==
  [k \in 1..Cardinality(writers) |->
     CHOOSE w \in writers : Cardinality({v \in writers : places[v] < places[w]}) = k - 1]

Owed(w) == [prev |-> PreviousStatus(w), status |-> Computed(w).status]

\* What the clients have been told of an order, and what they will be told.
Told(o) == [k \in 1..Len(announced[o]) |->
              [prev |-> announced[o][k].prev, status |-> announced[o][k].data.status]]

Owing(o) == LET writers == InOrder(Late(o), slot)
            IN  [k \in DOMAIN writers |-> Owed(writers[k])]

Promise(o) == INSTANCE AtomicOrders
              WITH Orders <- {o}, orders <- [p \in {o} |-> StatusOf(p)],
                   announced <- [p \in {o} |-> Told(p) \o Owing(p)]

(* Of each order the store does what the abstract store would do, a change *)
(* and its announcement in one step, except in the steps that are taken    *)
(* while a write disturbs an update of that order; and what the disturbed  *)
(* updates leave behind, the next ones are atomic on.                      *)
ImplementsAtomicOrders ==
  /\ \A o \in Orders : Promise(o)!Init
  /\ [][\A o \in Orders :
          \/ Promise(o)!Next \/ UNCHANGED Promise(o)!vars
          \/ \E w \in Workers : order[w] = o /\ Disturbed(w)]_vars
=============================================================================
