------------------------- MODULE JavaOrders_proofs -------------------------
(***************************************************************************)
(* Proofs about JavaOrders, for any number of orders and of requests.      *)
(***************************************************************************)
EXTENDS JavaOrders, FiniteSetTheorems, SequenceTheorems, TLAPS

Write   == [status : Status, base : Nat]
Holding == {"read"} \cup AfterWrite
Has     == {"picked", "new", "stamped"} \cup Holding

(* What is in the map is what was written last.                            *)
HeapIsLastWritten ==
  \A o \in Orders :
    \/ writes[o] = <<>> /\ heap[o] = Absent
    \/ /\ writes[o] # <<>> /\ heap[o] \in Fields
       /\ heap[o].status = writes[o][Len(writes[o])].status

BasesAreEarlier == \A o \in Orders : \A i \in 1..Len(writes[o]) : writes[o][i].base < i

\* The barista's stream has orders of the map only.
ScanSeesOrders ==
  /\ \A o \in unscanned : writes[o] # <<>>
  /\ best # Absent => writes[best] # <<>>

(* What a thread holds was written, at the place it remembers.             *)
Sane(w) ==
  /\ pc[w] \in Has => order[w] \in Orders
  /\ pc[w] \in {"picked", "read"} => writes[order[w]] # <<>>
  /\ pc[w] \notin Holding => base[w] = 0 /\ previous[w] = Absent
  /\ pc[w] \in Holding =>
       /\ base[w] \in 0..Len(writes[order[w]])
       /\ previous[w] = IF base[w] = 0 THEN Absent ELSE writes[order[w]][base[w]].status
  /\ pc[w] \in AfterWrite =>
       slot[w] \in 1..Len(writes[order[w]]) /\ writes[order[w]][slot[w]].base = base[w]
  /\ pc[w] = "serialised" =>
       seen[w] \in slot[w]..Len(writes[order[w]]) /\ body[w] = writes[order[w]][seen[w]].status

Truthful(o, e) ==
  /\ e.of \in 1..Len(writes[o]) /\ e.at \in e.of..Len(writes[o])
  /\ e.status = writes[o][e.at].status
  /\ e.prev = IF writes[o][e.of].base = 0 THEN Absent
              ELSE writes[o][writes[o][e.of].base].status

EventsAreTruthful == \A o \in Orders : \A k \in 1..Len(published[o]) : Truthful(o, published[o][k])

Inv == /\ TypeOK /\ HeapIsLastWritten /\ BasesAreEarlier /\ ScanSeesOrders
       /\ \A w \in Workers : Sane(w)
       /\ EventsAreTruthful /\ LatestChangeAnnouncedUnlessOvertaken

(* The scheduler's thread is one of the writers.                           *)
LEMMA BaristaIsAWorker == Barista \in Workers
BY DEF Workers

-----------------------------------------------------------------------------
(* Writes stay where they are when others are added.                       *)
Grows(o) ==
  /\ Len(writes'[o]) \in Nat /\ Len(writes'[o]) >= Len(writes[o])
  /\ \A i \in 1..Len(writes[o]) : writes'[o][i] = writes[o][i]
  /\ writes[o] # <<>> => writes'[o] # <<>>

(* What Append does to the places of a sequence.                           *)
LEMMA AppendKeeps ==
  ASSUME NEW S, NEW s \in Seq(S), NEW e \in S
  PROVE  /\ Len(s) \in Nat /\ Len(Append(s, e)) = Len(s) + 1
         /\ Append(s, e)[Len(s) + 1] = e
         /\ \A i \in 1..Len(s) : Append(s, e)[i] = s[i]
         /\ Append(s, e) # <<>> /\ Append(s, e) \in Seq(S)
OBVIOUS

(* The history of the order that is written to.                            *)
LEMMA AppendGrows ==
  ASSUME TypeOK, NEW o \in Orders, NEW e \in Write, writes'[o] = Append(writes[o], e)
  PROVE  /\ Grows(o) /\ writes'[o] # <<>>
         /\ Len(writes'[o]) = Len(writes[o]) + 1 /\ writes'[o][Len(writes[o]) + 1] = e
<1>1. writes[o] \in Seq(Write)
  BY DEF TypeOK, Write
<1> QED
  BY <1>1, AppendKeeps DEF Grows

(* A history nobody writes to.                                             *)
LEMMA SameGrows ==
  ASSUME TypeOK, NEW o \in Orders, writes'[o] = writes[o]
  PROVE  Grows(o)
BY DEF TypeOK, Grows

(* Places in the writes, for whoever points at one.                        *)
LEMMA WriteAt ==
  ASSUME TypeOK, NEW o \in Orders
  PROVE  /\ writes[o] \in Seq(Write) /\ Len(writes[o]) \in Nat
         /\ \A i \in 1..Len(writes[o]) : writes[o][i].status \in Status /\ writes[o][i].base \in Nat
<1>1. writes[o] \in Seq(Write)
  BY DEF TypeOK, Write
<1>2. \A i \in 1..Len(writes[o]) : writes[o][i] \in Write
  BY <1>1
<1> QED
  BY <1>1, <1>2 DEF Write

(* An event stays truthful when histories grow.                            *)
LEMMA TruthfulStays ==
  ASSUME TypeOK, BasesAreEarlier, NEW o \in Orders, Grows(o), NEW e \in Event, Truthful(o, e)
  PROVE  Truthful(o, e)'
<1>1. e.of \in Nat /\ e.at \in Nat /\ Len(writes[o]) \in Nat
  BY WriteAt DEF Event
<1>2. writes'[o][e.of] = writes[o][e.of] /\ writes'[o][e.at] = writes[o][e.at]
  BY <1>1 DEF Truthful, Grows
<1>3. writes[o][e.of].base \in Nat /\ writes[o][e.of].base < e.of
  BY WriteAt DEF Truthful, BasesAreEarlier
<1>4. writes[o][e.of].base # 0 =>
        writes'[o][writes[o][e.of].base] = writes[o][writes[o][e.of].base]
  <2>1. e.of <= Len(writes[o])
    BY <1>1 DEF Truthful
  <2>2. writes[o][e.of].base # 0 => writes[o][e.of].base \in 1..Len(writes[o])
    BY <1>1, <1>3, <2>1
  <2> QED
    BY <2>2 DEF Grows
<1>5. e.of \in 1..Len(writes'[o]) /\ e.at \in e.of..Len(writes'[o])
  BY <1>1 DEF Truthful, Grows
<1>6. e.prev = IF writes'[o][e.of].base = 0 THEN Absent
               ELSE writes'[o][writes'[o][e.of].base].status
  <2>1. CASE writes[o][e.of].base = 0
    BY <1>2, <2>1 DEF Truthful
  <2>2. CASE writes[o][e.of].base # 0
    BY <1>2, <1>4, <2>2 DEF Truthful
  <2> QED
    BY <2>1, <2>2
<1>7. e.status = writes'[o][e.at].status
  BY <1>2 DEF Truthful
<1> QED
  BY <1>5, <1>6, <1>7 DEF Truthful

(* What a thread that does not move holds stays where it remembers it.     *)
LEMMA SaneStays ==
  ASSUME TypeOK, NEW w \in Workers, Sane(w), \A o \in Orders : Grows(o),
         pc'[w] = pc[w], order'[w] = order[w], base'[w] = base[w], previous'[w] = previous[w],
         slot'[w] = slot[w], seen'[w] = seen[w], body'[w] = body[w]
  PROVE  Sane(w)'
<1>1. CASE pc[w] \notin Has
  BY <1>1 DEF Sane, Has, Holding, AfterWrite
<1>2. CASE pc[w] \in Has
  <2> DEFINE o == order[w]
  <2>1. o \in Orders
    BY <1>2 DEF Sane
  <2>2. Grows(o) /\ Len(writes[o]) \in Nat
    BY <2>1, WriteAt
  <2>3. base[w] \in Nat /\ slot[w] \in Nat /\ seen[w] \in Nat
    BY DEF TypeOK
  <2>4. pc[w] \in Holding =>
          /\ base[w] \in 0..Len(writes'[o])
          /\ previous[w] = IF base[w] = 0 THEN Absent ELSE writes'[o][base[w]].status
    BY <2>2, <2>3 DEF Sane, Grows
  <2>5. pc[w] \in AfterWrite => slot[w] \in 1..Len(writes'[o]) /\ writes'[o][slot[w]].base = base[w]
    BY <2>2, <2>3 DEF Sane, Grows
  <2>6. pc[w] = "serialised" =>
          seen[w] \in slot[w]..Len(writes'[o]) /\ body[w] = writes'[o][seen[w]].status
    BY <2>2, <2>3 DEF Sane, Grows, AfterWrite
  <2>7. pc[w] \in {"picked", "read"} => writes'[o] # <<>>
    BY <2>2 DEF Sane, Grows
  <2> QED
    BY <2>1, <2>4, <2>5, <2>6, <2>7 DEF Sane
<1> QED
  BY <1>1, <1>2

-----------------------------------------------------------------------------
(* Types.                                                                  *)

(* Only orders of the map are looked at.                                   *)
LEMMA InTheMap ==
  ASSUME Inv, NEW o \in Orders, heap[o] # Absent \/ writes[o] # <<>>
  PROVE  heap[o] \in Fields /\ heap[o].status \in Status /\ writes[o] # <<>>
BY DEF Inv, HeapIsLastWritten, Fields

(* Looking an order up.                                                    *)
LEMMA LookType ==
  ASSUME Inv, NEW w \in Workers, NEW o \in Orders, NEW s \in Status,
         heap[o].status \in Status, Look(w, o, s)
  PROVE  TypeOK'
<1>1. Len(writes[o]) \in Nat
  BY WriteAt DEF Inv
<1> QED
  BY <1>1 DEF Inv, TypeOK, Look, Goto, Places

(* Writing to the history of an order.                                     *)
LEMMA WroteType ==
  ASSUME TypeOK, NEW w \in Workers, order[w] \in Orders, NEW s \in Status, Wrote(w, s)
  PROVE  /\ writes' \in [Orders -> Seq([status : Status, base : Nat])]
         /\ slot' \in [Workers -> Nat]
<1> DEFINE e == [status |-> s, base |-> base[w]]
<1>1. e \in Write
  BY DEF TypeOK, Write
<1>2. writes[order[w]] \in Seq(Write) /\ Len(writes[order[w]]) \in Nat
  BY WriteAt
<1>3. writes' = [writes EXCEPT ![order[w]] = Append(writes[order[w]], e)]
      /\ slot' = [slot EXCEPT ![w] = Len(writes[order[w]]) + 1]
  BY DEF Wrote
<1> HIDE DEF e
<1>4. Append(writes[order[w]], e) \in Seq(Write)
  BY <1>1, <1>2, AppendKeeps, Zenon
<1>5. writes \in [Orders -> Seq(Write)]
  BY DEF TypeOK, Write
<1>6. writes' \in [Orders -> Seq(Write)]
  BY <1>3, <1>4, <1>5
<1>7. slot \in [Workers -> Nat]
  BY DEF TypeOK
<1>8. slot' \in [Workers -> Nat]
  BY <1>2, <1>3, <1>7
<1> QED
  BY <1>6, <1>8 DEF Write

(* The end of a call.                                                      *)
LEMMA ReturnType ==
  ASSUME TypeOK, NEW w \in Workers, Return(w)
  PROVE  /\ pc' \in [Workers -> Places] /\ order' \in [Workers -> Orders \cup {Absent}]
         /\ want' \in [Workers -> Status] /\ previous' \in [Workers -> Status \cup {Absent}]
         /\ stamp' \in [Workers -> Nat] /\ body' \in [Workers -> Status]
         /\ base' \in [Workers -> Nat] /\ slot' \in [Workers -> Nat]
         /\ seen' \in [Workers -> Nat] /\ picked' \in Nat
         /\ UNCHANGED <<unscanned, best>>
BY DEF TypeOK, Return, After, Goto, Places, Status

(* The steps of an update.                                                 *)
LEMMA WorkType ==
  ASSUME Inv, NEW w \in Workers, Work(w)
  PROVE  TypeOK'
<1>0. TypeOK /\ Sane(w)
  BY DEF Inv
<1>1. CASE SetField(w)
  <2> DEFINE o == order[w]
  <2>1. o \in Orders /\ writes[o] # <<>>
    BY <1>0, <1>1 DEF SetField, Sane, Has, Holding
  <2>2. heap[o] \in Fields /\ want[w] \in Status
    BY <1>0, <2>1, InTheMap DEF TypeOK
  <2>3. [heap[o] EXCEPT !.status = want[w]] \in Fields
    BY <2>2 DEF Fields
  <2>4. heap' \in [Orders -> Fields \cup {Absent}]
    BY <1>0, <1>1, <2>1, <2>3 DEF SetField, TypeOK
  <2>5. /\ writes' \in [Orders -> Seq([status : Status, base : Nat])] /\ slot' \in [Workers -> Nat]
    BY <1>0, <1>1, <2>1, <2>2, WroteType DEF SetField
  <2> QED
    BY <1>0, <1>1, <2>4, <2>5 DEF SetField, TypeOK, Goto, Places
<1>2. CASE Stamp(w)
  BY <1>0, <1>2 DEF Stamp, TypeOK, Goto, Places
<1>3. CASE Put(w)
  <2>1. order[w] \in Orders
    BY <1>0, <1>3 DEF Put, Sane, Has
  <2>2. NewOrder(w) \in Fields
    BY <1>0 DEF NewOrder, Fields, TypeOK, Status
  <2>3. heap' \in [Orders -> Fields \cup {Absent}]
    BY <1>0, <1>3, <2>1, <2>2 DEF Put, TypeOK
  <2>4. /\ writes' \in [Orders -> Seq([status : Status, base : Nat])] /\ slot' \in [Workers -> Nat]
    BY <1>0, <1>3, <2>1, WroteType DEF Put, Status
  <2> QED
    BY <1>0, <1>3, <2>3, <2>4 DEF Put, TypeOK, Goto, Places
<1>4. CASE Compare(w)
  <2>1. CASE Return(w)
    BY <1>0, <1>4, <2>1, ReturnType DEF Compare, TypeOK
  <2>2. CASE Goto(w, "announcing") /\ UNCHANGED local
    BY <1>0, <1>4, <2>2 DEF Compare, TypeOK, local, Goto, Places
  <2> QED
    BY <1>4, <2>1, <2>2 DEF Compare
<1>5. CASE Serialise(w)
  <2>1. order[w] \in Orders /\ writes[order[w]] # <<>>
    BY <1>0, <1>5, WriteAt DEF Serialise, Sane, Has, Holding, AfterWrite
  <2>2. heap[order[w]].status \in Status /\ Len(writes[order[w]]) \in Nat
    BY <1>0, <2>1, InTheMap, WriteAt
  <2> QED
    BY <1>0, <1>5, <2>2 DEF Serialise, TypeOK, Goto, Places
<1>6. CASE Send(w)
  <2> DEFINE e == [prev |-> previous[w], status |-> body[w], of |-> slot[w], at |-> seen[w]]
  <2>1. order[w] \in Orders /\ e \in Event
    BY <1>0, <1>6 DEF Send, Sane, Has, Holding, AfterWrite, TypeOK, Event
  <2>2. Append(published[order[w]], e) \in Seq(Event)
    BY <1>0, <2>1 DEF TypeOK
  <2>3. published' \in [Orders -> Seq(Event)]
    BY <1>0, <1>6, <2>2 DEF Send, TypeOK
  <2> QED
    BY <1>0, <1>6, <2>3, ReturnType DEF Send, TypeOK
<1> QED
  BY <1>1, <1>2, <1>3, <1>4, <1>5, <1>6 DEF Work

(* Any step.                                                               *)
LEMMA TypeStep ==
  ASSUME Inv, [Next]_vars
  PROVE  TypeOK'
<1> USE BaristaIsAWorker
<1>0. TypeOK
  BY DEF Inv
<1>1. ASSUME NEW w \in Requests, Arrive(w) PROVE TypeOK'
  <2>1. w \in Workers
    BY DEF Workers
  <2>2. CASE NotFound(w)
    BY <1>0, <2>1, <2>2 DEF NotFound, TypeOK, Goto, Places, local
  <2>3. ASSUME NEW o \in Orders, Create(w, o) PROVE TypeOK'
    <3>1. order' \in [Workers -> Orders \cup {Absent}] /\ pc' \in [Workers -> Places]
      BY <1>0, <2>1, <2>3 DEF Create, TypeOK, Goto, Places
    <3>2. UNCHANGED <<heap, clock, published, writes, want, previous, stamp, body,
                      unscanned, best, base, slot, seen, picked>>
      BY <2>3 DEF Create
    <3> QED
      BY <1>0, <3>1, <3>2 DEF TypeOK
  <2>4. CASE \E o \in Orders, s \in Status : Patch(w, o, s)
    BY <2>1, <2>4, InTheMap, LookType DEF Patch
  <2> QED
    BY <1>1, <2>2, <2>3, <2>4 DEF Arrive
<1>2. ASSUME NEW at, NEW to \in Status, BeginScan(at, to) PROVE TypeOK'
  BY <1>0, <1>2 DEF BeginScan, TypeOK, Goto, Places
<1>3. ASSUME NEW o \in Orders, Scan(o) PROVE TypeOK'
  <2>1. Len(writes[o]) \in Nat
    BY <1>0, WriteAt
  <2> QED
    BY <1>0, <1>3, <2>1 DEF Scan, TypeOK
<1>4. CASE EndScan
  <2>1. CASE Return(Barista)
    BY <1>0, <1>4, <2>1, ReturnType DEF EndScan, TypeOK
  <2>2. CASE best # Absent
    BY <1>0, <1>4, <2>2 DEF EndScan, TypeOK, Goto, Places
  <2> QED
    BY <1>4, <2>1, <2>2 DEF EndScan
<1>5. CASE BaristaLook
  <2>1. Sane(Barista)
    BY DEF Inv
  <2>2. order[Barista] \in Orders /\ writes[order[Barista]] # <<>> /\ want[Barista] \in Status
    BY <1>0, <1>5, <2>1 DEF BaristaLook, Sane, Has, TypeOK
  <2>3. heap[order[Barista]].status \in Status
    BY <2>2, InTheMap
  <2>4. Look(Barista, order[Barista], want[Barista])
    BY <1>5 DEF BaristaLook
  <2> QED
    BY <2>2, <2>3, <2>4, LookType
<1>6. CASE TimePasses \/ UNCHANGED vars
  <2>1. UNCHANGED <<heap, published, pc, writes, order, want, previous, stamp, body,
                    unscanned, best, base, slot, seen, picked>>
    BY <1>6 DEF TimePasses, vars, local
  <2>2. clock' \in Nat
    BY <1>0, <1>6 DEF TimePasses, vars, TypeOK
  <2> QED
    BY <1>0, <2>1, <2>2 DEF TypeOK
<1>7. CASE Tick
  <2>1. "READY" \in Status /\ "BREWING" \in Status
    BY DEF Status
  <2> QED
    BY <1>2, <1>3, <1>4, <1>5, <1>7, <2>1, Zenon DEF Tick
<1>8. ASSUME NEW w \in Workers, Work(w) PROVE TypeOK'
  BY <1>8, WorkType
<1> QED
  BY <1>1, <1>6, <1>7, <1>8, Zenon DEF Next

-----------------------------------------------------------------------------
(* The steps.                                                              *)

\* What Sane speaks of, of a thread that does not take the step.
Stays(v) ==
  /\ pc'[v] = pc[v] /\ order'[v] = order[v] /\ base'[v] = base[v] /\ previous'[v] = previous[v]
  /\ slot'[v] = slot[v] /\ seen'[v] = seen[v] /\ body'[v] = body[v]

(* An announcement that is out stays out, and one that is owed stays owed. *)
LEMMA OwedStays ==
  ASSUME TypeOK, NEW o \in Orders, NEW i, AnnouncedOrOwed(o, i), UNCHANGED published,
         \A v \in Workers : pc[v] \in AfterWrite =>
           pc'[v] \in AfterWrite /\ order'[v] = order[v] /\ slot'[v] = slot[v]
  PROVE  AnnouncedOrOwed(o, i)'
BY DEF AnnouncedOrOwed

(* A step that neither writes nor announces.                               *)
LEMMA QuietStep ==
  ASSUME Inv, TypeOK', UNCHANGED <<heap, writes, published>>, ScanSeesOrders',
         NEW w \in Workers, Sane(w)', \A v \in Workers \ {w} : Stays(v),
         pc[w] \in AfterWrite => pc'[w] \in AfterWrite /\ order'[w] = order[w] /\ slot'[w] = slot[w]
  PROVE  Inv'
<1>1. \A o \in Orders : Grows(o)
  BY SameGrows DEF Inv
<1>2. \A v \in Workers : Sane(v)'
  BY <1>1, SaneStays DEF Inv, Stays
<1>3. HeapIsLastWritten' /\ BasesAreEarlier'
  BY DEF Inv, HeapIsLastWritten, BasesAreEarlier
<1>4. EventsAreTruthful'
  BY DEF Inv, EventsAreTruthful, Truthful
<1>5. LatestChangeAnnouncedUnlessOvertaken'
  <2> SUFFICES ASSUME NEW o \in Orders, NEW i \in 2..Len(writes[o]), i = Len(writes[o]),
                      ~Overtaken(o, i), writes[o][i - 1].status # writes[o][i].status
               PROVE  AnnouncedOrOwed(o, i)'
    BY DEF LatestChangeAnnouncedUnlessOvertaken, Overtaken
  <2>1. AnnouncedOrOwed(o, i)
    BY DEF Inv, LatestChangeAnnouncedUnlessOvertaken
  <2> QED
    BY <2>1, OwedStays DEF Inv, Stays
<1> QED
  BY <1>2, <1>3, <1>4, <1>5 DEF Inv

(* Setting a status: its thread owes the announcement from here on.        *)
LEMMA WriteStep ==
  ASSUME Inv, TypeOK', NEW w \in Workers, NEW s \in Status, Wrote(w, s),
         order[w] \in Orders, base[w] <= Len(writes[order[w]]), pc[w] \notin AfterWrite,
         base[w] = 0 => previous[w] = Absent,
         base[w] # 0 => previous[w] = writes[order[w]][base[w]].status,
         \A o \in Orders : o # order[w] => heap'[o] = heap[o],
         heap'[order[w]] \in Fields, heap'[order[w]].status = s,
         pc' = [pc EXCEPT ![w] = "changed"],
         UNCHANGED <<published, order, previous, body, unscanned, best, base, seen>>
  PROVE  Inv'
<1> DEFINE o == order[w]
           n == Len(writes[o])
           e == [status |-> s, base |-> base[w]]
<1>0. TypeOK /\ base[w] \in Nat /\ e \in Write
  BY DEF Inv, TypeOK, Write
<1>1. /\ writes' = [writes EXCEPT ![o] = Append(writes[o], e)]
      /\ slot' = [slot EXCEPT ![w] = n + 1]
  BY DEF Wrote
<1>2. /\ writes'[o] = Append(writes[o], e) /\ slot'[w] = n + 1 /\ pc'[w] = "changed"
      /\ \A p \in Orders : p # o => writes'[p] = writes[p]
      /\ \A v \in Workers : v # w => pc'[v] = pc[v] /\ slot'[v] = slot[v]
  BY <1>0, <1>1 DEF TypeOK
<1> HIDE DEF e
<1>3. /\ Grows(o) /\ writes'[o] # <<>> /\ n \in Nat
      /\ Len(writes'[o]) = n + 1 /\ writes'[o][n + 1] = e
  BY <1>0, <1>2, AppendGrows, WriteAt
<1>4. \A p \in Orders : Grows(p)
  BY <1>0, <1>2, <1>3, SameGrows
<1>5. e.status = s /\ e.base = base[w]
  BY DEF e
<1>6. HeapIsLastWritten'
  BY <1>2, <1>3, <1>5 DEF Inv, HeapIsLastWritten
<1>7. BasesAreEarlier'
  <2> SUFFICES ASSUME NEW p \in Orders, NEW i \in 1..Len(writes'[p]) PROVE writes'[p][i].base < i
    BY DEF BasesAreEarlier
  <2>1. CASE p = o /\ i = n + 1
    BY <1>0, <1>3, <1>5, <2>1
  <2>2. CASE ~(p = o /\ i = n + 1)
    <3>1. i \in 1..Len(writes[p]) /\ writes'[p][i] = writes[p][i]
      BY <1>2, <1>3, <1>4, <2>2 DEF Grows
    <3> QED
      BY <3>1 DEF Inv, BasesAreEarlier
  <2> QED
    BY <2>1, <2>2
<1>8. ScanSeesOrders'
  BY <1>0, <1>4 DEF Inv, ScanSeesOrders, Grows, TypeOK
<1>9. Sane(w)'
  <2>1. order'[w] = o /\ base'[w] = base[w] /\ previous'[w] = previous[w]
    OBVIOUS
  <2>2. base[w] # 0 => writes'[o][base[w]] = writes[o][base[w]]
    BY <1>0, <1>3 DEF Grows
  <2> QED
    BY <1>0, <1>2, <1>3, <1>5, <2>1, <2>2 DEF Sane, Has, Holding, AfterWrite
<1>10. \A v \in Workers : Sane(v)'
  BY <1>0, <1>2, <1>4, <1>9, SaneStays DEF Inv
<1>11. EventsAreTruthful'
  <2> SUFFICES ASSUME NEW p \in Orders, NEW k \in 1..Len(published[p])
               PROVE  Truthful(p, published[p][k])'
    BY DEF EventsAreTruthful
  <2>1. published[p][k] \in Event
    BY <1>0 DEF TypeOK
  <2>2. Truthful(p, published[p][k])
    BY DEF Inv, EventsAreTruthful
  <2> DEFINE d == published[p][k]
  <2>3. d' = d
    OBVIOUS
  <2> QED
    BY <1>0, <1>4, <2>1, <2>2, TruthfulStays DEF Inv, Truthful
<1>12. LatestChangeAnnouncedUnlessOvertaken'
  <2> SUFFICES ASSUME NEW p \in Orders, NEW i \in 2..Len(writes'[p]), i = Len(writes'[p]),
                      ~(writes'[p][i].base # i - 1),
                      writes'[p][i - 1].status # writes'[p][i].status
               PROVE  AnnouncedOrOwed(p, i)'
    BY DEF LatestChangeAnnouncedUnlessOvertaken, Overtaken
  <2>1. CASE p = o
    BY <1>2, <1>3, <2>1 DEF AnnouncedOrOwed, AfterWrite
  <2>2. CASE p # o
    <3>1. AnnouncedOrOwed(p, i)
      BY <1>2, <2>2 DEF Inv, LatestChangeAnnouncedUnlessOvertaken, Overtaken
    <3> QED
      BY <1>0, <1>2, <3>1, OwedStays
  <2> QED
    BY <2>1, <2>2
<1> QED
  BY <1>6, <1>7, <1>8, <1>10, <1>11, <1>12 DEF Inv

(* setStatus, after the thread has read the status there was.              *)
LEMMA SetFieldStep ==
  ASSUME Inv, TypeOK', NEW w \in Workers, SetField(w)
  PROVE  Inv'
<1>0. TypeOK /\ Sane(w)
  BY DEF Inv
<1>1. order[w] \in Orders /\ writes[order[w]] # <<>> /\ pc[w] = "read"
  BY <1>0 DEF SetField, Sane, Has, Holding
<1>2. /\ base[w] \in 0..Len(writes[order[w]])
      /\ previous[w] = IF base[w] = 0 THEN Absent ELSE writes[order[w]][base[w]].status
  BY <1>0, <1>1 DEF Sane, Holding
<1>3. heap[order[w]] \in Fields /\ want[w] \in Status
  BY <1>0, <1>1, InTheMap DEF TypeOK
<1>4. /\ \A o \in Orders : o # order[w] => heap'[o] = heap[o]
      /\ heap'[order[w]] = [heap[order[w]] EXCEPT !.status = want[w]]
  BY <1>0, <1>1 DEF SetField, TypeOK
<1>5. heap'[order[w]] \in Fields /\ heap'[order[w]].status = want[w]
  BY <1>3, <1>4 DEF Fields
<1>6. Wrote(w, want[w]) /\ pc' = [pc EXCEPT ![w] = "changed"]
      /\ UNCHANGED <<published, order, previous, body, unscanned, best, base, seen>>
  BY DEF SetField, Goto
<1>7. /\ base[w] <= Len(writes[order[w]]) /\ pc[w] \notin AfterWrite
      /\ base[w] = 0 => previous[w] = Absent
      /\ base[w] # 0 => previous[w] = writes[order[w]][base[w]].status
  BY <1>0, <1>1, <1>2, WriteAt DEF AfterWrite
<1> QED
  BY <1>1, <1>3, <1>4, <1>5, <1>6, <1>7, WriteStep, Zenon

(* A new order had no status before.                                       *)
LEMMA PutStep ==
  ASSUME Inv, TypeOK', NEW w \in Workers, Put(w)
  PROVE  Inv'
<1>0. TypeOK /\ Sane(w)
  BY DEF Inv
<1>1. order[w] \in Orders /\ base[w] = 0 /\ previous[w] = Absent /\ pc[w] = "stamped"
  BY <1>0 DEF Put, Sane, Has, Holding, AfterWrite
<1>2. NewOrder(w) \in Fields /\ NewOrder(w).status = "PENDING" /\ "PENDING" \in Status
  BY <1>0 DEF NewOrder, Fields, TypeOK, Status
<1>3. /\ \A o \in Orders : o # order[w] => heap'[o] = heap[o]
      /\ heap'[order[w]] = NewOrder(w)
  BY <1>0, <1>1 DEF Put, TypeOK
<1>4. Wrote(w, "PENDING") /\ pc' = [pc EXCEPT ![w] = "changed"]
      /\ UNCHANGED <<published, order, previous, body, unscanned, best, base, seen>>
  BY DEF Put, Goto
<1>5. /\ base[w] <= Len(writes[order[w]]) /\ pc[w] \notin AfterWrite
      /\ base[w] = 0 => previous[w] = Absent
      /\ base[w] # 0 => previous[w] = writes[order[w]][base[w]].status
      /\ heap'[order[w]] \in Fields /\ heap'[order[w]].status = "PENDING"
  BY <1>0, <1>1, <1>2, <1>3, WriteAt DEF AfterWrite
<1> QED
  BY <1>1, <1>2, <1>3, <1>4, <1>5, WriteStep, Zenon

(* A thread whose call returns lets go of everything.                      *)
LEMMA ReturnStep ==
  ASSUME TypeOK, NEW w \in Workers, Return(w)
  PROVE  Sane(w)' /\ \A v \in Workers \ {w} : Stays(v)
<1>1. pc'[w] \in {"done", "second", "idle"} /\ base'[w] = 0 /\ previous'[w] = Absent
  BY DEF TypeOK, Return, Goto, After
<1>2. \A v \in Workers \ {w} : Stays(v)
  BY DEF TypeOK, Return, Goto, Stays
<1> QED
  BY <1>1, <1>2 DEF Sane, Has, Holding, AfterWrite

(* Nothing to announce: the status read back is the one the thread had     *)
(* read before, so the change is not the latest, or it changed nothing.    *)
LEMMA NothingToSay ==
  ASSUME Inv, TypeOK', NEW w \in Workers, Compare(w), ~Noteworthy(w)
  PROVE  Inv'
<1>0. TypeOK /\ Sane(w) /\ Return(w) /\ UNCHANGED <<heap, published, writes>>
  BY DEF Inv, Compare
<1>1. /\ order[w] \in Orders /\ pc[w] = "changed" /\ slot[w] \in 1..Len(writes[order[w]])
      /\ writes[order[w]][slot[w]].base = base[w]
      /\ previous[w] = IF base[w] = 0 THEN Absent ELSE writes[order[w]][base[w]].status
  BY <1>0 DEF Compare, Sane, Has, Holding, AfterWrite
<1>2. previous[w] = heap[order[w]].status
  BY DEF Noteworthy
<1>3. \A o \in Orders : Grows(o)
  BY <1>0, SameGrows
<1>4. Sane(w)' /\ \A v \in Workers \ {w} : Stays(v)
  BY <1>0, ReturnStep
<1>5. \A v \in Workers : Sane(v)'
  BY <1>0, <1>3, <1>4, SaneStays DEF Inv, Stays
<1>6. HeapIsLastWritten' /\ BasesAreEarlier' /\ EventsAreTruthful'
  BY <1>0 DEF Inv, HeapIsLastWritten, BasesAreEarlier, EventsAreTruthful, Truthful
<1>7. ScanSeesOrders'
  BY <1>0 DEF Return, Inv, ScanSeesOrders
<1>8. LatestChangeAnnouncedUnlessOvertaken'
  <2> SUFFICES ASSUME NEW o \in Orders, NEW i \in 2..Len(writes[o]), i = Len(writes[o]),
                      ~Overtaken(o, i), writes[o][i - 1].status # writes[o][i].status
               PROVE  AnnouncedOrOwed(o, i)'
    BY <1>0 DEF LatestChangeAnnouncedUnlessOvertaken, Overtaken
  <2>1. AnnouncedOrOwed(o, i)
    BY DEF Inv, LatestChangeAnnouncedUnlessOvertaken
  <2>2. ~(order[w] = o /\ slot[w] = i)
    <3> SUFFICES ASSUME order[w] = o, slot[w] = i PROVE FALSE
      OBVIOUS
    <3>1. base[w] = i - 1 /\ i - 1 # 0
      BY <1>1 DEF Overtaken
    <3>2. heap[o].status = writes[o][i].status
      BY DEF Inv, HeapIsLastWritten
    <3> QED
      BY <1>1, <1>2, <3>1, <3>2
  <2> QED
    BY <1>0, <1>4, <2>1, <2>2 DEF AnnouncedOrOwed, Stays
<1> QED
  BY <1>5, <1>6, <1>7, <1>8 DEF Inv

(* Sending: what was owed is announced, and the event tells the truth.     *)
LEMMA SendStep ==
  ASSUME Inv, TypeOK', NEW w \in Workers, Send(w)
  PROVE  Inv'
<1> DEFINE p == order[w]
           e == [prev |-> previous[w], status |-> body[w], of |-> slot[w], at |-> seen[w]]
<1>0. TypeOK /\ Sane(w) /\ Return(w) /\ UNCHANGED <<heap, writes>>
  BY DEF Inv, Send
<1>1. /\ p \in Orders /\ pc[w] = "serialised" /\ slot[w] \in 1..Len(writes[p])
      /\ writes[p][slot[w]].base = base[w]
      /\ previous[w] = IF base[w] = 0 THEN Absent ELSE writes[p][base[w]].status
      /\ seen[w] \in slot[w]..Len(writes[p]) /\ body[w] = writes[p][seen[w]].status
  BY <1>0 DEF Send, Sane, Has, Holding, AfterWrite
<1>2. e \in Event
  BY <1>0, <1>1 DEF TypeOK, Event
<1>3. Truthful(p, e) /\ e.of = slot[w]
  BY <1>1 DEF Truthful
<1>4. /\ published'[p] = Append(published[p], e) /\ published[p] \in Seq(Event)
      /\ \A o \in Orders : o # p => published'[o] = published[o]
  BY <1>0, <1>1 DEF Send, TypeOK
<1> HIDE DEF e
<1>5. /\ Len(published[p]) \in Nat /\ Len(published'[p]) = Len(published[p]) + 1
      /\ published'[p][Len(published[p]) + 1] = e
      /\ \A k \in 1..Len(published[p]) : published'[p][k] = published[p][k]
  BY <1>2, <1>4, AppendKeeps
<1>6. Sane(w)' /\ \A v \in Workers \ {w} : Stays(v)
  BY <1>0, ReturnStep
<1>7. \A o \in Orders : Grows(o)
  BY <1>0, SameGrows
<1>8. \A v \in Workers : Sane(v)'
  BY <1>0, <1>6, <1>7, SaneStays DEF Inv, Stays
<1>9. HeapIsLastWritten' /\ BasesAreEarlier' /\ ScanSeesOrders'
  BY <1>0 DEF Return, Inv, HeapIsLastWritten, BasesAreEarlier, ScanSeesOrders
<1>10. EventsAreTruthful'
  <2> SUFFICES ASSUME NEW o \in Orders, NEW k \in 1..Len(published'[o])
               PROVE  Truthful(o, published'[o][k])
    BY <1>0 DEF EventsAreTruthful, Truthful
  <2>1. CASE o = p /\ k = Len(published[p]) + 1
    BY <1>3, <1>5, <2>1
  <2>2. CASE ~(o = p /\ k = Len(published[p]) + 1)
    <3>1. k \in 1..Len(published[o]) /\ published'[o][k] = published[o][k]
      <4>1. CASE o = p
        BY <1>5, <2>2, <4>1
      <4>2. CASE o # p
        <5>1. published'[o] = published[o]
          BY <1>4, <4>2
        <5> QED
          BY <5>1
      <4> QED
        BY <4>1, <4>2
    <3> QED
      BY <3>1 DEF Inv, EventsAreTruthful
  <2> QED
    BY <2>1, <2>2
<1>11. LatestChangeAnnouncedUnlessOvertaken'
  <2> SUFFICES ASSUME NEW o \in Orders, NEW i \in 2..Len(writes[o]), i = Len(writes[o]),
                      ~Overtaken(o, i), writes[o][i - 1].status # writes[o][i].status
               PROVE  AnnouncedOrOwed(o, i)'
    BY <1>0 DEF LatestChangeAnnouncedUnlessOvertaken, Overtaken
  <2>1. AnnouncedOrOwed(o, i)
    BY DEF Inv, LatestChangeAnnouncedUnlessOvertaken
  <2>2. CASE \E k \in 1..Len(published[o]) : published[o][k].of = i
    <3>1. \E k \in 1..Len(published'[o]) : published'[o][k].of = i
      BY <1>4, <1>5, <2>2
    <3> QED
      BY <3>1 DEF AnnouncedOrOwed
  <2>3. CASE order[w] = o /\ slot[w] = i
    <3>1. \E k \in 1..Len(published'[o]) : published'[o][k].of = i
      BY <1>3, <1>5, <2>3
    <3> QED
      BY <3>1 DEF AnnouncedOrOwed
  <2>4. CASE \E v \in Workers \ {w} : pc[v] \in AfterWrite /\ order[v] = o /\ slot[v] = i
    BY <1>6, <2>4 DEF AnnouncedOrOwed, Stays
  <2> QED
    BY <2>1, <2>2, <2>3, <2>4 DEF AnnouncedOrOwed
<1> QED
  BY <1>8, <1>9, <1>10, <1>11 DEF Inv

(* The steps of an update.                                                 *)
LEMMA WorkStep ==
  ASSUME Inv, TypeOK', NEW w \in Workers, Work(w)
  PROVE  Inv'
<1>0. TypeOK /\ Sane(w) /\ ScanSeesOrders
  BY DEF Inv
<1>1. CASE SetField(w) \/ Put(w)
  BY <1>1, SetFieldStep, PutStep
<1>2. CASE Stamp(w)
  <2>1. \A v \in Workers \ {w} : Stays(v)
    BY <1>0, <1>2 DEF Stamp, Goto, TypeOK, Stays
  <2>2. Sane(w)' /\ ScanSeesOrders'
    BY <1>0, <1>2 DEF Stamp, Goto, TypeOK, Sane, Has, Holding, AfterWrite, ScanSeesOrders
  <2> QED
    BY <1>2, <2>1, <2>2, QuietStep DEF Stamp, AfterWrite
<1>3. CASE Compare(w) /\ Noteworthy(w)
  <2>1. \A v \in Workers \ {w} : Stays(v)
    BY <1>0, <1>3 DEF Compare, Goto, TypeOK, Stays, local
  <2>2. ScanSeesOrders'
    BY <1>0, <1>3 DEF Compare, local, ScanSeesOrders
  <2>3. pc[w] = "changed" /\ pc'[w] = "announcing" /\ UNCHANGED <<writes, local>>
    BY <1>0, <1>3 DEF Compare, Goto, TypeOK
  <2>4. Sane(w)'
    BY <1>0, <2>3 DEF local, Sane, Has, Holding, AfterWrite
  <2> QED
    BY <1>3, <2>1, <2>2, <2>3, <2>4, QuietStep DEF Compare, AfterWrite, local
<1>4. CASE Compare(w) /\ ~Noteworthy(w)
  BY <1>4, NothingToSay
<1>5. CASE Serialise(w)
  <2>1. \A v \in Workers \ {w} : Stays(v)
    BY <1>0, <1>5 DEF Serialise, Goto, TypeOK, Stays
  <2>2. ScanSeesOrders'
    BY <1>0, <1>5 DEF Serialise, ScanSeesOrders
  <2>3. /\ order[w] \in Orders /\ pc[w] = "announcing" /\ slot[w] \in 1..Len(writes[order[w]])
        /\ Len(writes[order[w]]) \in Nat
    BY <1>0, <1>5, WriteAt DEF Serialise, Sane, Has, Holding, AfterWrite
  <2>4. heap[order[w]].status = writes[order[w]][Len(writes[order[w]])].status
    BY <2>3 DEF Inv, HeapIsLastWritten
  <2>5. /\ pc'[w] = "serialised" /\ seen'[w] = Len(writes[order[w]])
        /\ body'[w] = writes[order[w]][Len(writes[order[w]])].status
        /\ UNCHANGED <<writes, order, base, previous, slot>>
    BY <1>0, <1>5, <2>4 DEF Serialise, Goto, TypeOK
  <2>6. Sane(w)'
    BY <1>0, <2>3, <2>5 DEF Sane, Has, Holding, AfterWrite
  <2> QED
    BY <1>5, <2>1, <2>2, <2>5, <2>6, QuietStep DEF Serialise, AfterWrite
<1>6. CASE Send(w)
  BY <1>6, SendStep
<1> QED
  BY <1>1, <1>2, <1>3, <1>4, <1>5, <1>6 DEF Work

(* find and getStatus: the status of the latest write is what is read.     *)
LEMMA LookStep ==
  ASSUME Inv, TypeOK', NEW w \in Workers, pc[w] \notin AfterWrite,
         NEW o \in Orders, writes[o] # <<>>, NEW s \in Status, Look(w, o, s)
  PROVE  Inv'
<1>0. TypeOK /\ ScanSeesOrders
  BY DEF Inv
<1>1. \A v \in Workers \ {w} : Stays(v)
  BY <1>0 DEF Look, Goto, TypeOK, Stays
<1>2. ScanSeesOrders'
  BY <1>0 DEF Look, ScanSeesOrders
<1>3. writes[o] \in Seq(Write) /\ Len(writes[o]) \in Nat
  BY <1>0, WriteAt
<1>4. Len(writes[o]) # 0
  BY <1>3
<1>5. heap[o].status = writes[o][Len(writes[o])].status
  BY DEF Inv, HeapIsLastWritten
<1>6. /\ pc'[w] = "read" /\ order'[w] = o /\ base'[w] = Len(writes[o])
      /\ previous'[w] = heap[o].status /\ UNCHANGED <<heap, writes, published>>
  BY <1>0 DEF Look, Goto, TypeOK
<1>7. Sane(w)'
  BY <1>3, <1>4, <1>5, <1>6 DEF Sane, Has, Holding, AfterWrite
<1> QED
  BY <1>1, <1>2, <1>6, <1>7, QuietStep

(* The requests that arrive.                                               *)
LEMMA ArriveStep ==
  ASSUME Inv, TypeOK', NEW w \in Workers, Arrive(w)
  PROVE  Inv'
<1>0. TypeOK /\ Sane(w) /\ ScanSeesOrders
  BY DEF Inv
<1>1. CASE NotFound(w)
  <2>1. \A v \in Workers \ {w} : Stays(v)
    BY <1>0, <1>1 DEF NotFound, Goto, TypeOK, Stays, local
  <2>2. Sane(w)' /\ ScanSeesOrders'
    BY <1>0, <1>1 DEF NotFound, Goto, TypeOK, Sane, Has, Holding, AfterWrite, ScanSeesOrders, local
  <2> QED
    BY <1>1, <2>1, <2>2, QuietStep DEF NotFound, AfterWrite, local
<1>2. ASSUME NEW o \in Orders, Create(w, o) PROVE Inv'
  <2>1. \A v \in Workers \ {w} : Stays(v)
    BY <1>0, <1>2 DEF Create, Goto, TypeOK, Stays
  <2>2. pc[w] = "idle" /\ pc'[w] = "new" /\ order'[w] = o /\ UNCHANGED <<base, previous>>
    BY <1>0, <1>2 DEF Create, Goto, TypeOK
  <2>3. Sane(w)' /\ ScanSeesOrders'
    BY <1>0, <1>2, <2>2 DEF Create, Sane, Has, Holding, AfterWrite, ScanSeesOrders
  <2> QED
    BY <1>2, <2>1, <2>2, <2>3, QuietStep DEF Create, AfterWrite
<1>3. ASSUME NEW o \in Orders, NEW s \in Status, Patch(w, o, s) PROVE Inv'
  BY <1>3, InTheMap, LookStep DEF Patch, AfterWrite
<1> QED
  BY <1>1, <1>2, <1>3 DEF Arrive

(* The steps of the barista that are not an update.                        *)
LEMMA TickStep ==
  ASSUME Inv, TypeOK', Tick
  PROVE  Inv'
<1> DEFINE b == Barista
<1> USE BaristaIsAWorker
<1>0. TypeOK /\ Sane(b) /\ ScanSeesOrders
  BY DEF Inv
<1>1. ASSUME NEW at \in {"idle", "second"}, NEW to \in Status, BeginScan(at, to) PROVE Inv'
  <2>1. \A v \in Workers \ {b} : Stays(v)
    BY <1>0, <1>1 DEF BeginScan, Goto, TypeOK, Stays
  <2>2. pc[b] = at /\ pc'[b] = "scan" /\ UNCHANGED <<writes, base, previous>>
    BY <1>0, <1>1 DEF BeginScan, Goto, TypeOK
  <2>3. Sane(b)'
    BY <1>0, <2>2 DEF Sane, Has, Holding, AfterWrite
  <2>4. ScanSeesOrders'
    BY <1>1, InTheMap DEF BeginScan, ScanSeesOrders
  <2> QED
    BY <1>1, <2>1, <2>2, <2>3, <2>4, QuietStep DEF BeginScan, AfterWrite
<1>2. ASSUME NEW o \in Orders, Scan(o) PROVE Inv'
  <2>1. \A v \in Workers \ {b} : Stays(v)
    BY <1>0, <1>2 DEF Scan, Stays
  <2>2. Sane(b)'
    BY <1>0, <1>2 DEF Scan, Sane
  <2>3. ScanSeesOrders'
    BY <1>0, <1>2 DEF Scan, ScanSeesOrders
  <2> QED
    BY <1>2, <2>1, <2>2, <2>3, QuietStep DEF Scan
<1>3. CASE EndScan
  <2>1. CASE best = Absent
    <3>1. Return(b)
      BY <1>3, <2>1 DEF EndScan
    <3>2. Sane(b)' /\ \A v \in Workers \ {b} : Stays(v)
      BY <1>0, <3>1, ReturnStep
    <3>3. ScanSeesOrders'
      BY <1>0, <1>3, <3>1 DEF EndScan, Return, ScanSeesOrders
    <3> QED
      BY <1>3, <3>2, <3>3, QuietStep DEF EndScan, AfterWrite
  <2>2. CASE best # Absent
    <3>1. \A v \in Workers \ {b} : Stays(v)
      BY <1>0, <1>3, <2>2 DEF EndScan, Goto, TypeOK, Stays
    <3>2. /\ pc[b] = "scan" /\ pc'[b] = "picked" /\ order'[b] = best /\ best' = Absent
          /\ UNCHANGED <<writes, base, previous, unscanned>>
      BY <1>0, <1>3, <2>2 DEF EndScan, Goto, TypeOK
    <3>3. best \in Orders /\ writes[best] # <<>>
      BY <1>0, <2>2 DEF TypeOK, ScanSeesOrders
    <3>4. Sane(b)' /\ ScanSeesOrders'
      BY <1>0, <3>2, <3>3 DEF Sane, Has, Holding, AfterWrite, ScanSeesOrders
    <3> QED
      BY <1>3, <3>1, <3>2, <3>4, QuietStep DEF EndScan, AfterWrite
  <2> QED
    BY <2>1, <2>2
<1>4. CASE BaristaLook
  <2>1. order[b] \in Orders /\ writes[order[b]] # <<>> /\ want[b] \in Status
    BY <1>0, <1>4 DEF BaristaLook, Sane, Has, TypeOK
  <2> QED
    BY <1>4, <2>1, LookStep DEF BaristaLook, AfterWrite
<1>5. "READY" \in Status /\ "BREWING" \in Status
  BY DEF Status
<1> QED
  BY <1>1, <1>2, <1>3, <1>4, <1>5 DEF Tick

(* Nobody moves while time passes.                                         *)
LEMMA IdleStep ==
  ASSUME Inv, TypeOK', TimePasses \/ UNCHANGED vars
  PROVE  Inv'
<1>1. UNCHANGED <<heap, published, pc, writes, order, previous, body,
                  unscanned, best, base, slot, seen>>
  BY DEF TimePasses, vars, local
<1>2. \A v \in Workers : Stays(v)
  BY <1>1 DEF Stays
<1>3. Sane(Barista)' /\ ScanSeesOrders'
  BY <1>1, BaristaIsAWorker DEF Inv, Sane, ScanSeesOrders
<1> QED
  BY <1>1, <1>2, <1>3, BaristaIsAWorker, QuietStep

-----------------------------------------------------------------------------
(* The invariant, and what it is for.                                      *)

(* The orders of SeedOrders are the first writes; nobody holds anything.   *)
LEMMA InvInit == Init => Inv
<1> SUFFICES ASSUME Init PROVE Inv
  OBVIOUS
<1>0. \A o \in DOMAIN Seed : Seed[o] \in Fields /\ Seed[o].status \in Status
  BY JavaAssumption DEF Fields
<1>1. \A o \in Orders :
        /\ o \in DOMAIN Seed => /\ heap[o] = Seed[o]
                                /\ writes[o] = <<[status |-> Seed[o].status, base |-> 0]>>
        /\ o \notin DOMAIN Seed => heap[o] = Absent /\ writes[o] = <<>>
        /\ published[o] = <<>>
  BY DEF Init
<1>2. \A o \in DOMAIN Seed : <<[status |-> Seed[o].status, base |-> 0]>> \in Seq(Write)
  BY <1>0 DEF Write
<1>3. /\ \A o \in Orders : writes[o] \in Seq(Write)
      /\ \A o \in DOMAIN Seed : Len(writes[o]) = 1 /\ writes[o] # <<>>
                               /\ writes[o][1] = [status |-> Seed[o].status, base |-> 0]
      /\ \A o \in Orders : o \notin DOMAIN Seed => writes[o] = <<>> /\ Len(writes[o]) = 0
  <2>1. ASSUME NEW o \in Orders, o \notin DOMAIN Seed
        PROVE  writes[o] = <<>> /\ writes[o] \in Seq(Write) /\ Len(writes[o]) = 0
    <3>1. writes[o] = <<>>
      BY <1>1, <2>1
    <3> QED
      BY <3>1
  <2>2. ASSUME NEW o \in DOMAIN Seed
        PROVE  /\ Len(writes[o]) = 1 /\ writes[o] # <<>> /\ writes[o] \in Seq(Write)
               /\ writes[o][1] = [status |-> Seed[o].status, base |-> 0]
    <3>1. writes[o] = <<[status |-> Seed[o].status, base |-> 0]>>
      BY <1>1, JavaAssumption
    <3> QED
      BY <1>2, <3>1
  <2> QED
    BY <2>1, <2>2
<1>4. TypeOK
  <2>1. writes \in [Orders -> Seq([status : Status, base : Nat])]
    BY <1>3 DEF Init, Write
  <2>2. heap \in [Orders -> Fields \cup {Absent}]
    BY <1>0 DEF Init
  <2>3. published \in [Orders -> Seq(Event)]
    BY DEF Init
  <2> QED
    BY <2>1, <2>2, <2>3, JavaAssumption DEF Init, TypeOK, Places, Status
<1>5. HeapIsLastWritten
  <2>1. ASSUME NEW o \in Orders, o \in DOMAIN Seed
        PROVE  /\ writes[o] # <<>> /\ heap[o] \in Fields
               /\ heap[o].status = writes[o][Len(writes[o])].status
    <3>1. writes[o] # <<>> /\ writes[o][Len(writes[o])] = [status |-> Seed[o].status, base |-> 0]
      BY <1>3, <2>1
    <3>2. heap[o] = Seed[o] /\ Seed[o] \in Fields
      BY <1>0, <1>1, <2>1
    <3> QED
      BY <3>1, <3>2
  <2>2. ASSUME NEW o \in Orders, o \notin DOMAIN Seed PROVE writes[o] = <<>> /\ heap[o] = Absent
    BY <1>1, <2>2
  <2> QED
    BY <2>1, <2>2 DEF HeapIsLastWritten
<1>6. BasesAreEarlier
  <2> SUFFICES ASSUME NEW o \in Orders, NEW i \in 1..Len(writes[o]) PROVE writes[o][i].base < i
    BY DEF BasesAreEarlier
  <2>1. CASE o \in DOMAIN Seed
    <3>1. Len(writes[o]) = 1 /\ writes[o][1] = [status |-> Seed[o].status, base |-> 0]
      BY <1>3, <2>1
    <3>2. i = 1 /\ writes[o][1].base = 0
      BY <3>1
    <3> QED
      BY <3>2
  <2>2. CASE o \notin DOMAIN Seed
    BY <1>3, <2>2
  <2> QED
    BY <2>1, <2>2
<1>7. ScanSeesOrders /\ EventsAreTruthful
  BY <1>1 DEF Init, ScanSeesOrders, EventsAreTruthful
<1>8. \A w \in Workers : Sane(w)
  BY DEF Init, Sane, Has, Holding, AfterWrite
<1>9. LatestChangeAnnouncedUnlessOvertaken
  <2>1. ASSUME NEW o \in Orders PROVE Len(writes[o]) = 0 \/ Len(writes[o]) = 1
    <3>1. CASE o \in DOMAIN Seed
      BY <1>3, <3>1
    <3>2. CASE o \notin DOMAIN Seed
      BY <1>3, <3>2
    <3> QED
      BY <3>1, <3>2
  <2>2. ASSUME NEW n, n = 0 \/ n = 1, NEW i \in 2..n PROVE FALSE
    BY <2>2
  <2> QED
    BY <2>1, <2>2 DEF LatestChangeAnnouncedUnlessOvertaken
<1> QED
  BY <1>4, <1>5, <1>6, <1>7, <1>8, <1>9 DEF Inv

(* Every step keeps the invariant.                                         *)
LEMMA InvStep == Inv /\ [Next]_vars => Inv'
<1> SUFFICES ASSUME Inv, [Next]_vars PROVE Inv'
  OBVIOUS
<1>0. TypeOK'
  BY TypeStep
<1>1. ASSUME NEW w \in Requests, Arrive(w) PROVE Inv'
  BY <1>0, <1>1, ArriveStep DEF Workers
<1>2. ASSUME NEW w \in Workers, Work(w) PROVE Inv'
  BY <1>0, <1>2, WorkStep
<1>3. CASE Tick
  BY <1>0, <1>3, TickStep
<1>4. CASE TimePasses \/ UNCHANGED vars
  BY <1>0, <1>4, IdleStep
<1> QED
  BY <1>1, <1>2, <1>3, <1>4, Zenon DEF Next

(* It holds in every reachable state.                                      *)
LEMMA InvAlways == Spec => []Inv
BY InvInit, InvStep, PTL DEF Spec

(* Every variable keeps its type.                                          *)
THEOREM TypeCorrect == Spec => []TypeOK
<1>1. Inv => TypeOK
  BY DEF Inv
<1> QED
  BY <1>1, InvAlways, PTL

(* However the fields of an Order are written and read: the change that    *)
(* gave it the status it has is announced, or its thread is on the way to  *)
(* announce it, unless it was overtaken (OrdersController.applyStatus).    *)
THEOREM LatestChangeAnnounced == Spec => []LatestChangeAnnouncedUnlessOvertaken
<1>1. Inv => LatestChangeAnnouncedUnlessOvertaken
  BY DEF Inv
<1> QED
  BY <1>1, InvAlways, PTL

(* No event is older than its update, and its previousStatus is the one    *)
(* the thread had read (OrderEventPublisher.publish).                      *)
THEOREM EventsAreAsNewAsTheirUpdate == Spec => []EventsAreAtLeastAsNewAsTheirUpdate
<1>1. Inv => EventsAreAtLeastAsNewAsTheirUpdate
  BY DEF Inv, EventsAreTruthful, Truthful, EventsAreAtLeastAsNewAsTheirUpdate
<1> QED
  BY <1>1, InvAlways, PTL

-----------------------------------------------------------------------------
(* What the refinement needs besides.                                      *)

\* An order that is being created is nobody else's, and has no status yet.
Fresh(w) ==
  /\ pc[w] \in {"idle", "new", "stamped"} => want[w] = "PENDING"
  /\ pc[w] \in {"new", "stamped"} => /\ writes[order[w]] = <<>>
                                     /\ \A v \in Workers \ {w} : order[v] # order[w]

\* A thread's own write is where it remembers it, and is nobody else's.
OwnWrite(w) ==
  pc[w] \in AfterWrite =>
    /\ writes[order[w]][slot[w]].status = want[w]
    /\ \A v \in Workers \ {w} :
         pc[v] \in AfterWrite /\ order[v] = order[w] => slot[v] # slot[w]

\* The barista chose the order for the status it had at picked.
ChosenAt(o) == picked \in 1..Len(writes[o]) /\ writes[o][picked].status = From

ChoiceWasRight ==
  LET at == pc[Barista] IN
  /\ at \notin {"new", "stamped"}
  /\ at \in {"scan", "picked"} \cup Holding => want[Barista] \in {"READY", "BREWING"}
  /\ at = "scan" /\ best # Absent => ChosenAt(best)
  /\ at \in {"picked"} \cup Holding => ChosenAt(order[Barista])

More == /\ \A w \in Workers : Fresh(w) /\ OwnWrite(w)
        /\ ChoiceWasRight

(* No step takes back what was written.                                    *)
LEMMA HistoriesGrow ==
  ASSUME Inv, [Next]_vars
  PROVE  \A o \in Orders : Grows(o)
<1>0. TypeOK
  BY DEF Inv
<1>1. ASSUME UNCHANGED writes PROVE \A o \in Orders : Grows(o)
  BY <1>0, <1>1, SameGrows
<1>2. ASSUME NEW w \in Workers, NEW s \in Status, order[w] \in Orders, Wrote(w, s)
      PROVE  \A o \in Orders : Grows(o)
  <2> DEFINE e == [status |-> s, base |-> base[w]]
  <2>1. /\ writes'[order[w]] = Append(writes[order[w]], e) /\ e \in Write
        /\ \A o \in Orders : o # order[w] => writes'[o] = writes[o]
    BY <1>0, <1>2 DEF Wrote, TypeOK, Write
  <2> HIDE DEF e
  <2>2. Grows(order[w])
    BY <1>0, <1>2, <2>1, AppendGrows
  <2> QED
    BY <1>0, <2>1, <2>2, SameGrows
<1>3. ASSUME NEW w \in Workers, SetField(w) \/ Put(w)
      PROVE  \A o \in Orders : Grows(o)
  <2>1. order[w] \in Orders /\ want[w] \in Status /\ "PENDING" \in Status
    BY <1>3 DEF Inv, SetField, Put, Sane, Has, Holding, TypeOK, Status
  <2> QED
    BY <1>2, <1>3, <2>1 DEF SetField, Put
<1>4. ASSUME NEW w \in Workers, Stamp(w) \/ Compare(w) \/ Serialise(w) \/ Send(w)
      PROVE  UNCHANGED writes
  BY <1>4 DEF Stamp, Compare, Serialise, Send
<1>5. ASSUME NEW w \in Requests, Arrive(w) PROVE UNCHANGED writes
  BY <1>5 DEF Arrive, NotFound, Create, Patch, Look
<1>6. CASE Tick
  BY <1>1, <1>6 DEF Tick, BeginScan, Scan, EndScan, BaristaLook, Look
<1>7. CASE TimePasses \/ UNCHANGED vars
  BY <1>1, <1>7 DEF TimePasses, vars
<1> QED
  BY <1>1, <1>3, <1>4, <1>5, <1>6, <1>7 DEF Next, Work

(* A step of one thread, seen by the threads that create orders.           *)
LEMMA FreshStays ==
  ASSUME Inv, NEW w \in Workers, \A v \in Workers : Fresh(v),
         \A v \in Workers \ {w} : pc'[v] = pc[v] /\ order'[v] = order[v] /\ want'[v] = want[v],
         \A o \in Orders : o # order[w] => writes'[o] = writes[o],
         \/ order'[w] = order[w] /\ (writes'[order[w]] = writes[order[w]] \/ pc[w] \in Has)
         \/ order'[w] = Absent /\ UNCHANGED writes
         \/ order'[w] \in Orders /\ writes[order'[w]] # <<>> /\ UNCHANGED writes
         \/ (\A v \in Workers : order[v] # order'[w]) /\ UNCHANGED writes,
         Fresh(w)'
  PROVE  \A v \in Workers : Fresh(v)'
<1> SUFFICES ASSUME NEW v \in Workers \ {w} PROVE Fresh(v)'
  OBVIOUS
<1>1. pc'[v] = pc[v] /\ order'[v] = order[v] /\ want'[v] = want[v] /\ Fresh(v)
  OBVIOUS
<1>2. CASE pc[v] \in {"new", "stamped"}
  <2>1. order[v] \in Orders /\ order[v] # order[w] /\ writes[order[v]] = <<>>
    BY <1>1, <1>2 DEF Inv, Sane, Has, Fresh
  <2>2. writes'[order[v]] = <<>>
    BY <2>1
  <2>3. order'[w] # order[v]
    BY <2>1, JavaAssumption
  <2>4. \A u \in Workers \ {v} : order'[u] # order'[v]
    BY <1>1, <1>2, <2>3 DEF Fresh
  <2> QED
    BY <1>1, <2>2, <2>4 DEF Fresh
<1>3. CASE pc[v] \notin {"new", "stamped"}
  BY <1>1, <1>3 DEF Fresh
<1> QED
  BY <1>2, <1>3

(* A step that writes nothing, seen by the threads that have written.      *)
LEMMA OwnWritesStay ==
  ASSUME \A v \in Workers : OwnWrite(v), UNCHANGED writes,
         \A v \in Workers : pc'[v] \in AfterWrite =>
           /\ pc[v] \in AfterWrite /\ order'[v] = order[v]
           /\ want'[v] = want[v] /\ slot'[v] = slot[v]
  PROVE  \A v \in Workers : OwnWrite(v)'
BY DEF OwnWrite

(* A step the barista does not take, or that leaves his choice alone.      *)
LEMMA ChoiceStays ==
  ASSUME Inv, ChoiceWasRight, \A o \in Orders : Grows(o),
         UNCHANGED <<picked, best>>, want'[Barista] = want[Barista],
         order'[Barista] = order[Barista],
         \/ pc'[Barista] = pc[Barista]
         \/ pc[Barista] \in {"picked"} \cup Holding /\ pc'[Barista] \in Holding
  PROVE  ChoiceWasRight'
<1>1. ASSUME NEW o \in Orders, ChosenAt(o) PROVE ChosenAt(o)'
  <2>1. Len(writes[o]) \in Nat /\ picked \in Nat
    BY WriteAt DEF Inv, TypeOK
  <2> QED
    BY <1>1, <2>1 DEF ChosenAt, From, Grows
<1>2. best # Absent => best \in Orders
  BY DEF Inv, TypeOK
<1>3. pc[Barista] \in {"picked"} \cup Holding => order[Barista] \in Orders
  BY BaristaIsAWorker DEF Inv, Sane, Has
<1>4. pc[Barista] = "scan" /\ best # Absent => ChosenAt(best)'
  BY <1>1, <1>2 DEF ChoiceWasRight
<1>5. pc[Barista] \in {"picked"} \cup Holding => ChosenAt(order[Barista])'
  BY <1>1, <1>3 DEF ChoiceWasRight
<1>6. UNCHANGED <<picked, best, From>>
  BY DEF From
<1> QED
  BY <1>4, <1>5, <1>6 DEF ChoiceWasRight, ChosenAt, Holding, AfterWrite

(* setStatus and create.                                                   *)
LEMMA MoreWhenWritten ==
  ASSUME Inv, More, \A o \in Orders : Grows(o), NEW w \in Workers,
         pc[w] \in {"read", "stamped"}, Wrote(w, want[w]), pc' = [pc EXCEPT ![w] = "changed"],
         UNCHANGED <<order, want, best, picked>>
  PROVE  More'
<1> DEFINE o == order[w]
           n == Len(writes[o])
           e == [status |-> want[w], base |-> base[w]]
<1>0. TypeOK /\ Sane(w) /\ o \in Orders /\ e \in Write
  BY DEF Inv, TypeOK, Sane, Has, Holding, Write
<1>1. /\ writes'[o] = Append(writes[o], e) /\ slot'[w] = n + 1 /\ pc'[w] = "changed"
      /\ \A p \in Orders : p # o => writes'[p] = writes[p]
      /\ \A v \in Workers : v # w => pc'[v] = pc[v] /\ slot'[v] = slot[v]
  BY <1>0 DEF Wrote, TypeOK
<1> HIDE DEF e
<1>2. n \in Nat /\ writes'[o][n + 1] = e
  BY <1>0, <1>1, AppendGrows, WriteAt
<1>3. \A v \in Workers : Fresh(v)'
  <2>1. Fresh(w)'
    BY <1>1 DEF Fresh
  <2>2. \A v \in Workers \ {w} : pc'[v] = pc[v] /\ order'[v] = order[v] /\ want'[v] = want[v]
    BY <1>1
  <2>3. pc[w] \in Has /\ order'[w] = order[w]
    BY DEF Has, Holding
  <2> QED
    BY <1>1, <2>1, <2>2, <2>3, FreshStays DEF More
<1>4. ASSUME NEW v \in Workers, pc'[v] \in AfterWrite PROVE OwnWrite(v)'
  <2>1. ASSUME NEW u \in Workers \ {w}, pc[u] \in AfterWrite
        PROVE  /\ order[u] \in Orders /\ slot[u] \in 1..Len(writes[order[u]])
               /\ writes'[order[u]][slot[u]].status = want[u] /\ slot'[u] = slot[u]
    <3>1. order[u] \in Orders /\ slot[u] \in 1..Len(writes[order[u]])
      BY <2>1 DEF Inv, Sane, Has, Holding
    <3>2. writes'[order[u]][slot[u]] = writes[order[u]][slot[u]]
      BY <3>1 DEF Grows
    <3> QED
      BY <1>1, <2>1, <3>1, <3>2 DEF More, OwnWrite
  <2>2. \A u \in Workers \ {w} : pc[u] \in AfterWrite /\ order[u] = o => slot'[u] # slot'[w]
    BY <1>1, <1>2, <2>1
  <2>3. CASE v = w
    <3>1. writes'[o][slot'[w]].status = want[w]
      BY <1>1, <1>2 DEF e
    <3> QED
      BY <1>1, <2>2, <2>3, <3>1 DEF OwnWrite
  <2>4. CASE v # w
    <3>1. pc[v] \in AfterWrite
      BY <1>1, <1>4, <2>4
    <3>2. writes'[order[v]][slot'[v]].status = want[v]
      BY <2>1, <2>4, <3>1
    <3>3. ASSUME NEW u \in Workers \ {v}, pc'[u] \in AfterWrite, order[u] = order[v]
          PROVE  slot'[u] # slot'[v]
      <4>1. CASE u = w
        BY <2>2, <2>4, <3>1, <3>3, <4>1
      <4>2. CASE u # w
        BY <1>1, <2>4, <3>1, <3>3, <4>2 DEF More, OwnWrite
      <4> QED
        BY <4>1, <4>2
    <3> QED
      BY <3>2, <3>3 DEF OwnWrite
  <2> QED
    BY <2>3, <2>4
<1>5. \A v \in Workers : OwnWrite(v)'
  BY <1>4 DEF OwnWrite
<1>6. ChoiceWasRight'
  <2>1. \/ pc'[Barista] = pc[Barista]
        \/ pc[Barista] = "read" /\ pc'[Barista] = "changed"
    <3>1. pc[Barista] # "stamped"
      BY DEF More, ChoiceWasRight
    <3>2. CASE w = Barista
      BY <1>1, <3>1, <3>2
    <3>3. CASE w # Barista
      BY <1>1, <3>3, BaristaIsAWorker
    <3> QED
      BY <3>2, <3>3
  <2> QED
    <3>1. ChoiceWasRight /\ want'[Barista] = want[Barista] /\ order'[Barista] = order[Barista]
      BY DEF More
    <3>2. \/ pc'[Barista] = pc[Barista]
          \/ pc[Barista] \in {"picked"} \cup Holding /\ pc'[Barista] \in Holding
      BY <2>1 DEF Holding, AfterWrite
    <3> QED
      BY <3>1, <3>2, ChoiceStays
<1> QED
  BY <1>3, <1>5, <1>6 DEF More

(* The end of a call.                                                      *)
LEMMA MoreWhenReturned ==
  ASSUME Inv, More, UNCHANGED writes, NEW w \in Workers, Return(w)
  PROVE  More'
<1>0. TypeOK /\ \A o \in Orders : Grows(o)
  BY SameGrows DEF Inv
<1>1. /\ pc'[w] \in {"done", "second", "idle"} /\ want'[w] = "PENDING" /\ order'[w] = Absent
      /\ \A v \in Workers \ {w} : /\ pc'[v] = pc[v] /\ order'[v] = order[v]
                                  /\ want'[v] = want[v] /\ slot'[v] = slot[v]
      /\ UNCHANGED best
  BY <1>0 DEF TypeOK, Return, Goto, After
<1>2. \A v \in Workers : Fresh(v)'
  BY <1>1, FreshStays DEF More, Fresh
<1>3. \A v \in Workers : OwnWrite(v)'
  BY <1>1, OwnWritesStay DEF More, AfterWrite
<1>4. CASE w = Barista
  BY <1>1, <1>2, <1>3, <1>4 DEF More, ChoiceWasRight, Holding, AfterWrite
<1>5. CASE w # Barista
  <2>1. UNCHANGED <<picked, best>>
    BY <1>1, <1>5 DEF Return
  <2>2. pc'[Barista] = pc[Barista] /\ order'[Barista] = order[Barista] /\ want'[Barista] = want[Barista]
    BY <1>1, <1>5, BaristaIsAWorker
  <2> QED
    BY <1>0, <1>2, <1>3, <2>1, <2>2, ChoiceStays DEF More
<1> QED
  BY <1>4, <1>5

(* A step within a call that neither writes nor returns.                   *)
LEMMA MoreWithinACall ==
  ASSUME Inv, More, NEW w \in Workers,
         \/ pc[w] = "new" /\ pc'[w] = "stamped"
         \/ pc[w] \in AfterWrite /\ pc'[w] \in AfterWrite,
         \A v \in Workers \ {w} : pc'[v] = pc[v],
         UNCHANGED <<writes, order, want, slot, best, picked>>
  PROVE  More'
<1>0. TypeOK /\ \A o \in Orders : Grows(o)
  BY SameGrows DEF Inv
<1>1. Fresh(w)'
  BY DEF More, Fresh, AfterWrite
<1>2. \A v \in Workers : Fresh(v)'
  BY <1>1, FreshStays DEF More
<1>3. \A v \in Workers : OwnWrite(v)'
  BY OwnWritesStay DEF More, AfterWrite
<1>4. ChoiceWasRight'
  <2>1. \/ pc'[Barista] = pc[Barista]
        \/ pc[Barista] \in AfterWrite /\ pc'[Barista] \in AfterWrite
    BY BaristaIsAWorker DEF More, ChoiceWasRight
  <2> QED
    BY <1>0, <2>1, ChoiceStays DEF More, Holding
<1> QED
  BY <1>2, <1>3, <1>4 DEF More

(* The steps of an update.                                                 *)
LEMMA MoreWork ==
  ASSUME Inv, More, [Next]_vars, NEW w \in Workers, Work(w)
  PROVE  More'
<1>0. TypeOK /\ \A o \in Orders : Grows(o)
  BY HistoriesGrow DEF Inv
<1>1. CASE SetField(w)
  BY <1>0, <1>1, MoreWhenWritten DEF SetField, Goto
<1>2. CASE Put(w)
  <2>1. want[w] = "PENDING"
    BY <1>2 DEF More, Fresh, Put
  <2> QED
    BY <1>0, <1>2, <2>1, MoreWhenWritten DEF Put, Goto
<1>3. CASE Stamp(w)
  BY <1>0, <1>3, MoreWithinACall DEF Stamp, Goto, TypeOK
<1>4. CASE Compare(w)
  <2>1. CASE Return(w)
    BY <1>4, <2>1, MoreWhenReturned DEF Compare
  <2>2. CASE Goto(w, "announcing") /\ UNCHANGED local
    BY <1>0, <1>4, <2>2, MoreWithinACall DEF Compare, Goto, TypeOK, local, AfterWrite
  <2> QED
    BY <1>4, <2>1, <2>2 DEF Compare
<1>5. CASE Serialise(w)
  BY <1>0, <1>5, MoreWithinACall DEF Serialise, Goto, TypeOK, AfterWrite
<1>6. CASE Send(w)
  BY <1>6, MoreWhenReturned DEF Send
<1> QED
  BY <1>1, <1>2, <1>3, <1>4, <1>5, <1>6 DEF Work

(* find and getStatus.                                                     *)
LEMMA MoreWhenLooked ==
  ASSUME Inv, More, NEW w \in Workers, pc[w] \in {"idle", "picked"},
         w = Barista => pc[w] = "picked",
         NEW o \in Orders, writes[o] # <<>>, NEW s \in Status, Look(w, o, s),
         w = Barista => o = order[w] /\ s = want[w]
  PROVE  More'
<1>0. TypeOK /\ \A p \in Orders : Grows(p)
  BY SameGrows DEF Inv, Look
<1>1. /\ pc'[w] = "read" /\ order'[w] = o /\ want'[w] = s
      /\ \A v \in Workers \ {w} : /\ pc'[v] = pc[v] /\ order'[v] = order[v]
                                  /\ want'[v] = want[v] /\ slot'[v] = slot[v]
      /\ UNCHANGED <<writes, best, picked>>
  BY <1>0 DEF TypeOK, Look, Goto
<1>2. Fresh(w)'
  BY <1>1 DEF Fresh
<1>3. \A v \in Workers : Fresh(v)'
  BY <1>1, <1>2, FreshStays DEF More
<1>4. \A v \in Workers : OwnWrite(v)'
  BY <1>1, OwnWritesStay DEF More, AfterWrite
<1>5. ChoiceWasRight'
  <2>1. want'[Barista] = want[Barista] /\ order'[Barista] = order[Barista]
    BY <1>1, BaristaIsAWorker
  <2>2. \/ pc'[Barista] = pc[Barista]
        \/ pc[Barista] \in {"picked"} \cup Holding /\ pc'[Barista] \in Holding
    BY <1>1, BaristaIsAWorker DEF Holding
  <2> QED
    BY <1>0, <1>1, <2>1, <2>2, ChoiceStays DEF More
<1> QED
  BY <1>3, <1>4, <1>5 DEF More

(* The requests that arrive.                                               *)
LEMMA MoreArrive ==
  ASSUME Inv, More, NEW w \in Requests, Arrive(w)
  PROVE  More'
<1>0. TypeOK /\ w \in Workers /\ w # Barista
  BY JavaAssumption DEF Inv, Workers
<1>1. CASE NotFound(w)
  <2>1. /\ pc'[w] = "done" /\ \A v \in Workers \ {w} : pc'[v] = pc[v]
        /\ UNCHANGED <<writes, local>>
    BY <1>0, <1>1 DEF NotFound, Goto, TypeOK
  <2>2. UNCHANGED <<writes, order, want, slot, best, picked>>
    BY <2>1 DEF local
  <2>3. Fresh(w)'
    BY <2>1 DEF Fresh
  <2>4. \A v \in Workers : Fresh(v)'
    BY <1>0, <2>1, <2>2, <2>3, FreshStays DEF More
  <2>5. \A v \in Workers : OwnWrite(v)'
    BY <2>1, <2>2, OwnWritesStay DEF More, AfterWrite
  <2>6. ChoiceWasRight'
    BY <1>0, <2>1, <2>2, BaristaIsAWorker, SameGrows, ChoiceStays DEF More
  <2> QED
    BY <2>4, <2>5, <2>6 DEF More
<1>2. ASSUME NEW o \in Orders, Create(w, o) PROVE More'
  <2>1. /\ pc[w] = "idle" /\ pc'[w] = "new" /\ order'[w] = o
        /\ \A v \in Workers \ {w} : pc'[v] = pc[v] /\ order'[v] = order[v]
        /\ \A v \in Workers : order[v] # o
        /\ UNCHANGED <<writes, want, slot, best, picked>>
    BY <1>0, <1>2 DEF Create, Goto, TypeOK
  <2>2. writes[o] = <<>>
    <3>1. heap[o] = Absent
      BY <1>2 DEF Create
    <3> QED
      BY <3>1, JavaAssumption DEF Inv, HeapIsLastWritten
  <2>3. Fresh(w)'
    <3>1. want[w] = "PENDING"
      BY <1>0, <2>1 DEF More, Fresh
    <3>2. \A v \in Workers \ {w} : order'[v] # order'[w]
      BY <2>1
    <3> QED
      BY <2>1, <2>2, <3>1, <3>2 DEF Fresh
  <2>4. \A v \in Workers : Fresh(v)'
    BY <1>0, <2>1, <2>3, FreshStays DEF More
  <2>5. \A v \in Workers : OwnWrite(v)'
    BY <2>1, OwnWritesStay DEF More, AfterWrite
  <2>6. ChoiceWasRight'
    <3>1. /\ pc'[Barista] = pc[Barista] /\ order'[Barista] = order[Barista]
          /\ want'[Barista] = want[Barista] /\ \A p \in Orders : Grows(p)
      BY <1>0, <2>1, BaristaIsAWorker, SameGrows
    <3> QED
      BY <2>1, <3>1, ChoiceStays DEF More
  <2> QED
    BY <2>4, <2>5, <2>6 DEF More
<1>3. ASSUME NEW o \in Orders, NEW s \in Status, Patch(w, o, s) PROVE More'
  BY <1>0, <1>3, InTheMap, MoreWhenLooked DEF Patch
<1> QED
  BY <1>1, <1>2, <1>3 DEF Arrive

(* The barista's tick.                                                     *)
LEMMA MoreTick ==
  ASSUME Inv, More, Tick
  PROVE  More'
<1> DEFINE b == Barista
<1> USE BaristaIsAWorker
<1>0. TypeOK /\ Sane(b) /\ ChoiceWasRight
  BY DEF Inv, More
<1>1. ASSUME NEW at \in {"idle", "second"}, NEW to \in {"READY", "BREWING"}, BeginScan(at, to)
      PROVE  More'
  <2>1. /\ pc'[b] = "scan" /\ want'[b] = to /\ best' = Absent
        /\ \A v \in Workers \ {b} : pc'[v] = pc[v] /\ want'[v] = want[v]
        /\ UNCHANGED <<writes, order, slot, picked>>
    BY <1>0, <1>1 DEF BeginScan, Goto, TypeOK
  <2>2. Fresh(b)'
    BY <2>1 DEF Fresh
  <2>3. \A v \in Workers : Fresh(v)'
    BY <2>1, <2>2, FreshStays DEF More
  <2>4. \A v \in Workers : OwnWrite(v)'
    BY <2>1, OwnWritesStay DEF More, AfterWrite
  <2>5. ChoiceWasRight'
    <3>1. /\ pc'[b] \notin {"new", "stamped", "picked"} \cup Holding
          /\ want'[b] \in {"READY", "BREWING"} /\ best' = Absent
      BY <2>1 DEF Holding, AfterWrite
    <3> QED
      BY <3>1 DEF ChoiceWasRight
  <2> QED
    BY <2>3, <2>4, <2>5 DEF More
<1>2. ASSUME NEW o \in Orders, Scan(o) PROVE More'
  <2>1. pc[b] = "scan" /\ UNCHANGED <<writes, pc, order, want, slot>>
    BY <1>2 DEF Scan
  <2>2. (\A v \in Workers : Fresh(v))' /\ (\A v \in Workers : OwnWrite(v))'
    <3>1. (\A v \in Workers : Fresh(v))'
      BY <2>1 DEF More, Fresh
    <3>2. (\A v \in Workers : OwnWrite(v))'
      BY <2>1 DEF More, OwnWrite
    <3> QED
      BY <3>1, <3>2
  <2>3. CASE UNCHANGED <<best, picked>>
    <3>1. ChoiceWasRight'
      BY <1>0, <2>1, <2>3 DEF ChoiceWasRight, ChosenAt, From
    <3> QED
      BY <2>2, <3>1 DEF More
  <2>4. CASE heap[o].status = From /\ best' = o /\ picked' = Len(writes[o])
    <3>1. writes[o] # <<>> /\ writes[o] \in Seq(Write) /\ Len(writes[o]) \in Nat
      BY <1>0, <1>2, WriteAt DEF Inv, ScanSeesOrders, Scan
    <3>2. picked' \in 1..Len(writes[o])
      BY <2>4, <3>1
    <3>3. writes[o][picked'].status = From
      BY <2>4, <3>1 DEF Inv, HeapIsLastWritten
    <3>4. ChosenAt(o)'
      BY <2>1, <3>2, <3>3 DEF ChosenAt, From
    <3>5. ChosenAt(best)'
      BY <2>4, <3>4 DEF ChosenAt
    <3> QED
      BY <1>0, <2>1, <2>2, <3>5 DEF More, ChoiceWasRight, Holding, AfterWrite
  <2>5. UNCHANGED <<best, picked>> \/ (heap[o].status = From /\ best' = o /\ picked' = Len(writes[o]))
    BY <1>2 DEF Scan
  <2> QED
    BY <2>2, <2>3, <2>4, <2>5 DEF More
<1>3. CASE EndScan
  <2>1. CASE best = Absent
    BY <1>3, <2>1, MoreWhenReturned DEF EndScan
  <2>2. CASE best # Absent
    <3>1. /\ pc[b] = "scan" /\ pc'[b] = "picked" /\ order'[b] = best
          /\ \A v \in Workers \ {b} : pc'[v] = pc[v] /\ order'[v] = order[v]
          /\ UNCHANGED <<writes, want, slot, picked>>
      BY <1>0, <1>3, <2>2 DEF EndScan, Goto, TypeOK
    <3>2. best \in Orders /\ writes[best] # <<>>
      BY <1>0, <2>2 DEF Inv, TypeOK, ScanSeesOrders
    <3>3. Fresh(b)'
      BY <3>1 DEF Fresh
    <3>4. \A v \in Workers : Fresh(v)'
      BY <3>1, <3>2, <3>3, FreshStays DEF More
    <3>5. \A v \in Workers : OwnWrite(v)'
      BY <3>1, OwnWritesStay DEF More, AfterWrite
    <3>6. ChosenAt(order[b])'
      BY <1>0, <2>2, <3>1 DEF ChoiceWasRight, ChosenAt, From
    <3>7. want'[b] \in {"READY", "BREWING"}
      BY <1>0, <3>1 DEF ChoiceWasRight
    <3>8. ChoiceWasRight'
      BY <3>1, <3>6, <3>7 DEF ChoiceWasRight
    <3> QED
      BY <3>4, <3>5, <3>8 DEF More
  <2> QED
    BY <2>1, <2>2
<1>4. CASE BaristaLook
  <2>1. order[b] \in Orders /\ writes[order[b]] # <<>> /\ want[b] \in Status
    BY <1>0, <1>4 DEF BaristaLook, Sane, Has, TypeOK
  <2> QED
    BY <1>4, <2>1, MoreWhenLooked DEF BaristaLook
<1> QED
  BY <1>1, <1>2, <1>3, <1>4 DEF Tick

(* All of it is kept.                                                      *)
LEMMA MoreInit == Init => More
BY JavaAssumption, BaristaIsAWorker
DEF Init, More, Fresh, OwnWrite, ChoiceWasRight, Holding, AfterWrite

LEMMA MoreStep == Inv /\ More /\ [Next]_vars => More'
<1> SUFFICES ASSUME Inv, More, [Next]_vars PROVE More'
  OBVIOUS
<1>1. CASE TimePasses \/ UNCHANGED vars
  <2>1. UNCHANGED <<pc, writes, order, want, slot, best, picked>>
    BY <1>1 DEF TimePasses, vars, local
  <2> QED
    BY <2>1 DEF More, Fresh, OwnWrite, ChoiceWasRight, ChosenAt, From
<1> QED
  BY <1>1, MoreWork, MoreArrive, MoreTick DEF Next

LEMMA MoreAlways == Spec => [](Inv /\ More)
BY InvInit, InvStep, MoreInit, MoreStep, PTL DEF Spec

-----------------------------------------------------------------------------
(* The refinement of the atomic store, one order at a time.                *)

\* At most two writers are in the queue of a calm order, the second one only
\* in the state after its write.
LEMMA NobodyInOrder == \A f : InOrder({}, f) = <<>>
BY FS_EmptySet DEF InOrder

LEMMA OneInOrder ==
  ASSUME NEW w, NEW f, f[w] \in Nat
  PROVE  InOrder({w}, f) = <<w>>
<1> DEFINE at(k) == CHOOSE x \in {w} : Cardinality({v \in {w} : f[v] < f[x]}) = k - 1
<1>1. Cardinality({w}) = 1
  BY FS_Singleton
<1>2. {v \in {w} : f[v] < f[w]} = {}
  OBVIOUS
<1>3. Cardinality({v \in {w} : f[v] < f[w]}) = 0
  BY <1>2, FS_EmptySet
<1>4. at(1) = w
  BY <1>3
<1>5. InOrder({w}, f) = [k \in 1..1 |-> at(k)]
  BY <1>1 DEF InOrder
<1> HIDE DEF at
<1> QED
  BY <1>4, <1>5

LEMMA TwoInOrder ==
  ASSUME NEW u, NEW w, NEW f, f[u] \in Nat, f[w] \in Nat, f[u] < f[w]
  PROVE  InOrder({u, w}, f) = <<u, w>>
<1> DEFINE below(x) == {v \in {u, w} : f[v] < f[x]}
           at(k)    == CHOOSE x \in {u, w} : Cardinality(below(x)) = k - 1
<1>1. Cardinality({u, w}) = 2 /\ u # w
  <2>1. u # w
    OBVIOUS
  <2>2. IsFiniteSet({u}) /\ Cardinality({u}) = 1 /\ {u} \cup {w} = {u, w}
    BY FS_Singleton
  <2>3. Cardinality({u} \cup {w}) = 2
    BY <2>1, <2>2, FS_AddElement
  <2> QED
    BY <2>1, <2>2, <2>3
<1>2. below(u) = {} /\ below(w) = {u}
  OBVIOUS
<1>3. Cardinality(below(u)) = 0 /\ Cardinality(below(w)) = 1
  BY <1>2, FS_EmptySet, FS_Singleton
<1>4. InOrder({u, w}, f) = [k \in 1..2 |-> at(k)]
  BY <1>1 DEF InOrder
<1> HIDE DEF below
<1>5. at(1) = u /\ at(2) = w
  BY <1>1, <1>3
<1> HIDE DEF at
<1> QED
  BY <1>4, <1>5

\* What the clients have been told of an order and are owed, as one list.
Line(o) == Told(o) \o Owing(o)

Same(o) == UNCHANGED Promise(o)!vars

\* Nobody's update of the order is disturbed.
Calm(o) == \A w \in Workers : order[w] = o => ~Disturbed(w)

(* What the abstract store can do with one order.                          *)
LEMMA OneChange ==
  ASSUME NEW o \in Orders, NEW s \in Status,
         s # StatusOf(o), StatusOf(o) = Absent => s = "PENDING",
         StatusOf(o)' = s, Line(o)' = Append(Line(o), [prev |-> StatusOf(o), status |-> s])
  PROVE  Promise(o)!Next
<1> DEFINE st == [p \in {o} |-> StatusOf(p)]
           an == [p \in {o} |-> Told(p) \o Owing(p)]
<1>a. st[o] = StatusOf(o) /\ an[o] = Line(o)
  BY DEF Line
<1>b. st' = [st EXCEPT ![o] = s]
  OBVIOUS
<1>c. an' = [an EXCEPT ![o] = Append(an[o], [prev |-> st[o], status |-> s])]
  BY <1>a DEF Line
<1>1. Promise(o)!Change(o, s)
  BY <1>b, <1>c DEF Promise!Change
<1>2. CASE StatusOf(o) = Absent
  BY <1>1, <1>2, <1>a DEF Promise!Next, Promise!Create
<1>3. CASE StatusOf(o) # Absent
  BY <1>1, <1>3, <1>a DEF Promise!Next, Promise!SetStatus, Promise!Status, Status
<1> QED
  BY <1>2, <1>3

LEMMA SameIfUntouched ==
  ASSUME NEW o \in Orders, StatusOf(o)' = StatusOf(o), Line(o)' = Line(o)
  PROVE  Same(o)
BY DEF Same, Line, Promise!vars

(* What is announced has the shape the abstract store gives it.            *)
Word == [prev : Status \cup {Absent}, status : Status]

LEMMA WordsOwed ==
  ASSUME TypeOK, NEW w \in Workers
  PROVE  Owed(w) \in Word
BY DEF Owed, Word, TypeOK

LEMMA WordsTold ==
  ASSUME TypeOK, NEW o \in Orders
  PROVE  Told(o) \in Seq(Word)
<1>1. published[o] \in Seq(Event)
  BY DEF TypeOK
<1>2. ASSUME NEW k \in 1..Len(published[o])
      PROVE  [prev |-> published[o][k].prev, status |-> published[o][k].status] \in Word
  <2>1. published[o][k] \in Event
    BY <1>1
  <2> QED
    BY <2>1 DEF Event, Word
<1> QED
  BY <1>1, <1>2 DEF Told

(* A word that is owed last is added to the line, and told first it stays. *)
LEMMA OneMoreWord ==
  ASSUME NEW s \in Seq(Word), NEW x \in Word, NEW y \in Word
  PROVE  /\ s \o <<>> = s
         /\ s \o <<x>> = Append(s, x)
         /\ Append(s, x) \o <<>> = Append(s, x)
         /\ s \o <<y, x>> = Append(s \o <<y>>, x)
<1>1. s \o <<>> = s /\ Append(s, x) \o <<>> = Append(s, x)
  BY AppendProperties, ConcatEmptySeq
<1>2. s \o <<x>> = Append(s, x)
  OBVIOUS
<1>3. s \o <<y, x>> = Append(s \o <<y>>, x)
  OBVIOUS
<1> QED
  BY <1>1, <1>2, <1>3

(* A calm order has at most one thread that has yet to announce, and that  *)
(* one set the newest status.                                              *)
LEMMA CalmQueue ==
  ASSUME Inv, More, NEW o \in Orders, Calm(o)
  PROVE  \/ Late(o) = {} /\ Owing(o) = <<>>
         \/ \E v \in Workers : /\ Late(o) = {v} /\ Owing(o) = <<Owed(v)>>
                               /\ slot[v] = Len(writes[o])
<1>1. \A v \in Late(o) : /\ v \in Workers /\ pc[v] \in AfterWrite /\ order[v] = o
                         /\ slot[v] = Len(writes[o])
  BY DEF Late, AfterWrite, Calm, Disturbed
<1>2. \A u, v \in Late(o) : u = v
  BY <1>1 DEF More, OwnWrite
<1>3. CASE Late(o) = {}
  BY <1>3, NobodyInOrder DEF Owing
<1>4. ASSUME NEW v \in Late(o)
      PROVE  Late(o) = {v} /\ Owing(o) = <<Owed(v)>>
  <2>1. Late(o) = {v}
    BY <1>2, <1>4
  <2>2. InOrder(Late(o), slot) = <<v>>
    BY <1>1, <2>1, OneInOrder DEF Inv, TypeOK
  <2> QED
    BY <2>1, <2>2 DEF Owing
<1> QED
  BY <1>1, <1>3, <1>4

(* What is owed after a step, when one thread or two are late by then.     *)
LEMMA OneOwed ==
  ASSUME NEW o \in Orders, NEW v \in Workers, Late(o)' = {v}, slot'[v] \in Nat, Owed(v)' = Owed(v)
  PROVE  Owing(o)' = <<Owed(v)>>
<1>1. InOrder({v}, slot') = <<v>>
  BY OneInOrder
<1> QED
  BY <1>1 DEF Owing

LEMMA TwoOwed ==
  ASSUME NEW o \in Orders, NEW v \in Workers, NEW w \in Workers, Late(o)' = {v, w},
         slot'[v] \in Nat, slot'[w] \in Nat, slot'[v] < slot'[w],
         Owed(v)' = Owed(v), Owed(w)' = Owed(w)
  PROVE  Owing(o)' = <<Owed(v), Owed(w)>>
<1>1. InOrder({v, w}, slot') = <<v, w>>
  BY TwoInOrder
<1> QED
  BY <1>1 DEF Owing

(* A step that leaves an order's status, its announcements and its queue   *)
(* alone leaves the abstract store alone.                                  *)
LEMMA QueueStays ==
  ASSUME Inv, More, NEW o \in Orders, Calm(o),
         heap'[o] = heap[o], published'[o] = published[o],
         Late(o)' = Late(o),
         \A v \in Late(o) : Owed(v)' = Owed(v) /\ slot'[v] = slot[v]
  PROVE  Same(o)
<1>1. StatusOf(o)' = StatusOf(o) /\ Told(o)' = Told(o)
  BY DEF StatusOf, Told
<1>2. CASE Late(o) = {} /\ Owing(o) = <<>>
  <2>1. Owing(o)' = <<>>
    BY <1>2, NobodyInOrder DEF Owing
  <2> QED
    BY <1>1, <1>2, <2>1, SameIfUntouched DEF Line
<1>3. ASSUME NEW v \in Workers, Late(o) = {v}, Owing(o) = <<Owed(v)>>
      PROVE  Same(o)
  <2>1. Owing(o)' = <<Owed(v)>>
    BY <1>3, OneOwed DEF Inv, TypeOK
  <2> QED
    BY <1>1, <1>3, <2>1, SameIfUntouched DEF Line
<1> QED
  BY <1>2, <1>3, CalmQueue

(* Setting a status: a change, which is owed from here on, or nothing.     *)
LEMMA WriteIsAChange ==
  ASSUME Inv, More, NEW w \in Workers, order[w] \in Orders, pc[w] \in {"read", "stamped"},
         Wrote(w, want[w]), pc' = [pc EXCEPT ![w] = "changed"],
         UNCHANGED <<published, order, want, previous>>,
         \A p \in Orders : p # order[w] => heap'[p] = heap[p],
         heap'[order[w]] \in Fields, heap'[order[w]].status = want[w],
         NEW o \in Orders, Calm(o),
         o = order[w] => /\ base[w] = Len(writes[o]) /\ StatusOf(o) = previous[w]
                         /\ previous[w] = Absent => want[w] = "PENDING"
  PROVE  Promise(o)!Next \/ Same(o)
<1> DEFINE n == Len(writes[o])
           x == Owed(w)
<1>0. TypeOK
  BY DEF Inv
<1>1. /\ n \in Nat
      /\ pc'[w] = "changed" /\ \A v \in Workers : v # w => pc'[v] = pc[v] /\ slot'[v] = slot[v]
      /\ o = order[w] => slot'[w] = n + 1
  BY <1>0, WriteAt DEF TypeOK, Wrote
<1>2. \A v \in Workers : Owed(v)' = Owed(v)
  BY DEF Owed
<1>3. /\ \A p \in Orders : p = order[w] /\ previous[w] # want[w] => Late(p)' = Late(p) \cup {w}
      /\ \A p \in Orders : p # order[w] \/ previous[w] = want[w] => Late(p)' = Late(p)
  BY <1>1 DEF Late
<1>4. w \notin Late(o)
  BY DEF Late
<1>5. CASE o # order[w]
  <2>1. heap'[o] = heap[o] /\ Late(o)' = Late(o)
    BY <1>3, <1>5
  <2>2. \A v \in Late(o) : Owed(v)' = Owed(v) /\ slot'[v] = slot[v]
    BY <1>1, <1>2, <1>4 DEF Late
  <2> QED
    BY <2>1, <2>2, QueueStays
<1>6. CASE o = order[w]
  <2>1. base[w] = n /\ slot'[w] = n + 1 /\ StatusOf(o) = previous[w]
    BY <1>1, <1>6
  <2>2. want[w] \in Status /\ StatusOf(o)' = want[w]
    BY <1>0, <1>6, JavaAssumption DEF TypeOK, StatusOf
  <2>3. Told(o)' = Told(o) /\ Told(o) \in Seq(Word) /\ x \in Word
    BY <1>0, WordsTold, WordsOwed DEF Told
  <2>4. CASE previous[w] = want[w]
    <3>1. Late(o)' = Late(o)
      BY <1>3, <2>4
    <3>2. CASE Late(o) = {} /\ Owing(o) = <<>>
      <4>1. Owing(o)' = <<>>
        BY <3>1, <3>2, NobodyInOrder DEF Owing
      <4> QED
        BY <2>1, <2>2, <2>3, <2>4, <3>2, <4>1, SameIfUntouched DEF Line
    <3>3. ASSUME NEW v \in Workers, Late(o) = {v}, Owing(o) = <<Owed(v)>>
          PROVE  Same(o)
      <4>1. v # w /\ slot'[v] \in Nat
        BY <1>0, <1>1, <1>4, <3>3 DEF TypeOK
      <4>2. Owing(o)' = <<Owed(v)>>
        BY <1>2, <3>1, <3>3, <4>1, OneOwed
      <4> QED
        BY <2>1, <2>2, <2>3, <2>4, <3>3, <4>2, SameIfUntouched DEF Line
    <3> QED
      BY <3>2, <3>3, CalmQueue
  <2>5. CASE previous[w] # want[w]
    <3>1. Line(o)' = Append(Line(o), x)
      <4>1. CASE Late(o) = {} /\ Owing(o) = <<>>
        <5>1. Late(o)' = {w}
          BY <1>3, <1>6, <2>5, <4>1
        <5>2. slot'[w] \in Nat
          BY <1>1, <2>1
        <5>3. Owing(o)' = <<x>>
          BY <1>2, <5>1, <5>2, OneOwed
        <5> QED
          BY <2>3, <4>1, <5>3, OneMoreWord DEF Line
      <4>2. ASSUME NEW v \in Workers, Late(o) = {v}, Owing(o) = <<Owed(v)>>, slot[v] = n
            PROVE  Line(o)' = Append(Line(o), x)
        <5>1. v # w /\ Late(o)' = {v, w}
          BY <1>3, <1>4, <1>6, <2>5, <4>2
        <5>2. slot'[v] = n /\ slot'[w] = n + 1
          BY <1>1, <2>1, <4>2, <5>1
        <5>3. slot'[v] \in Nat /\ slot'[w] \in Nat /\ slot'[v] < slot'[w]
          BY <1>1, <5>2
        <5>4. Owing(o)' = <<Owed(v), x>>
          BY <1>2, <5>1, <5>3, TwoOwed
        <5> QED
          BY <1>0, <2>3, <4>2, <5>4, OneMoreWord, WordsOwed DEF Line
      <4> QED
        BY <4>1, <4>2, CalmQueue
    <3>2. x = [prev |-> StatusOf(o), status |-> want[w]]
      BY <2>1 DEF Owed
    <3> QED
      BY <1>6, <2>1, <2>2, <2>5, <3>1, <3>2, OneChange
  <2> QED
    BY <2>4, <2>5
<1> QED
  BY <1>5, <1>6

(* setStatus of a calm order: the thread had read the status there is.     *)
LEMMA SetFieldIsAChange ==
  ASSUME Inv, More, NEW w \in Workers, SetField(w), NEW o \in Orders, Calm(o)
  PROVE  Promise(o)!Next \/ Same(o)
<1> DEFINE p == order[w]
<1>0. TypeOK /\ Sane(w)
  BY DEF Inv
<1>1. p \in Orders /\ writes[p] # <<>> /\ pc[w] = "read"
  BY <1>0 DEF SetField, Sane, Has, Holding
<1>2. /\ heap[p] \in Fields /\ heap[p].status \in Status /\ want[w] \in Status
      /\ heap[p].status = writes[p][Len(writes[p])].status
  BY <1>0, <1>1, InTheMap DEF TypeOK, Inv, HeapIsLastWritten
<1>3. /\ \A q \in Orders : q # p => heap'[q] = heap[q]
      /\ heap'[p] \in Fields /\ heap'[p].status = want[w]
  <2>1. /\ \A q \in Orders : q # p => heap'[q] = heap[q]
        /\ heap'[p] = [heap[p] EXCEPT !.status = want[w]]
    BY <1>0, <1>1 DEF SetField, TypeOK
  <2> QED
    BY <1>2, <2>1 DEF Fields
<1>4. /\ Wrote(w, want[w]) /\ pc' = [pc EXCEPT ![w] = "changed"]
      /\ UNCHANGED <<published, order, want, previous>>
  BY DEF SetField, Goto
<1>5. Len(writes[p]) \in Nat /\ Len(writes[p]) # 0
  BY <1>0, <1>1, WriteAt
<1>6. o = p => /\ base[w] = Len(writes[p]) /\ StatusOf(p) = previous[w]
               /\ previous[w] # Absent
  <2> SUFFICES ASSUME o = p
               PROVE  /\ base[w] = Len(writes[p]) /\ StatusOf(p) = previous[w]
                      /\ previous[w] # Absent
    OBVIOUS
  <2>1. base[w] = Len(writes[p])
    BY <1>1 DEF Calm, Disturbed
  <2>2. previous[w] = writes[p][Len(writes[p])].status
    BY <1>0, <1>1, <1>5, <2>1 DEF Sane, Holding
  <2> QED
    BY <1>2, <2>1, <2>2, AbsentAssumption, JavaAssumption DEF StatusOf
<1> QED
  BY <1>1, <1>3, <1>4, <1>6, WriteIsAChange

(* create: the first status of an order nobody else has.                   *)
LEMMA PutIsAChange ==
  ASSUME Inv, More, NEW w \in Workers, Put(w), NEW o \in Orders, Calm(o)
  PROVE  Promise(o)!Next \/ Same(o)
<1> DEFINE p == order[w]
<1>0. TypeOK /\ Sane(w) /\ Fresh(w)
  BY DEF Inv, More
<1>1. /\ p \in Orders /\ pc[w] = "stamped" /\ base[w] = 0 /\ previous[w] = Absent
      /\ want[w] = "PENDING" /\ writes[p] = <<>>
  BY <1>0 DEF Put, Sane, Fresh, Has, Holding, AfterWrite
<1>2. NewOrder(w) \in Fields /\ NewOrder(w).status = "PENDING"
  BY <1>0 DEF NewOrder, Fields, TypeOK, Status
<1>3. /\ \A q \in Orders : q # p => heap'[q] = heap[q]
      /\ heap'[p] \in Fields /\ heap'[p].status = want[w]
  BY <1>0, <1>1, <1>2 DEF Put, TypeOK
<1>4. /\ Wrote(w, want[w]) /\ pc' = [pc EXCEPT ![w] = "changed"]
      /\ UNCHANGED <<published, order, want, previous>>
  BY <1>1 DEF Put, Goto
<1>5. Len(writes[p]) = 0 /\ StatusOf(p) = Absent
  BY <1>1 DEF Inv, HeapIsLastWritten, StatusOf
<1> QED
  BY <1>1, <1>3, <1>4, <1>5, WriteIsAChange

(* A thread that has not been disturbed finds its own status in the order, *)
(* and the barista finds that he has changed it.                           *)
LEMMA FindsItsOwn ==
  ASSUME Inv, More, NEW w \in Workers, pc[w] \in AfterWrite, ~Disturbed(w)
  PROVE  /\ heap[order[w]].status = want[w]
         /\ w = Barista => previous[w] # want[w]
<1> DEFINE o == order[w]
<1>1. o \in Orders /\ slot[w] = Len(writes[o]) /\ slot[w] \in 1..Len(writes[o])
  BY DEF Inv, Sane, Has, Holding, Disturbed
<1>2. writes[o][slot[w]].status = want[w]
  BY DEF More, OwnWrite
<1>3. heap[o].status = writes[o][Len(writes[o])].status
  BY <1>1 DEF Inv, HeapIsLastWritten
<1>4. ASSUME w = Barista PROVE previous[w] # want[w]
  <2>1. base[w] = picked /\ ChosenAt(o) /\ want[w] \in {"READY", "BREWING"}
    BY <1>4 DEF Disturbed, More, ChoiceWasRight, Holding
  <2>2. previous[w] = IF base[w] = 0 THEN Absent ELSE writes[o][base[w]].status
    BY DEF Inv, Sane, Holding
  <2>3. previous[w] = From
    BY <2>1, <2>2 DEF ChosenAt
  <2> QED
    BY <1>4, <2>1, <2>3 DEF From
<1> QED
  BY <1>1, <1>2, <1>3, <1>4

(* Deciding whether to announce: the queue is the same before and after.   *)
LEMMA CompareShowsNothing ==
  ASSUME Inv, More, NEW w \in Workers, Compare(w), NEW o \in Orders, Calm(o)
  PROVE  Same(o)
<1>0. TypeOK /\ pc[w] = "changed" /\ UNCHANGED <<heap, published>>
  BY DEF Inv, Compare
<1>1. order[w] = o =>
        /\ Noteworthy(w) <=> previous[w] # want[w]
        /\ w \in Late(o) <=> previous[w] # want[w]
  <2> SUFFICES ASSUME order[w] = o
               PROVE  Noteworthy(w) <=> previous[w] # want[w]
    BY <1>0 DEF Late
  <2> QED
    BY <1>0, FindsItsOwn DEF Calm, AfterWrite, Noteworthy
<1>2. CASE Noteworthy(w)
  <2>1. /\ pc'[w] = "announcing" /\ \A v \in Workers \ {w} : pc'[v] = pc[v]
        /\ UNCHANGED <<order, want, previous, slot>>
    BY <1>0, <1>2 DEF Compare, Goto, local, TypeOK
  <2>2. Late(o)' = Late(o)
    BY <1>0, <1>1, <1>2, <2>1 DEF Late
  <2>3. \A v \in Late(o) : Owed(v)' = Owed(v) /\ slot'[v] = slot[v]
    BY <2>1 DEF Owed
  <2> QED
    BY <1>0, <2>2, <2>3, QueueStays
<1>3. CASE ~Noteworthy(w)
  <2>1. /\ Return(w) /\ w \notin Late(o)
    BY <1>1, <1>3 DEF Compare, Late
  <2>2. /\ pc'[w] \in {"done", "second", "idle"}
        /\ \A v \in Workers \ {w} : /\ pc'[v] = pc[v] /\ order'[v] = order[v]
                                    /\ want'[v] = want[v] /\ previous'[v] = previous[v]
                                    /\ slot'[v] = slot[v]
    BY <1>0, <2>1 DEF Return, After, Goto, TypeOK
  <2>3. Late(o)' = Late(o)
    BY <2>1, <2>2 DEF Late
  <2>4. \A v \in Late(o) : Owed(v)' = Owed(v) /\ slot'[v] = slot[v]
    BY <2>1, <2>2 DEF Owed, Late
  <2> QED
    BY <1>0, <2>3, <2>4, QueueStays
<1> QED
  BY <1>2, <1>3

(* Sending: what was owed has been told, and in the words it was owed in.  *)
LEMMA SendingShowsNothing ==
  ASSUME Inv, More, NEW w \in Workers, Send(w), NEW o \in Orders, Calm(o)
  PROVE  Same(o)
<1> DEFINE e == [prev |-> previous[w], status |-> body[w], of |-> slot[w], at |-> seen[w]]
<1>0. TypeOK /\ Sane(w)
  BY DEF Inv
<1>1. /\ order[w] \in Orders /\ pc[w] = "serialised" /\ Return(w) /\ UNCHANGED <<heap, writes>>
      /\ published' = [published EXCEPT ![order[w]] = Append(@, e)]
  BY <1>0 DEF Send, Sane, Has, Holding, AfterWrite
<1>2. /\ pc'[w] \in {"done", "second", "idle"}
      /\ \A v \in Workers \ {w} : /\ pc'[v] = pc[v] /\ order'[v] = order[v]
                                  /\ want'[v] = want[v] /\ previous'[v] = previous[v]
                                  /\ slot'[v] = slot[v]
  BY <1>0, <1>1 DEF Return, After, Goto, TypeOK
<1>3. Late(o)' = Late(o) \ {w}
  BY <1>2 DEF Late
<1>4. CASE o # order[w]
  <2>1. published'[o] = published[o] /\ heap'[o] = heap[o]
    BY <1>0, <1>1, <1>4 DEF TypeOK
  <2>2. Late(o)' = Late(o)
    BY <1>3, <1>4 DEF Late
  <2>3. \A v \in Late(o) : Owed(v)' = Owed(v) /\ slot'[v] = slot[v]
    BY <1>2, <1>4 DEF Owed, Late
  <2> QED
    BY <2>1, <2>2, <2>3, QueueStays
<1>5. CASE o = order[w]
  <2>1. w \in Late(o)
    BY <1>1, <1>5 DEF Late
  <2>2. Late(o) = {w} /\ Owing(o) = <<Owed(w)>>
    BY <2>1, CalmQueue
  <2>3. Owing(o)' = <<>>
    <3>1. Late(o)' = {}
      BY <1>3, <2>2
    <3> QED
      BY <3>1, NobodyInOrder DEF Owing
  <2>4. body[w] = want[w]
    <3>1. slot[w] = Len(writes[o]) /\ slot[w] \in Nat /\ seen[w] \in slot[w]..Len(writes[o])
      BY <1>0, <1>1, <1>5 DEF Calm, Disturbed, AfterWrite, Sane, TypeOK
    <3>2. seen[w] = slot[w]
      BY <3>1
    <3>3. body[w] = writes[o][slot[w]].status
      BY <1>0, <1>1, <1>5, <3>2 DEF Sane
    <3> QED
      BY <1>1, <1>5, <3>3 DEF More, OwnWrite, AfterWrite
  <2>5. Told(o)' = Append(Told(o), Owed(w))
    <3>1. published[o] \in Seq(Event) /\ e \in Event
      BY <1>0 DEF TypeOK, Event
    <3>2. e.prev = previous[w] /\ e.status = want[w]
      BY <2>4
    <3>3. published'[o] = Append(published[o], e)
      BY <1>0, <1>1, <1>5 DEF TypeOK
    <3> HIDE DEF e
    <3> QED
      BY <3>1, <3>2, <3>3, AppendKeeps DEF Told, Owed
  <2>6. StatusOf(o)' = StatusOf(o)
    BY <1>1 DEF StatusOf
  <2>7. Told(o) \in Seq(Word) /\ Owed(w) \in Word
    BY <1>0, WordsTold, WordsOwed
  <2>8. Line(o) = Append(Told(o), Owed(w))
    BY <2>2, <2>7, OneMoreWord DEF Line
  <2>9. Line(o)' = Append(Told(o), Owed(w)) \o <<>>
    BY <2>3, <2>5 DEF Line
  <2> QED
    BY <2>6, <2>7, <2>8, <2>9, OneMoreWord, SameIfUntouched
<1> QED
  BY <1>4, <1>5

(* A step that neither writes, nor decides, nor sends.                     *)
LEMMA OtherShowsNothing ==
  ASSUME Inv, More, UNCHANGED <<heap, published, slot>>,
         \A v \in Workers : pc'[v] \in AfterWrite <=> pc[v] \in AfterWrite,
         \A v \in Workers : pc[v] \in AfterWrite =>
           /\ pc'[v] = "changed" <=> pc[v] = "changed"
           /\ order'[v] = order[v] /\ want'[v] = want[v] /\ previous'[v] = previous[v],
         NEW o \in Orders, Calm(o)
  PROVE  Same(o)
<1>1. Late(o)' = Late(o)
  BY DEF Late, AfterWrite
<1>2. \A v \in Late(o) : Owed(v)' = Owed(v)
  BY DEF Late, Owed, AfterWrite
<1> QED
  BY <1>1, <1>2, QueueStays

(* The steps of the store, one order at a time.                            *)
LEMMA EveryStepIsKept ==
  ASSUME Inv, More, [Next]_vars, NEW o \in Orders, Calm(o)
  PROVE  Promise(o)!Next \/ Same(o)
<1> USE BaristaIsAWorker
<1>0. TypeOK
  BY DEF Inv
<1>1. ASSUME NEW w \in Workers, NEW p, NEW s, pc[w] \notin AfterWrite, Look(w, p, s)
      PROVE  Same(o)
  <2>1. /\ pc'[w] = "read" /\ UNCHANGED <<heap, published, slot>>
        /\ \A v \in Workers \ {w} : /\ pc'[v] = pc[v] /\ order'[v] = order[v]
                                    /\ want'[v] = want[v] /\ previous'[v] = previous[v]
    BY <1>0, <1>1 DEF Look, Goto, TypeOK
  <2> QED
    BY <1>1, <2>1, OtherShowsNothing DEF AfterWrite
<1>2. ASSUME NEW w \in Requests, Arrive(w) PROVE Same(o)
  <2>1. w \in Workers
    BY DEF Workers
  <2>2. CASE NotFound(w)
    <3>1. /\ pc[w] = "idle" /\ pc'[w] = "done" /\ \A v \in Workers \ {w} : pc'[v] = pc[v]
          /\ UNCHANGED <<heap, published, order, want, previous, slot>>
      BY <1>0, <2>1, <2>2 DEF NotFound, Goto, local, TypeOK
    <3> QED
      BY <3>1, OtherShowsNothing DEF AfterWrite
  <2>3. ASSUME NEW p \in Orders, Create(w, p) PROVE Same(o)
    <3>1. /\ pc[w] = "idle" /\ pc'[w] = "new"
          /\ \A v \in Workers \ {w} : pc'[v] = pc[v] /\ order'[v] = order[v]
          /\ UNCHANGED <<heap, published, want, previous, slot>>
      BY <1>0, <2>1, <2>3 DEF Create, Goto, TypeOK
    <3> QED
      BY <3>1, OtherShowsNothing DEF AfterWrite
  <2>4. CASE \E p \in Orders, s \in Status : Patch(w, p, s)
    BY <1>1, <2>1, <2>4 DEF Patch, AfterWrite
  <2> QED
    BY <1>2, <2>2, <2>3, <2>4 DEF Arrive
<1>3. ASSUME NEW w \in Workers, Work(w) PROVE Promise(o)!Next \/ Same(o)
  <2>1. CASE Stamp(w)
    <3>1. /\ pc[w] = "new" /\ pc'[w] = "stamped" /\ \A v \in Workers \ {w} : pc'[v] = pc[v]
          /\ UNCHANGED <<heap, published, order, want, previous, slot>>
      BY <1>0, <2>1 DEF Stamp, Goto, TypeOK
    <3> QED
      BY <3>1, OtherShowsNothing DEF AfterWrite
  <2>2. CASE Serialise(w)
    <3>1. /\ pc[w] = "announcing" /\ pc'[w] = "serialised"
          /\ \A v \in Workers \ {w} : pc'[v] = pc[v]
          /\ UNCHANGED <<heap, published, order, want, previous, slot>>
      BY <1>0, <2>2 DEF Serialise, Goto, TypeOK
    <3> QED
      BY <3>1, OtherShowsNothing DEF AfterWrite
  <2> QED
    BY <1>3, <2>1, <2>2, SetFieldIsAChange, PutIsAChange, CompareShowsNothing,
       SendingShowsNothing DEF Work
<1>4. ASSUME pc[Barista] \notin AfterWrite, pc'[Barista] \notin AfterWrite,
             UNCHANGED <<heap, published, slot>>,
             \A v \in Workers \ {Barista} : /\ pc'[v] = pc[v] /\ order'[v] = order[v]
                                            /\ want'[v] = want[v] /\ previous'[v] = previous[v]
      PROVE  Same(o)
  BY <1>4, OtherShowsNothing
<1>5. CASE Tick
  <2>1. ASSUME NEW at \in {"idle", "second"}, NEW to, BeginScan(at, to) PROVE Same(o)
    <3>1. /\ pc[Barista] = at /\ pc'[Barista] = "scan" /\ UNCHANGED <<heap, published, slot>>
          /\ \A v \in Workers \ {Barista} : /\ pc'[v] = pc[v] /\ order'[v] = order[v]
                                            /\ want'[v] = want[v] /\ previous'[v] = previous[v]
      BY <1>0, <2>1 DEF BeginScan, Goto, TypeOK
    <3> QED
      BY <1>4, <3>1 DEF AfterWrite
  <2>2. CASE \E p \in Orders : Scan(p)
    <3>1. pc[Barista] = "scan" /\ UNCHANGED <<heap, published, slot, pc, order, want, previous>>
      BY <2>2 DEF Scan
    <3> QED
      BY <1>4, <3>1 DEF AfterWrite
  <2>3. CASE EndScan
    <3>1. /\ pc[Barista] = "scan" /\ pc'[Barista] \in {"picked", "second", "idle"}
          /\ UNCHANGED <<heap, published>>
          /\ \A v \in Workers \ {Barista} : /\ pc'[v] = pc[v] /\ order'[v] = order[v]
                                            /\ want'[v] = want[v] /\ previous'[v] = previous[v]
                                            /\ slot'[v] = slot[v]
      BY <1>0, <2>3 DEF EndScan, Return, After, Goto, TypeOK
    <3>2. Late(o)' = Late(o)
      BY <3>1 DEF Late
    <3>3. \A v \in Late(o) : Owed(v)' = Owed(v) /\ slot'[v] = slot[v]
      BY <3>1 DEF Late, Owed
    <3> QED
      BY <3>1, <3>2, <3>3, QueueStays
  <2>4. CASE BaristaLook
    BY <1>1, <2>4 DEF BaristaLook, AfterWrite
  <2> QED
    BY <1>5, <2>1, <2>2, <2>3, <2>4 DEF Tick
<1>6. CASE TimePasses \/ UNCHANGED vars
  <2>1. UNCHANGED <<heap, published, slot, pc, order, want, previous>>
    BY <1>6 DEF TimePasses, vars, local
  <2> QED
    BY <2>1, OtherShowsNothing
<1> QED
  BY <1>2, <1>3, <1>5, <1>6 DEF Next

(* The seeded store is one the abstract store may begin with.              *)
LEMMA PromiseInit == Init => \A o \in Orders : Promise(o)!Init
<1> SUFFICES ASSUME Init, NEW o \in Orders PROVE Promise(o)!Init
  OBVIOUS
<1>1. Inv
  BY InvInit
<1>2. StatusOf(o) \in Status \cup {Absent}
  BY <1>1 DEF StatusOf, Inv, TypeOK, Fields
<1>3. Told(o) = <<>>
  <2>1. published[o] = <<>> /\ Len(published[o]) = 0
    BY DEF Init
  <2> QED
    BY <2>1 DEF Told
<1>4. Owing(o) = <<>>
  <2>1. Late(o) = {}
    BY DEF Init, Late
  <2> QED
    BY <2>1, NobodyInOrder DEF Owing
<1>5. Told(o) \o Owing(o) = <<>>
  BY <1>3, <1>4
<1> QED
  BY <1>2, <1>5 DEF Promise!Init, Promise!Status, Status

(* Of every order the Java store too is the atomic store, a change and its *)
(* announcement in one step, though an Order is set, read back and written *)
(* out field by field, but for the steps taken while a write disturbs an   *)
(* update of that order (OrderStore, OrdersController.applyStatus,         *)
(* OrderEventPublisher.publish, AutoBarista).                              *)
THEOREM JavaImplementsAtomicOrders == Spec => ImplementsAtomicOrders
<1> DEFINE begun == \A o \in Orders : Promise(o)!Init
           kept  == \A o \in Orders :
                      \/ Promise(o)!Next \/ UNCHANGED Promise(o)!vars
                      \/ \E w \in Workers : order[w] = o /\ Disturbed(w)
<1>1. Inv /\ More /\ [Next]_vars => [kept]_vars
  BY EveryStepIsKept DEF Calm, Same
<1>2. ImplementsAtomicOrders <=> begun /\ [][kept]_vars
  BY DEF ImplementsAtomicOrders
<1>3. Init => begun
  BY PromiseInit
<1> HIDE DEF begun, kept
<1> QED
  BY <1>1, <1>2, <1>3, MoreAlways, PTL DEF Spec


-----------------------------------------------------------------------------
(* What that is worth to a client.                                         *)

\* A list of announcements that somebody who follows it can replay: each one is
\* a change, begins where the one before it ended, and the last one ends here.
Replays(line, here) ==
  LET n == Len(line) IN
  /\ \A k \in 1..n : line[k].prev # line[k].status
  /\ \A k \in 1..n-1 : line[k].status = line[k + 1].prev
  /\ n > 0 => line[n].status = here

(* One more change.                                                        *)
LEMMA ReplaysOn ==
  ASSUME NEW line \in Seq(Word), NEW here \in Status \cup {Absent}, Replays(line, here),
         NEW s \in Status, s # here
  PROVE  Replays(Append(line, [prev |-> here, status |-> s]), s)
<1> DEFINE x == [prev |-> here, status |-> s]
           n == Len(line)
<1>1. x \in Word /\ x.prev = here /\ x.status = s
  BY DEF Word
<1> HIDE DEF x
<1>2. /\ n \in Nat /\ Len(Append(line, x)) = n + 1 /\ Append(line, x)[n + 1] = x
      /\ \A k \in 1..n : Append(line, x)[k] = line[k]
  BY <1>1, AppendKeeps
<1> DEFINE more == Append(line, x)
<1> HIDE DEF more
<1>3. \A k \in 1..n+1 : more[k].prev # more[k].status
  <2> SUFFICES ASSUME NEW k \in 1..n+1 PROVE more[k].prev # more[k].status
    OBVIOUS
  <2>1. CASE k = n + 1
    BY <1>1, <1>2, <2>1 DEF more
  <2>2. CASE k # n + 1
    BY <1>2, <2>2 DEF more, Replays
  <2> QED
    BY <2>1, <2>2
<1>4. \A k \in 1..n : more[k].status = more[k + 1].prev
  <2> SUFFICES ASSUME NEW k \in 1..n PROVE more[k].status = more[k + 1].prev
    OBVIOUS
  <2>1. CASE k = n
    BY <1>1, <1>2, <2>1 DEF more, Replays
  <2>2. CASE k # n
    <3>1. k \in 1..n-1 /\ k + 1 \in 1..n
      BY <1>2, <2>2
    <3> QED
      BY <1>2, <3>1 DEF more, Replays
  <2> QED
    BY <2>1, <2>2
<1>5. Len(more) = n + 1 /\ more[n + 1].status = s
  BY <1>1, <1>2 DEF more
<1>6. Replays(more, s)
  BY <1>2, <1>3, <1>4, <1>5 DEF Replays
<1> QED
  BY <1>6 DEF more, x

(* It is the promise of the abstract store, for one order.                 *)
LEMMA PromiseIsReplay ==
  ASSUME NEW o \in Orders
  PROVE  /\ Promise(o)!ReplayGivesOrders <=> Replays(Line(o), StatusOf(o))
         /\ (Promise(o)!ReplayGivesOrders)' <=> Replays(Line(o), StatusOf(o))'
BY DEF Promise!ReplayGivesOrders, Replays, Line

(* What a calm order's clients have been told and are owed.                *)
LEMMA LineType ==
  ASSUME Inv, More, NEW o \in Orders, Calm(o)
  PROVE  Line(o) \in Seq(Word) /\ StatusOf(o) \in Status \cup {Absent}
<1>1. Told(o) \in Seq(Word)
  BY WordsTold DEF Inv
<1>2. Owing(o) \in Seq(Word)
  <2>1. <<>> \in Seq(Word)
    OBVIOUS
  <2>2. ASSUME NEW v \in Workers PROVE <<Owed(v)>> \in Seq(Word)
    BY WordsOwed DEF Inv
  <2> QED
    BY <2>1, <2>2, CalmQueue
<1>3. StatusOf(o) \in Status \cup {Absent}
  BY DEF StatusOf, Inv, TypeOK, Fields
<1> QED
  BY <1>1, <1>2, <1>3 DEF Line

(* A step of the abstract store.                                           *)
LEMMA ChangeReplays ==
  ASSUME Inv, More, NEW o \in Orders, Calm(o),
         Replays(Line(o), StatusOf(o)), Promise(o)!Next \/ Same(o)
  PROVE  Replays(Line(o), StatusOf(o))'
<1> DEFINE st == [p \in {o} |-> StatusOf(p)]
           an == [p \in {o} |-> Told(p) \o Owing(p)]
<1>1. st[o] = StatusOf(o) /\ an[o] = Line(o) /\ st'[o] = StatusOf(o)' /\ an'[o] = Line(o)'
  BY DEF Line
<1>2. CASE Same(o)
  <2>1. st' = st /\ an' = an
    BY <1>2 DEF Same, Promise!vars
  <2>2. Line(o)' = Line(o) /\ StatusOf(o)' = StatusOf(o)
    BY <1>1, <2>1
  <2> QED
    BY <2>2
<1>3. CASE Promise(o)!Next
  <2>1. PICK s \in Status :
          /\ s # StatusOf(o)
          /\ st' = [st EXCEPT ![o] = s]
          /\ an' = [an EXCEPT ![o] = Append(an[o], [prev |-> st[o], status |-> s])]
    BY <1>1, <1>3, AbsentAssumption DEF Promise!Next, Promise!Create, Promise!SetStatus,
       Promise!Change, Promise!Status, Status
  <2>2. StatusOf(o)' = s /\ Line(o)' = Append(Line(o), [prev |-> StatusOf(o), status |-> s])
    BY <1>1, <2>1
  <2>3. Replays(Append(Line(o), [prev |-> StatusOf(o), status |-> s]), s)
    BY <2>1, LineType, ReplaysOn
  <2> QED
    BY <2>2, <2>3
<1> QED
  BY <1>2, <1>3

(* As long as nobody's update of an order is disturbed, whoever replays    *)
(* the announcements made and still owed arrives at its status: each says  *)
(* where the one before it ended (OrdersController.applyStatus, AutoBarista).*)
THEOREM UndisturbedJavaOrdersReplay ==
  ASSUME NEW o \in Orders
  PROVE  Spec /\ []Calm(o) => []Promise(o)!ReplayGivesOrders
<1> DEFINE held == Promise(o)!ReplayGivesOrders
<1>1. Init => held
  <2> SUFFICES ASSUME Init PROVE Replays(Line(o), StatusOf(o))
    BY PromiseIsReplay
  <2>1. Promise(o)!Init
    BY PromiseInit
  <2>2. Line(o) = <<>>
    BY <2>1 DEF Promise!Init, Line
  <2> QED
    BY <2>2 DEF Replays
<1>2. Inv /\ More /\ Calm(o) /\ held /\ [Next]_vars => held'
  BY PromiseIsReplay, EveryStepIsKept, ChangeReplays
<1>3. held <=> Promise(o)!ReplayGivesOrders
  OBVIOUS
<1> HIDE DEF held
<1> QED
  BY <1>1, <1>2, <1>3, MoreAlways, PTL DEF Spec
=============================================================================
