------------------------ MODULE DotnetOrders_proofs ------------------------
(***************************************************************************)
(* Proofs about DotnetOrders, for any number of orders and of requests.    *)
(***************************************************************************)
EXTENDS DotnetOrders, FiniteSetTheorems, SequenceTheorems, TLAPS

BusyHasOrder == \A w \in Workers : Busy(w) => order[w] \in Orders

TypeInv == TypeOK /\ BusyHasOrder

(* The timer is one of the writers.                                        *)
LEMMA BaristaIsAWorker == Barista \in Workers
BY DEF Workers

(* Stamp, Write and Announce need a computed record to be a Version.       *)
LEMMA ComputedType ==
  ASSUME TypeOK, NEW w \in Workers
  PROVE  Computed(w) \in Version /\ PreviousStatus(w) \in Status \cup {Absent}
<1>1. stamp[w] \in Nat /\ want[w] \in Status
  BY DEF TypeOK
<1>2. CASE existing[w] = Absent
  BY <1>1, <1>2 DEF Computed, PreviousStatus, Version, Status
<1>3. CASE existing[w] # Absent
  <2>1. existing[w] \in Version
    BY <1>3 DEF TypeOK
  <2> QED
    BY <1>1, <1>3, <2>1 DEF Computed, PreviousStatus, Version
<1> QED
  BY <1>2, <1>3

(* Reading the order to update keeps the types.                            *)
LEMMA LookupType ==
  ASSUME TypeInv, NEW w \in Workers, NEW o \in Orders, NEW s \in Status, Lookup(w, o, s)
  PROVE  TypeInv'
<1>1. TypeOK'
  BY DEF TypeInv, TypeOK, Lookup, Goto
<1>2. BusyHasOrder'
  BY DEF TypeInv, TypeOK, BusyHasOrder, Busy, Lookup, Goto
<1> QED
  BY <1>1, <1>2 DEF TypeInv

(* The inductive step of type correctness, action by action.               *)
LEMMA TypeStep == TypeInv /\ [Next]_vars => TypeInv'
<1> SUFFICES ASSUME TypeInv, [Next]_vars PROVE TypeInv'
  OBVIOUS
<1> USE BaristaIsAWorker
<1>1. ASSUME NEW w \in Requests, Arrive(w) PROVE TypeInv'
  <2>1. w \in Workers
    BY DEF Workers
  <2>2. CASE NotFound(w)
    BY <2>1, <2>2 DEF TypeInv, TypeOK, BusyHasOrder, Busy, NotFound, Goto, local
  <2>3. CASE \E o \in Orders : Create(w, o)
    BY <2>1, <2>3, LookupType DEF Create, Status
  <2>4. CASE \E o \in Orders, s \in Status : Patch(w, o, s)
    BY <2>1, <2>4, LookupType DEF Patch
  <2> QED
    BY <1>1, <2>2, <2>3, <2>4 DEF Arrive
<1>2. ASSUME NEW w \in Workers, Work(w) PROVE TypeInv'
  <2>1. CASE Stamp(w)
    BY <2>1 DEF TypeInv, TypeOK, BusyHasOrder, Busy, Stamp, Goto
  <2>2. CASE Write(w)
    <3>1. Computed(w) \in Version /\ order[w] \in Orders
      BY <2>2, ComputedType DEF TypeInv, BusyHasOrder, Busy, Write
    <3>2. history[order[w]] \in Seq(Entry) /\ [ver |-> Computed(w), base |-> base[w]] \in Entry
      BY <3>1 DEF TypeInv, TypeOK, Entry
    <3>3. /\ Len(history[order[w]]) + 1 \in Nat
          /\ Append(history[order[w]], [ver |-> Computed(w), base |-> base[w]]) \in Seq(Entry)
      BY <3>2
    <3> QED
      BY <2>2, <3>1, <3>3 DEF TypeInv, TypeOK, BusyHasOrder, Busy, Write, Goto
  <2>3. CASE Announce(w)
    <3> DEFINE a == [prev |-> PreviousStatus(w), data |-> Computed(w), of |-> slot[w], by |-> w]
    <3>1. a \in Announcement /\ order[w] \in Orders
      BY <2>3, ComputedType DEF TypeInv, TypeOK, BusyHasOrder, Busy, Announce, Announcement
    <3>2. Append(announced[order[w]], a) \in Seq(Announcement)
      BY <3>1 DEF TypeInv, TypeOK
    <3>3. announced' \in [Orders -> Seq(Announcement)]
      BY <2>3, <3>1, <3>2 DEF TypeInv, TypeOK, Announce
    <3> QED
      BY <2>3, <3>3 DEF TypeInv, TypeOK, BusyHasOrder, Busy, Announce, Goto, local
  <2> QED
    BY <1>2, <2>1, <2>2, <2>3 DEF Work
<1>3. ASSUME NEW at, NEW from, NEW to \in Status, NEW next \in {"idle", "second"},
             Pick(at, from, to, next)
      PROVE  TypeInv'
  <2>1. CASE Oldest(from) = {} /\ Goto(Barista, next) /\ UNCHANGED local
    BY <1>3, <2>1 DEF TypeInv, TypeOK, BusyHasOrder, Busy, Pick, Goto, local
  <2>2. ASSUME NEW o \in Oldest(from),
               order' = [order EXCEPT ![Barista] = o],
               want' = [want EXCEPT ![Barista] = to],
               picked' = Len(history[o]),
               Goto(Barista, "picked"),
               UNCHANGED <<existing, stamp, base, slot>>
        PROVE  TypeInv'
    <3>1. o \in Orders /\ Len(history[o]) \in Nat
      BY <2>2 DEF Oldest, TypeInv, TypeOK
    <3> QED
      BY <1>3, <2>2, <3>1 DEF TypeInv, TypeOK, BusyHasOrder, Busy, Pick, Goto
  <2> QED
    BY <1>3, <2>1, <2>2 DEF Pick
<1>4. CASE Tick
  BY <1>3, <1>4 DEF Tick, Status
<1>5. CASE BaristaLookup
  BY <1>5, LookupType DEF BaristaLookup, TypeInv, TypeOK, BusyHasOrder, Busy
<1>6. CASE TimePasses
  BY <1>6 DEF TypeInv, TypeOK, BusyHasOrder, Busy, TimePasses, local
<1>7. CASE UNCHANGED vars
  BY <1>7 DEF TypeInv, TypeOK, BusyHasOrder, Busy, vars, local
<1> QED
  BY <1>1, <1>2, <1>4, <1>5, <1>6, <1>7 DEF Next

(* The seeded store has the declared types.                                *)
LEMMA InitType == Init => TypeInv
<1> SUFFICES ASSUME Init PROVE TypeInv
  OBVIOUS
<1>1. \A o \in Orders : o \in DOMAIN Seed => <<[ver |-> Seed[o], base |-> 0]>> \in Seq(Entry)
  BY DotnetAssumption DEF Entry
<1>2. history \in [Orders -> Seq(Entry)] /\ announced \in [Orders -> Seq(Announcement)]
  BY <1>1 DEF Init
<1> QED
  BY <1>2, DotnetAssumption DEF Init, TypeInv, TypeOK, BusyHasOrder, Busy, Status

(* Every variable of the store and its writers keeps its type.             *)
THEOREM TypeCorrect == Spec => []TypeOK
BY InitType, TypeStep, PTL DEF Spec, TypeInv

-----------------------------------------------------------------------------
(* The inductive invariant behind the announcements.                       *)
Holding(w) == pc[w] \in {"read", "stamped", "wrote"}
Wrote(w)   == pc[w] = "wrote"

StoreIsLastWritten ==
  \A o \in Orders : IF history[o] = <<>> THEN store[o] = Absent
                    ELSE store[o] = history[o][Len(history[o])].ver

BasesAreEarlier ==
  \A o \in Orders : \A i \in 1..Len(history[o]) : history[o][i].base < i

ReadsWereStored ==
  \A w \in Workers : Holding(w) =>
    /\ base[w] \in 0..Len(history[order[w]])
    /\ existing[w] = IF base[w] = 0 THEN Absent ELSE history[order[w]][base[w]].ver

WritesAreInHistory ==
  \A w \in Workers : Wrote(w) =>
    /\ slot[w] \in 1..Len(history[order[w]])
    /\ history[order[w]][slot[w]] = [ver |-> Computed(w), base |-> base[w]]

SlotsAreDistinct ==
  \A v, w \in Workers : v # w /\ Wrote(v) /\ Wrote(w) /\ order[v] = order[w] => slot[v] # slot[w]

OwedIsUnannounced ==
  \A w \in Workers : Wrote(w) =>
    \A k \in 1..Len(announced[order[w]]) : announced[order[w]][k].of # slot[w]

RequestsAnnounceChanges ==
  \A o \in Orders : \A k \in 1..Len(announced[o]) :
    announced[o][k].by \in Requests => announced[o][k].prev # announced[o][k].data.status

WritersInv == /\ StoreIsLastWritten /\ BasesAreEarlier
              /\ WritesAreInHistory /\ SlotsAreDistinct
              /\ OwedIsUnannounced /\ RequestsAnnounceChanges
              /\ AnnouncementsAreStoredVersions /\ AnnouncedOnce
              /\ ChangesAnnouncedUnlessOvertaken

SafetyInv == ReadsWereStored /\ WritersInv

(* A step that neither stores nor announces disturbs none of it.           *)
LEMMA StillStep ==
  ASSUME TypeInv, WritersInv,
         UNCHANGED <<store, history, announced, slot>>,
         \A v \in Workers : Wrote(v)' <=> Wrote(v),
         \A v \in Workers : Wrote(v) =>
           /\ order'[v] = order[v] /\ want'[v] = want[v] /\ base'[v] = base[v]
           /\ existing'[v] = existing[v] /\ stamp'[v] = stamp[v]
  PROVE  WritersInv'
<1>1. StoreIsLastWritten' /\ BasesAreEarlier' /\ RequestsAnnounceChanges'
  BY DEF WritersInv, StoreIsLastWritten, BasesAreEarlier, RequestsAnnounceChanges
<1>2. \A v \in Workers : Wrote(v) => Computed(v)' = Computed(v)
  BY DEF Computed
<1>3. WritesAreInHistory'
  BY <1>2 DEF WritersInv, WritesAreInHistory
<1>4. SlotsAreDistinct' /\ OwedIsUnannounced'
  BY DEF WritersInv, SlotsAreDistinct, OwedIsUnannounced
<1>5. AnnouncementsAreStoredVersions' /\ AnnouncedOnce'
  BY DEF WritersInv, AnnouncementsAreStoredVersions, AnnouncedOnce, StatusAt
<1>6. ASSUME NEW o \in Orders, NEW i \in 2..Len(history[o]), AnnouncedOrOwed(o, i)
      PROVE  AnnouncedOrOwed(o, i)'
  BY <1>6 DEF AnnouncedOrOwed, Wrote
<1>7. ChangesAnnouncedUnlessOvertaken'
  BY <1>6 DEF WritersInv, ChangesAnnouncedUnlessOvertaken, StatusAt, Overtaken
<1> QED
  BY <1>1, <1>3, <1>4, <1>5, <1>7 DEF WritersInv

(* A writer that has just read an order holds a version that is stored.    *)
LEMMA LookupSafe ==
  ASSUME TypeInv, SafetyInv, NEW w \in Workers, ~Holding(w),
         NEW o \in Orders, NEW s \in Status, Lookup(w, o, s)
  PROVE  SafetyInv'
<1>1. WritersInv'
  BY StillStep DEF SafetyInv, TypeInv, TypeOK, Lookup, Goto, Holding, Wrote
<1>2. ReadsWereStored'
  <2> SUFFICES ASSUME NEW v \in Workers, Holding(v)'
               PROVE  /\ base'[v] \in 0..Len(history'[order'[v]])
                      /\ existing'[v] = IF base'[v] = 0 THEN Absent
                                        ELSE history'[order'[v]][base'[v]].ver
    BY DEF ReadsWereStored
  <2>1. CASE v = w
    <3>1. history[o] \in Seq(Entry)
      BY DEF TypeInv, TypeOK
    <3>2. base'[v] = Len(history[o]) /\ existing'[v] = store[o] /\ order'[v] = o /\ history' = history
      BY <2>1 DEF Lookup, TypeInv, TypeOK
    <3>3. Len(history[o]) = 0 <=> history[o] = <<>>
      BY <3>1
    <3> QED
      BY <3>1, <3>2, <3>3 DEF SafetyInv, WritersInv, StoreIsLastWritten
  <2>2. CASE v # w
    BY <2>2 DEF Lookup, Goto, SafetyInv, ReadsWereStored, Holding, TypeInv, TypeOK
  <2> QED
    BY <2>1, <2>2
<1> QED
  BY <1>1, <1>2 DEF SafetyInv

\* A version added at the end disturbs none of the versions before it.
LEMMA AppendKeeps ==
  ASSUME NEW S, NEW s \in Seq(S), NEW e \in S
  PROVE  /\ Len(Append(s, e)) = Len(s) + 1
         /\ Append(s, e)[Len(s) + 1] = e
         /\ \A i \in 1..Len(s) : Append(s, e)[i] = s[i]
         /\ Append(s, e) # <<>>
OBVIOUS

(* An entry is a version and the place of the one it was computed from.    *)
LEMMA EntryAt ==
  ASSUME TypeOK, NEW o \in Orders, NEW i \in 1..Len(history[o])
  PROVE  history[o][i].ver \in Version /\ history[o][i].base \in Nat
<1>1. history[o] \in Seq(Entry)
  BY DEF TypeOK
<1>2. history[o][i] \in Entry
  BY <1>1
<1> QED
  BY <1>2 DEF Entry

(* Storing a version: the writer owes its announcement from here on.       *)
LEMMA WriteSafe ==
  ASSUME TypeInv, SafetyInv, NEW w \in Workers, Write(w)
  PROVE  SafetyInv'
<1> DEFINE o == order[w]
           n == Len(history[o])
           e == [ver |-> Computed(w), base |-> base[w]]
<1>1. o \in Orders /\ Holding(w) /\ history[o] \in Seq(Entry) /\ n \in Nat
  BY DEF Write, TypeInv, TypeOK, BusyHasOrder, Busy, Holding
<1>2. e \in Entry
  BY ComputedType DEF TypeInv, TypeOK, Entry
<1>3. /\ history' = [history EXCEPT ![o] = Append(history[o], e)]
      /\ store' = [store EXCEPT ![o] = Computed(w)]
      /\ slot' = [slot EXCEPT ![w] = n + 1]
      /\ pc' = [pc EXCEPT ![w] = "wrote"] /\ pc[w] = "stamped"
      /\ UNCHANGED <<announced, order, want, existing, stamp, base>>
  BY DEF Write, Goto
<1>4. /\ Len(history'[o]) = n + 1 /\ history'[o][n + 1] = e /\ history'[o] # <<>>
      /\ \A i \in 1..n : history'[o][i] = history[o][i]
      /\ \A p \in Orders \ {o} : history'[p] = history[p]
  <2>1. history'[o] = Append(history[o], e)
    BY <1>1, <1>3 DEF TypeInv, TypeOK
  <2> QED
    BY <1>1, <1>2, <1>3, <2>1, AppendKeeps DEF TypeInv, TypeOK
<1>5. \A v \in Workers : Computed(v)' = Computed(v)
  BY <1>3 DEF Computed
<1>6. \A v \in Workers : Wrote(v)' <=> Wrote(v) \/ v = w
  BY <1>3 DEF Wrote, TypeInv, TypeOK
<1>7. base[w] \in 0..n
  BY <1>1 DEF SafetyInv, ReadsWereStored
<1>8. StoreIsLastWritten'
  BY <1>1, <1>3, <1>4 DEF SafetyInv, WritersInv, StoreIsLastWritten, TypeInv, TypeOK
<1>9. BasesAreEarlier'
  <2> SUFFICES ASSUME NEW p \in Orders, NEW i \in 1..Len(history'[p])
               PROVE  history'[p][i].base < i
    BY DEF BasesAreEarlier
  <2>1. CASE p = o /\ i = n + 1
    BY <1>1, <1>4, <1>7, <2>1
  <2>2. CASE ~(p = o /\ i = n + 1)
    <3>1. i \in 1..Len(history[p]) /\ history'[p][i] = history[p][i]
      BY <1>1, <1>4, <2>2
    <3> QED
      BY <3>1 DEF SafetyInv, WritersInv, BasesAreEarlier
  <2> QED
    BY <2>1, <2>2
<1>10. ReadsWereStored'
  <2> SUFFICES ASSUME NEW v \in Workers, Holding(v)'
               PROVE  /\ base'[v] \in 0..Len(history'[order'[v]])
                      /\ existing'[v] = IF base'[v] = 0 THEN Absent
                                        ELSE history'[order'[v]][base'[v]].ver
    BY DEF ReadsWereStored
  <2>1. Holding(v) /\ order[v] \in Orders
    BY <1>1, <1>3 DEF Holding, TypeInv, TypeOK, BusyHasOrder, Busy
  <2>2. /\ base[v] \in 0..Len(history[order[v]])
        /\ existing[v] = IF base[v] = 0 THEN Absent ELSE history[order[v]][base[v]].ver
    BY <2>1 DEF SafetyInv, ReadsWereStored
  <2>3. Len(history[order[v]]) \in Nat /\ base[v] \in Nat
    BY <2>1 DEF TypeInv, TypeOK
  <2> QED
    BY <1>1, <1>3, <1>4, <2>1, <2>2, <2>3
<1>11. WritesAreInHistory'
  <2> SUFFICES ASSUME NEW v \in Workers, Wrote(v)'
               PROVE  /\ slot'[v] \in 1..Len(history'[order[v]])
                      /\ history'[order[v]][slot'[v]] = [ver |-> Computed(v), base |-> base[v]]
    BY <1>3, <1>5 DEF WritesAreInHistory
  <2>1. CASE v = w
    BY <1>1, <1>3, <1>4, <2>1 DEF TypeInv, TypeOK
  <2>2. CASE v # w
    <3>1. Wrote(v) /\ slot'[v] = slot[v] /\ order[v] \in Orders
      BY <1>3, <1>6, <2>2 DEF TypeInv, TypeOK, Wrote, BusyHasOrder, Busy
    <3> QED
      BY <1>1, <1>4, <3>1 DEF SafetyInv, WritersInv, WritesAreInHistory
  <2> QED
    BY <2>1, <2>2
<1>12. SlotsAreDistinct'
  <2>1. \A v \in Workers \ {w} : Wrote(v) /\ order[v] = o => slot[v] \in 1..n
    BY DEF SafetyInv, WritersInv, WritesAreInHistory
  <2> QED
    BY <1>1, <1>3, <1>6, <2>1 DEF SafetyInv, WritersInv, SlotsAreDistinct, TypeInv, TypeOK
<1>13. \A p \in Orders : \A k \in 1..Len(announced[p]) : announced[p][k].of \in 1..Len(history[p])
  BY DEF SafetyInv, WritersInv, AnnouncementsAreStoredVersions
<1>14. OwedIsUnannounced'
  <2> SUFFICES ASSUME NEW v \in Workers, Wrote(v)', NEW k \in 1..Len(announced[order[v]])
               PROVE  announced[order[v]][k].of # slot'[v]
    BY <1>3 DEF OwedIsUnannounced
  <2>1. CASE v = w
    BY <1>1, <1>3, <1>13, <2>1 DEF TypeInv, TypeOK
  <2>2. CASE v # w
    BY <1>3, <1>6, <2>2 DEF SafetyInv, WritersInv, OwedIsUnannounced, TypeInv, TypeOK
  <2> QED
    BY <2>1, <2>2
<1>15. RequestsAnnounceChanges' /\ AnnouncedOnce'
  BY <1>3 DEF SafetyInv, WritersInv, RequestsAnnounceChanges, AnnouncedOnce
<1>16. AnnouncementsAreStoredVersions'
  <2> SUFFICES ASSUME NEW p \in Orders, NEW k \in 1..Len(announced[p]),
                      NEW i, i = announced[p][k].of
               PROVE  /\ i \in 1..Len(history'[p])
                      /\ announced[p][k].data = history'[p][i].ver
                      /\ announced[p][k].prev =
                           IF history'[p][i].base = 0 THEN Absent
                           ELSE history'[p][history'[p][i].base].ver.status
    <3>1. announced' = announced
      BY <1>3
    <3> QED
      BY <3>1, ZenonT(60) DEF AnnouncementsAreStoredVersions, StatusAt
  <2>1. /\ i \in 1..Len(history[p])
        /\ announced[p][k].data = history[p][i].ver
        /\ announced[p][k].prev = IF history[p][i].base = 0 THEN Absent
                                  ELSE history[p][history[p][i].base].ver.status
    BY DEF SafetyInv, WritersInv, AnnouncementsAreStoredVersions, StatusAt
  <2>2. history[p][i].base \in Nat /\ history[p][i].base < i /\ Len(history[p]) \in Nat
    BY <2>1, EntryAt DEF SafetyInv, WritersInv, BasesAreEarlier, TypeInv, TypeOK
  <2>3. \A j \in 1..Len(history[p]) : history'[p][j] = history[p][j]
    BY <1>1, <1>4
  <2>4. Len(history'[p]) >= Len(history[p])
    BY <1>1, <1>4, <2>2
  <2>5. history'[p][i] = history[p][i] /\ i \in 1..Len(history'[p])
    BY <2>1, <2>2, <2>3, <2>4, Len(history'[p]) \in Nat
  <2>6. history[p][i].base # 0 => history'[p][history[p][i].base] = history[p][history[p][i].base]
    <3>1. history[p][i].base # 0 => history[p][i].base \in 1..Len(history[p])
      BY <2>1, <2>2
    <3> QED
      BY <2>3, <3>1
  <2> QED
    BY <2>1, <2>5, <2>6
<1>17. ChangesAnnouncedUnlessOvertaken'
  <2> SUFFICES ASSUME NEW p \in Orders, NEW i \in 2..Len(history'[p]),
                      ~(history'[p][i].base # i - 1),
                      history'[p][i-1].ver.status # history'[p][i].ver.status
               PROVE  AnnouncedOrOwed(p, i)'
    BY DEF ChangesAnnouncedUnlessOvertaken, StatusAt, Overtaken
  <2>1. CASE p = o /\ i = n + 1
    BY <1>3, <2>1 DEF AnnouncedOrOwed, TypeInv, TypeOK
  <2>2. CASE ~(p = o /\ i = n + 1)
    <3>1. /\ i \in 2..Len(history[p]) /\ i - 1 \in 1..Len(history[p])
          /\ history'[p][i] = history[p][i] /\ history'[p][i-1] = history[p][i-1]
      <4>1. CASE p = o
        <5>1. i \in 2..n /\ i - 1 \in 1..n /\ i \in 1..n
          BY <1>1, <1>4, <2>2, <4>1
        <5> QED
          BY <1>4, <4>1, <5>1
      <4>2. CASE p # o
        <5>1. history'[p] = history[p] /\ Len(history[p]) \in Nat
          BY <1>4, <4>2 DEF TypeInv, TypeOK
        <5>2. i - 1 \in 1..Len(history[p])
          BY <5>1
        <5> QED
          BY <5>1, <5>2
      <4> QED
        BY <4>1, <4>2
    <3>2. AnnouncedOrOwed(p, i)
      BY <3>1 DEF SafetyInv, WritersInv, ChangesAnnouncedUnlessOvertaken, StatusAt, Overtaken
    <3> QED
      BY <1>3, <3>2 DEF AnnouncedOrOwed, TypeInv, TypeOK
  <2> QED
    BY <2>1, <2>2
<1> QED
  BY <1>8, <1>9, <1>10, <1>11, <1>12, <1>14, <1>15, <1>16, <1>17 DEF SafetyInv, WritersInv

(* Announcing, or deciding not to: what was owed is paid.                  *)
LEMMA AnnounceSafe ==
  ASSUME TypeInv, SafetyInv, NEW w \in Workers, Announce(w)
  PROVE  SafetyInv'
<1> DEFINE o == order[w]
           n == Len(announced[o])
           a == [prev |-> PreviousStatus(w), data |-> Computed(w), of |-> slot[w], by |-> w]
           h == history[o]
<1>1. /\ o \in Orders /\ Wrote(w) /\ Holding(w) /\ announced[o] \in Seq(Announcement) /\ n \in Nat
      /\ h \in Seq(Entry) /\ Len(h) \in Nat
  BY DEF Announce, TypeInv, TypeOK, BusyHasOrder, Busy, Holding, Wrote
<1>2. a \in Announcement
  BY ComputedType DEF TypeInv, TypeOK, Announcement
<1>3. UNCHANGED <<store, history, order, want, existing, stamp, base, slot>>
  BY DEF Announce, local
<1>4. \A v \in Workers : /\ Computed(v)' = Computed(v)
                         /\ Wrote(v)' <=> Wrote(v) /\ v # w
                         /\ Holding(v)' => Holding(v)
  BY <1>3 DEF Announce, Goto, Wrote, Holding, Computed, TypeInv, TypeOK
<1>5. \A p \in Orders \ {o} : announced'[p] = announced[p]
  BY <1>1 DEF Announce, TypeInv, TypeOK
<1>6. \/ announced'[o] = announced[o] /\ ~Noteworthy(w)
      \/ announced'[o] = Append(announced[o], a) /\ Noteworthy(w)
  BY <1>1 DEF Announce, TypeInv, TypeOK
<1>7. /\ \A p \in Orders : /\ Len(announced'[p]) >= Len(announced[p])
                           /\ Len(announced'[p]) \in Nat /\ Len(announced[p]) \in Nat
                           /\ \A k \in 1..Len(announced[p]) : announced'[p][k] = announced[p][k]
      /\ \A p \in Orders : \A k \in 1..Len(announced'[p]) :
            \/ k \in 1..Len(announced[p])
            \/ p = o /\ k = n + 1 /\ announced'[p][k] = a /\ Noteworthy(w)
  <2> SUFFICES ASSUME NEW p \in Orders
               PROVE  /\ Len(announced'[p]) >= Len(announced[p])
                      /\ Len(announced'[p]) \in Nat /\ Len(announced[p]) \in Nat
                      /\ \A k \in 1..Len(announced[p]) : announced'[p][k] = announced[p][k]
                      /\ \A k \in 1..Len(announced'[p]) :
                            \/ k \in 1..Len(announced[p])
                            \/ p = o /\ k = n + 1 /\ announced'[p][k] = a /\ Noteworthy(w)
    OBVIOUS
  <2>1. Len(announced[p]) \in Nat
    BY DEF TypeInv, TypeOK
  <2>2. CASE announced'[p] = announced[p]
    BY <2>1, <2>2
  <2>3. CASE p = o /\ announced'[o] = Append(announced[o], a) /\ Noteworthy(w)
    BY <1>1, <1>2, <2>3, AppendKeeps
  <2> QED
    BY <1>5, <1>6, <2>2, <2>3
<1>8. /\ slot[w] \in 1..Len(h) /\ h[slot[w]] = [ver |-> Computed(w), base |-> base[w]]
      /\ base[w] \in 0..Len(h) /\ existing[w] = IF base[w] = 0 THEN Absent ELSE h[base[w]].ver
  BY <1>1 DEF SafetyInv, WritersInv, WritesAreInHistory, ReadsWereStored
<1>9. StoreIsLastWritten' /\ BasesAreEarlier'
  BY <1>3 DEF SafetyInv, WritersInv, StoreIsLastWritten, BasesAreEarlier
<1>10. ReadsWereStored' /\ WritesAreInHistory' /\ SlotsAreDistinct'
  BY <1>3, <1>4 DEF SafetyInv, WritersInv, ReadsWereStored, WritesAreInHistory, SlotsAreDistinct
<1>11. OwedIsUnannounced'
  <2> SUFFICES ASSUME NEW v \in Workers, Wrote(v)', NEW k \in 1..Len(announced'[order[v]])
               PROVE  announced'[order[v]][k].of # slot[v]
    BY <1>3 DEF OwedIsUnannounced
  <2>1. Wrote(v) /\ v # w /\ order[v] \in Orders
    BY <1>4 DEF TypeInv, BusyHasOrder, Busy, Wrote
  <2>2. CASE k \in 1..Len(announced[order[v]])
    BY <1>7, <2>1, <2>2 DEF SafetyInv, WritersInv, OwedIsUnannounced
  <2>3. CASE order[v] = o /\ announced'[order[v]][k] = a
    BY <1>1, <2>1, <2>3 DEF SafetyInv, WritersInv, SlotsAreDistinct
  <2> QED
    BY <1>7, <2>1, <2>2, <2>3
<1>12. RequestsAnnounceChanges'
  <2> SUFFICES ASSUME NEW p \in Orders, NEW k \in 1..Len(announced'[p]),
                      announced'[p][k].by \in Requests
               PROVE  announced'[p][k].prev # announced'[p][k].data.status
    BY DEF RequestsAnnounceChanges
  <2>1. CASE k \in 1..Len(announced[p])
    BY <1>7, <2>1 DEF SafetyInv, WritersInv, RequestsAnnounceChanges
  <2>2. CASE announced'[p][k] = a /\ Noteworthy(w)
    BY <2>2, DotnetAssumption DEF Noteworthy
  <2> QED
    BY <1>7, <2>1, <2>2
<1>13. AnnouncedOnce'
  <2> SUFFICES ASSUME NEW p \in Orders, NEW k \in 1..Len(announced'[p]),
                      NEW l \in 1..Len(announced'[p]),
                      announced'[p][k].of = announced'[p][l].of
               PROVE  k = l
    BY DEF AnnouncedOnce
  <2>1. CASE k \in 1..Len(announced[p]) /\ l \in 1..Len(announced[p])
    BY <1>7, <2>1 DEF SafetyInv, WritersInv, AnnouncedOnce
  <2>2. \A j \in 1..n : announced'[o][j].of # slot[w]
    BY <1>1, <1>7 DEF SafetyInv, WritersInv, OwedIsUnannounced
  <2>3. \A j \in 1..Len(announced'[p]) :
          j \in 1..Len(announced[p]) \/ (p = o /\ j = n + 1 /\ announced'[p][j].of = slot[w])
    BY <1>7
  <2>4. CASE k \notin 1..Len(announced[p])
    <3>1. p = o /\ k = n + 1 /\ announced'[p][k].of = slot[w]
      BY <2>3, <2>4
    <3>2. l \notin 1..n
      BY <2>2, <3>1
    <3> QED
      BY <2>3, <3>1, <3>2
  <2>5. CASE l \notin 1..Len(announced[p])
    <3>1. p = o /\ l = n + 1 /\ announced'[p][l].of = slot[w]
      BY <2>3, <2>5
    <3>2. k \notin 1..n
      BY <2>2, <3>1
    <3> QED
      BY <2>3, <3>1, <3>2
  <2> QED
    BY <2>1, <2>4, <2>5
<1>14. AnnouncementsAreStoredVersions'
  <2> SUFFICES ASSUME NEW p \in Orders, NEW k \in 1..Len(announced'[p]),
                      NEW b, b = announced'[p][k]
               PROVE  /\ b.of \in 1..Len(history[p])
                      /\ b.data = history[p][b.of].ver
                      /\ b.prev = IF history[p][b.of].base = 0 THEN Absent
                                  ELSE history[p][history[p][b.of].base].ver.status
    <3>1. history' = history
      BY <1>3
    <3> QED
      BY <3>1, ZenonT(60) DEF AnnouncementsAreStoredVersions, StatusAt
  <2>1. CASE k \in 1..Len(announced[p])
    <3>1. b = announced[p][k]
      BY <1>7, <2>1
    <3> QED
      BY <2>1, <3>1 DEF SafetyInv, WritersInv, AnnouncementsAreStoredVersions, StatusAt
  <2>2. CASE p = o /\ b = a
    <3>1. PreviousStatus(w) = IF base[w] = 0 THEN Absent ELSE h[base[w]].ver.status
      <4>1. base[w] # 0 => existing[w] # Absent
        BY <1>1, <1>8, EntryAt, AbsentAssumption DEF TypeInv
      <4> QED
        BY <1>8, <4>1 DEF PreviousStatus
    <3>2. b.of = slot[w] /\ b.data = Computed(w) /\ b.prev = PreviousStatus(w)
      BY <2>2
    <3>3. h[slot[w]].ver = Computed(w) /\ h[slot[w]].base = base[w]
      BY <1>8
    <3> HIDE DEF a
    <3> QED
      BY <1>8, <2>2, <3>1, <3>2, <3>3
  <2> QED
    BY <1>7, <2>1, <2>2
<1>15. ChangesAnnouncedUnlessOvertaken'
  <2> SUFFICES ASSUME NEW p \in Orders, NEW i \in 2..Len(history[p]),
                      ~(history[p][i].base # i - 1),
                      history[p][i-1].ver.status # history[p][i].ver.status
               PROVE  AnnouncedOrOwed(p, i)'
    BY <1>3 DEF ChangesAnnouncedUnlessOvertaken, StatusAt, Overtaken
  <2>1. AnnouncedOrOwed(p, i)
    BY DEF SafetyInv, WritersInv, ChangesAnnouncedUnlessOvertaken, StatusAt, Overtaken
  <2>2. CASE \E k \in 1..Len(announced[p]) : announced[p][k].of = i
    <3>1. PICK k \in 1..Len(announced[p]) : announced[p][k].of = i
      BY <2>2
    <3>2. k \in 1..Len(announced'[p]) /\ announced'[p][k].of = i
      BY <1>7, <3>1
    <3> QED
      BY <3>2 DEF AnnouncedOrOwed
  <2>3. CASE \E v \in Workers \ {w} : Wrote(v) /\ order[v] = p /\ slot[v] = i
    BY <1>3, <1>4, <2>3 DEF AnnouncedOrOwed, Wrote
  <2>4. CASE p = o /\ slot[w] = i
    <3>1. /\ Computed(w).status = h[i].ver.status /\ base[w] = i - 1 /\ base[w] # 0
          /\ existing[w] = h[i-1].ver /\ i - 1 \in 1..Len(h)
      BY <1>1, <1>8, <2>4
    <3>2. existing[w] # Absent
      BY <1>1, <3>1, EntryAt, AbsentAssumption DEF TypeInv
    <3>3. Noteworthy(w)
      BY <2>4, <3>1, <3>2 DEF Noteworthy, PreviousStatus
    <3>4. announced'[o] = Append(announced[o], a)
      BY <1>6, <3>3
    <3>5. n + 1 \in 1..Len(announced'[o]) /\ announced'[o][n + 1].of = i
      BY <1>1, <1>2, <2>4, <3>4, AppendKeeps
    <3> QED
      BY <2>4, <3>5 DEF AnnouncedOrOwed
  <2> QED
    BY <2>1, <2>2, <2>3, <2>4 DEF AnnouncedOrOwed, Wrote
<1> QED
  BY <1>9, <1>10, <1>11, <1>12, <1>13, <1>14, <1>15 DEF SafetyInv, WritersInv

(* Steps that leave what the writers hold as it is.                        *)
LEMMA OtherSafe ==
  ASSUME TypeInv, SafetyInv,
         UNCHANGED <<store, history, announced, existing, base, slot>>,
         \A v \in Workers : Wrote(v)' <=> Wrote(v),
         \A v \in Workers : Holding(v)' => Holding(v) /\ order'[v] = order[v],
         \A v \in Workers : Wrote(v) =>
           order'[v] = order[v] /\ want'[v] = want[v] /\ stamp'[v] = stamp[v]
  PROVE  SafetyInv'
<1>1. WritersInv'
  BY StillStep DEF SafetyInv
<1>2. ReadsWereStored'
  BY DEF SafetyInv, ReadsWereStored
<1> QED
  BY <1>1, <1>2 DEF SafetyInv

(* The inductive step of the safety invariant, action by action.           *)
LEMMA SafetyStep == TypeInv /\ SafetyInv /\ [Next]_vars => SafetyInv'
<1> SUFFICES ASSUME TypeInv, SafetyInv, [Next]_vars PROVE SafetyInv'
  OBVIOUS
<1> USE BaristaIsAWorker
<1>1. ASSUME NEW w \in Requests, Arrive(w) PROVE SafetyInv'
  <2>1. w \in Workers
    BY DEF Workers
  <2>2. CASE NotFound(w)
    BY <2>1, <2>2, OtherSafe DEF NotFound, Goto, local, Holding, Wrote, TypeInv, TypeOK
  <2>3. CASE \E o \in Orders : Create(w, o)
    BY <2>1, <2>3, LookupSafe DEF Create, Status, Holding
  <2>4. CASE \E o \in Orders, s \in Status : Patch(w, o, s)
    BY <2>1, <2>4, LookupSafe DEF Patch, Holding
  <2> QED
    BY <1>1, <2>2, <2>3, <2>4 DEF Arrive
<1>2. ASSUME NEW w \in Workers, Work(w) PROVE SafetyInv'
  <2>1. CASE Stamp(w)
    BY <2>1, OtherSafe DEF Stamp, Goto, Holding, Wrote, TypeInv, TypeOK
  <2> QED
    BY <1>2, <2>1, WriteSafe, AnnounceSafe DEF Work
<1>3. ASSUME NEW at \in {"idle", "second"}, NEW from, NEW to, NEW next \in {"idle", "second"},
             Pick(at, from, to, next)
      PROVE  SafetyInv'
  <2>1. UNCHANGED <<store, history, announced, existing, stamp, base, slot>>
    BY <1>3 DEF Pick, local
  <2>2. \A v \in Workers \ {Barista} : pc'[v] = pc[v] /\ order'[v] = order[v] /\ want'[v] = want[v]
    BY <1>3 DEF Pick, Goto, local, TypeInv, TypeOK
  <2>3. pc[Barista] \in {"idle", "second"} /\ pc'[Barista] \in {"idle", "second", "picked"}
    BY <1>3 DEF Pick, Goto, TypeInv, TypeOK
  <2> QED
    BY <2>1, <2>2, <2>3, OtherSafe DEF Holding, Wrote
<1>4. CASE Tick
  BY <1>3, <1>4 DEF Tick
<1>5. CASE BaristaLookup
  BY <1>5, LookupSafe DEF BaristaLookup, TypeInv, TypeOK, BusyHasOrder, Busy, Holding
<1>6. CASE TimePasses
  BY <1>6, OtherSafe DEF TimePasses, local, Holding, Wrote
<1>7. CASE UNCHANGED vars
  BY <1>7, OtherSafe DEF vars, local, Holding, Wrote
<1> QED
  BY <1>1, <1>2, <1>4, <1>5, <1>6, <1>7 DEF Next

(* The seeded store, with nothing announced, satisfies the invariant.      *)
LEMMA SafetyInit == Init => TypeInv /\ SafetyInv
<1> SUFFICES ASSUME Init PROVE TypeInv /\ SafetyInv
  OBVIOUS
<1>1. TypeInv
  BY InitType
<1>2. \A w \in Workers : ~Holding(w) /\ ~Wrote(w)
  BY DEF Init, Holding, Wrote
<1>3. \A o \in Orders : announced[o] = <<>> /\ Len(announced[o]) = 0
  BY DEF Init
<1>4. \A o \in Orders :
        \/ /\ Len(history[o]) = 1 /\ history[o] # <<>>
           /\ history[o][1].ver = store[o] /\ history[o][1].base = 0
        \/ history[o] = <<>> /\ Len(history[o]) = 0 /\ store[o] = Absent
  <2> SUFFICES ASSUME NEW o \in Orders
               PROVE  \/ /\ Len(history[o]) = 1 /\ history[o] # <<>>
                         /\ history[o][1].ver = store[o] /\ history[o][1].base = 0
                      \/ history[o] = <<>> /\ Len(history[o]) = 0 /\ store[o] = Absent
    OBVIOUS
  <2>1. CASE o \in DOMAIN Seed
    <3>1. history[o] = <<[ver |-> Seed[o], base |-> 0]>> /\ store[o] = Seed[o]
      BY <2>1 DEF Init
    <3> QED
      BY <3>1
  <2>2. CASE o \notin DOMAIN Seed
    BY <2>2 DEF Init
  <2> QED
    BY <2>1, <2>2
<1>5. StoreIsLastWritten
  BY <1>4 DEF StoreIsLastWritten
<1>6. BasesAreEarlier
  <2> SUFFICES ASSUME NEW o \in Orders, NEW i \in 1..Len(history[o])
               PROVE  history[o][i].base < i
    BY DEF BasesAreEarlier
  <2> QED
    BY <1>4
<1>7. ChangesAnnouncedUnlessOvertaken
  <2> SUFFICES ASSUME NEW o \in Orders, NEW i \in 2..Len(history[o]) PROVE FALSE
    BY DEF ChangesAnnouncedUnlessOvertaken
  <2>1. Len(history[o]) = 0 \/ Len(history[o]) = 1
    BY <1>4
  <2>2. 2..0 = {} /\ 2..1 = {}
    OBVIOUS
  <2> QED
    BY <2>1, <2>2
<1>8. ReadsWereStored /\ WritesAreInHistory /\ SlotsAreDistinct /\ OwedIsUnannounced
  BY <1>2 DEF ReadsWereStored, WritesAreInHistory, SlotsAreDistinct, OwedIsUnannounced
<1>9. RequestsAnnounceChanges /\ AnnouncementsAreStoredVersions /\ AnnouncedOnce
  BY <1>3 DEF RequestsAnnounceChanges, AnnouncementsAreStoredVersions, AnnouncedOnce
<1> QED
  BY <1>1, <1>5, <1>6, <1>7, <1>8, <1>9 DEF SafetyInv, WritersInv

(* The inductive invariant holds in every state.                           *)
LEMMA SafetyInvariant == Spec => [](TypeInv /\ SafetyInv)
BY SafetyInit, TypeStep, SafetyStep, PTL DEF Spec

(* Every event carries a version that was stored, and the status of the    *)
(* version it was computed from; no write is announced twice.              *)
THEOREM EventsAreTruthful == Spec => [](AnnouncementsAreStoredVersions /\ AnnouncedOnce)
BY SafetyInvariant, PTL DEF SafetyInv, WritersInv

(* No change of status goes unannounced unless its update was overtaken.   *)
THEOREM ChangesAreAnnounced == Spec => []ChangesAnnouncedUnlessOvertaken
BY SafetyInvariant, PTL DEF SafetyInv, WritersInv

(* No request makes noise unless its update was overtaken.                 *)
THEOREM NoNoiseUnlessOvertaken == Spec => []NoiseOnlyWhenOvertaken
<1>1. TypeInv /\ SafetyInv => NoiseOnlyWhenOvertaken
  <2> SUFFICES ASSUME TypeInv, SafetyInv,
                      NEW o \in Orders, NEW k \in 1..Len(announced[o]),
                      NEW i, i = announced[o][k].of,
                      announced[o][k].by \in Requests, i \in 2..Len(history[o]),
                      history[o][i].base = i - 1
               PROVE  history[o][i-1].ver.status # history[o][i].ver.status
    BY DEF NoiseOnlyWhenOvertaken, Overtaken, StatusAt
  <2>1. announced[o][k].prev # announced[o][k].data.status
    BY DEF SafetyInv, WritersInv, RequestsAnnounceChanges
  <2>2. /\ announced[o][k].data = history[o][i].ver
        /\ announced[o][k].prev = history[o][i - 1].ver.status
    <3>1. /\ announced[o][k].data = history[o][i].ver
          /\ announced[o][k].prev = IF history[o][i].base = 0 THEN Absent
                                    ELSE history[o][history[o][i].base].ver.status
      BY DEF SafetyInv, WritersInv, AnnouncementsAreStoredVersions, StatusAt
    <3>2. history[o][i].base # 0
      OBVIOUS
    <3> QED
      BY <3>1, <3>2
  <2> QED
    BY <2>1, <2>2
<1> QED
  BY <1>1, SafetyInvariant, PTL

-----------------------------------------------------------------------------
(* What the barista has chosen was in the status he moves orders from.     *)
ChoiceWasRight ==
  Busy(Barista) =>
    /\ want[Barista] \in DOMAIN ForwardTo
    /\ picked \in 1..Len(history[order[Barista]])
    /\ StatusAt(order[Barista], picked) = ForwardTo[want[Barista]]

(* Versions stay where they are when others are added.                     *)
LEMMA HistoryGrows ==
  ASSUME TypeInv, [Next]_vars, NEW o \in Orders, NEW i \in 1..Len(history[o])
  PROVE  i \in 1..Len(history'[o]) /\ history'[o][i] = history[o][i]
<1> USE BaristaIsAWorker
<1>1. CASE UNCHANGED history
  BY <1>1
<1>2. ASSUME NEW w \in Workers, Write(w)
      PROVE  i \in 1..Len(history'[o]) /\ history'[o][i] = history[o][i]
  <2> DEFINE e == [ver |-> Computed(w), base |-> base[w]]
  <2>1. e \in Entry /\ history[o] \in Seq(Entry)
    BY ComputedType DEF TypeInv, TypeOK, Entry
  <2>2. history'[o] = history[o] \/ history'[o] = Append(history[o], e)
    BY <1>2 DEF Write, TypeInv, TypeOK
  <2> HIDE DEF e
  <2> QED
    BY <2>1, <2>2, AppendKeeps
<1>3. UNCHANGED history \/ \E w \in Workers : Write(w)
  BY DEF Next, Arrive, Create, Patch, Lookup, NotFound, Work, Stamp, Announce, Tick, Pick,
         BaristaLookup, TimePasses, vars
<1> QED
  BY <1>1, <1>2, <1>3

(* The barista keeps to his choice until he has announced it.              *)
LEMMA ChoiceStep == TypeInv /\ SafetyInv /\ ChoiceWasRight /\ [Next]_vars => ChoiceWasRight'
<1> SUFFICES ASSUME TypeInv, SafetyInv, ChoiceWasRight, [Next]_vars, Busy(Barista)'
             PROVE  /\ want'[Barista] \in DOMAIN ForwardTo
                    /\ picked' \in 1..Len(history'[order'[Barista]])
                    /\ history'[order'[Barista]][picked'].ver.status = ForwardTo[want'[Barista]]
  BY DEF ChoiceWasRight, StatusAt
<1> USE BaristaIsAWorker
<1>1. CASE Busy(Barista) /\ UNCHANGED picked /\ order'[Barista] = order[Barista]
                         /\ want'[Barista] = want[Barista]
  BY <1>1, HistoryGrows DEF ChoiceWasRight, StatusAt, TypeInv, BusyHasOrder
<1>2. ASSUME NEW at, NEW from, NEW to, NEW next \in {"idle", "second"},
             Pick(at, from, to, next), to \in DOMAIN ForwardTo, from = ForwardTo[to], from # Absent
      PROVE  /\ want'[Barista] \in DOMAIN ForwardTo
             /\ picked' \in 1..Len(history'[order'[Barista]])
             /\ history'[order'[Barista]][picked'].ver.status = ForwardTo[want'[Barista]]
  <2>1. PICK o \in Oldest(from) :
          order' = [order EXCEPT ![Barista] = o] /\ want' = [want EXCEPT ![Barista] = to]
          /\ picked' = Len(history[o])
    BY <1>2 DEF Pick, Goto, Busy, TypeInv, TypeOK
  <2>2. o \in Orders /\ store[o] # Absent /\ store[o].status = from
    BY <2>1 DEF Oldest
  <2>3. history[o] \in Seq(Entry) /\ history[o] # <<>>
    BY <2>2 DEF SafetyInv, WritersInv, StoreIsLastWritten, TypeInv, TypeOK
  <2>4. Len(history[o]) \in 1..Len(history[o]) /\ history[o][Len(history[o])].ver = store[o]
    BY <2>2, <2>3 DEF SafetyInv, WritersInv, StoreIsLastWritten
  <2>5. history' = history
    BY <1>2 DEF Pick
  <2> QED
    BY <1>2, <2>1, <2>2, <2>4, <2>5 DEF TypeInv, TypeOK
<1>3. CASE Tick
  BY <1>2, <1>3, AbsentAssumption DEF Tick, ForwardTo, Status
<1>4. CASE BaristaLookup
  BY <1>1, <1>4 DEF BaristaLookup, Lookup, Busy, TypeInv, TypeOK
<1>5. ASSUME NEW w \in Requests, Arrive(w)
      PROVE  Busy(Barista) /\ UNCHANGED picked /\ order'[Barista] = order[Barista]
                           /\ want'[Barista] = want[Barista]
  <2>1. w \in Workers /\ w # Barista
    BY DotnetAssumption DEF Workers
  <2> QED
    BY <1>5, <2>1 DEF Arrive, NotFound, Create, Patch, Lookup, Goto, Busy, local, TypeInv, TypeOK
<1>6. ASSUME NEW w \in Workers, Work(w)
      PROVE  Busy(Barista) /\ UNCHANGED picked /\ order'[Barista] = order[Barista]
                           /\ want'[Barista] = want[Barista]
  BY <1>6 DEF Work, Stamp, Write, Announce, Goto, Busy, local, TypeInv, TypeOK
<1>7. CASE TimePasses \/ UNCHANGED vars
  BY <1>1, <1>7 DEF TimePasses, vars, local, Busy
<1> QED
  BY <1>1, <1>3, <1>4, <1>5, <1>6, <1>7 DEF Next

LEMMA ChoiceInit == Init => ChoiceWasRight
BY BaristaIsAWorker DEF Init, ChoiceWasRight, Busy

(* If nobody wrote in between, the version he reads is the one he chose.   *)
LEMMA ReadsWhatHeChose ==
  TypeInv /\ SafetyInv /\ ChoiceWasRight => BaristaMovesForwardUnlessPatched
<1> SUFFICES ASSUME TypeInv, SafetyInv, ChoiceWasRight, BaristaAtWork, base[Barista] = picked
             PROVE  /\ want[Barista] \in DOMAIN ForwardTo
                    /\ existing[Barista].status = ForwardTo[want[Barista]]
  BY DEF BaristaMovesForwardUnlessPatched
<1>1. Holding(Barista) /\ Busy(Barista)
  BY DEF BaristaAtWork, Holding, Busy
<1>2. picked # 0 /\ existing[Barista] = history[order[Barista]][picked].ver
  BY <1>1, BaristaIsAWorker DEF SafetyInv, ReadsWereStored, ChoiceWasRight
<1> QED
  BY <1>1, <1>2 DEF ChoiceWasRight, StatusAt

(* The barista moves an order one step forward, READY after BREWING after  *)
(* PENDING, unless somebody wrote to it between OldestWithStatus and the   *)
(* lookup of SetStatus (AutoBarista.Advance).                              *)
THEOREM BaristaMovesForward == Spec => []BaristaMovesForwardUnlessPatched
BY ChoiceInit, ChoiceStep, ReadsWhatHeChose, SafetyInvariant, PTL DEF Spec

-----------------------------------------------------------------------------
(* The refinement of the atomic store, one order at a time.                *)

\* At most two writers are in the queue of a calm order, the second one only
\* in the state after its write.
LEMMA NobodyInOrder == \A f : InOrder({}, f) = <<>>
BY FS_EmptySet DEF InOrder

LEMMA OneInOrder ==
  ASSUME NEW w, NEW f, f[w] \in Nat
  PROVE  InOrder({w}, f) = <<w>>
<1> DEFINE at(k) == CHOOSE x \in {w} : Cardinality({v \in {w} : f[v] < f[x]}) = k - 1
<1>1. Cardinality({w}) = 1
  BY FS_Singleton
<1>2. {v \in {w} : f[v] < f[w]} = {}
  OBVIOUS
<1>3. Cardinality({v \in {w} : f[v] < f[w]}) = 0
  BY <1>2, FS_EmptySet
<1>4. at(1) = w
  BY <1>3
<1>5. InOrder({w}, f) = [k \in 1..1 |-> at(k)]
  BY <1>1 DEF InOrder
<1> HIDE DEF at
<1> QED
  BY <1>4, <1>5

LEMMA TwoInOrder ==
  ASSUME NEW u, NEW w, NEW f, f[u] \in Nat, f[w] \in Nat, f[u] < f[w]
  PROVE  InOrder({u, w}, f) = <<u, w>>
<1> DEFINE below(x) == {v \in {u, w} : f[v] < f[x]}
           at(k)    == CHOOSE x \in {u, w} : Cardinality(below(x)) = k - 1
<1>1. Cardinality({u, w}) = 2 /\ u # w
  <2>1. u # w
    OBVIOUS
  <2>2. IsFiniteSet({u}) /\ Cardinality({u}) = 1 /\ {u} \cup {w} = {u, w}
    BY FS_Singleton
  <2>3. Cardinality({u} \cup {w}) = 2
    BY <2>1, <2>2, FS_AddElement
  <2> QED
    BY <2>1, <2>2, <2>3
<1>2. below(u) = {} /\ below(w) = {u}
  OBVIOUS
<1>3. Cardinality(below(u)) = 0 /\ Cardinality(below(w)) = 1
  BY <1>2, FS_EmptySet, FS_Singleton
<1>4. InOrder({u, w}, f) = [k \in 1..2 |-> at(k)]
  BY <1>1 DEF InOrder
<1> HIDE DEF below
<1>5. at(1) = u /\ at(2) = w
  BY <1>1, <1>3
<1> HIDE DEF at
<1> QED
  BY <1>4, <1>5

\* What the clients have been told of an order and are owed, as one list.
Line(o) == Told(o) \o Owing(o)

Same(o) == UNCHANGED Promise(o)!vars

\* Nobody's update of the order is disturbed.
Calm(o) == \A w \in Workers : order[w] = o => ~Disturbed(w)

(* What the abstract store can do with one order.                          *)
LEMMA OneChange ==
  ASSUME NEW o \in Orders, NEW s \in Status,
         s # StatusOf(o), StatusOf(o) = Absent => s = "PENDING",
         StatusOf(o)' = s, Line(o)' = Append(Line(o), [prev |-> StatusOf(o), status |-> s])
  PROVE  Promise(o)!Next
<1> DEFINE st == [p \in {o} |-> StatusOf(p)]
           an == [p \in {o} |-> Told(p) \o Owing(p)]
<1>a. st[o] = StatusOf(o) /\ an[o] = Line(o)
  BY DEF Line
<1>b. st' = [st EXCEPT ![o] = s]
  OBVIOUS
<1>c. an' = [an EXCEPT ![o] = Append(an[o], [prev |-> st[o], status |-> s])]
  BY <1>a DEF Line
<1>1. Promise(o)!Change(o, s)
  BY <1>b, <1>c DEF Promise!Change
<1>2. CASE StatusOf(o) = Absent
  BY <1>1, <1>2, <1>a DEF Promise!Next, Promise!Create
<1>3. CASE StatusOf(o) # Absent
  BY <1>1, <1>3, <1>a DEF Promise!Next, Promise!SetStatus, Promise!Status, Status
<1> QED
  BY <1>2, <1>3

LEMMA SameIfUntouched ==
  ASSUME NEW o \in Orders, StatusOf(o)' = StatusOf(o), Line(o)' = Line(o)
  PROVE  Same(o)
BY DEF Same, Line, Promise!vars

(* What is announced has the shape the abstract store gives it.            *)
Word == [prev : Status \cup {Absent}, status : Status]

LEMMA WordsOwed ==
  ASSUME TypeInv, NEW w \in Workers
  PROVE  Owed(w) \in Word
BY ComputedType DEF Owed, Word, TypeInv, Version

LEMMA WordsTold ==
  ASSUME TypeInv, NEW o \in Orders
  PROVE  Told(o) \in Seq(Word)
<1>1. announced[o] \in Seq(Announcement)
  BY DEF TypeInv, TypeOK
<1>2. ASSUME NEW k \in 1..Len(announced[o])
      PROVE  [prev |-> announced[o][k].prev, status |-> announced[o][k].data.status] \in Word
  <2>1. announced[o][k] \in Announcement
    BY <1>1
  <2> QED
    BY <2>1 DEF Announcement, Word, Version
<1> QED
  BY <1>1, <1>2 DEF Told

(* A word that is owed last is added to the line, and told first it stays. *)
LEMMA OneMoreWord ==
  ASSUME NEW s \in Seq(Word), NEW x \in Word, NEW y \in Word
  PROVE  /\ s \o <<>> = s
         /\ s \o <<x>> = Append(s, x)
         /\ Append(s, x) \o <<>> = Append(s, x)
         /\ s \o <<y, x>> = Append(s \o <<y>>, x)
<1>1. s \o <<>> = s /\ Append(s, x) \o <<>> = Append(s, x)
  BY AppendProperties, ConcatEmptySeq
<1>2. s \o <<x>> = Append(s, x)
  OBVIOUS
<1>3. s \o <<y, x>> = Append(s \o <<y>>, x)
  OBVIOUS
<1> QED
  BY <1>1, <1>2, <1>3

(* A calm order has at most one writer that has yet to announce, and that  *)
(* one stored the newest version.                                          *)
LEMMA CalmQueue ==
  ASSUME TypeInv, SafetyInv, NEW o \in Orders, Calm(o)
  PROVE  \/ Late(o) = {} /\ Owing(o) = <<>>
         \/ \E v \in Workers : /\ Late(o) = {v} /\ Owing(o) = <<Owed(v)>>
                               /\ slot[v] = Len(history[o])
<1>1. \A v \in Late(o) : /\ v \in Workers /\ Wrote(v) /\ order[v] = o
                         /\ slot[v] = Len(history[o])
  BY DEF Late, Wrote, Calm, Disturbed
<1>2. \A u, v \in Late(o) : u = v
  BY <1>1 DEF SafetyInv, WritersInv, SlotsAreDistinct
<1>3. CASE Late(o) = {}
  BY <1>3, NobodyInOrder DEF Owing
<1>4. ASSUME NEW v \in Late(o)
      PROVE  Late(o) = {v} /\ Owing(o) = <<Owed(v)>>
  <2>1. Late(o) = {v}
    BY <1>2, <1>4
  <2>2. InOrder(Late(o), slot) = <<v>>
    BY <1>1, <2>1, OneInOrder DEF TypeInv, TypeOK
  <2> QED
    BY <2>1, <2>2 DEF Owing
<1> QED
  BY <1>1, <1>3, <1>4

(* A step that leaves an order's version, its announcements and its queue  *)
(* alone leaves the abstract store alone.                                  *)
LEMMA QueueStays ==
  ASSUME TypeInv, SafetyInv, NEW o \in Orders, Calm(o),
         store'[o] = store[o], announced'[o] = announced[o],
         Late(o)' = Late(o),
         \A v \in Late(o) : Owed(v)' = Owed(v) /\ slot'[v] = slot[v]
  PROVE  Same(o)
<1>1. StatusOf(o)' = StatusOf(o) /\ Told(o)' = Told(o)
  BY DEF StatusOf, Told
<1>2. CASE Late(o) = {} /\ Owing(o) = <<>>
  <2>1. Owing(o)' = <<>>
    BY <1>2, NobodyInOrder DEF Owing
  <2> QED
    BY <1>1, <1>2, <2>1, SameIfUntouched DEF Line
<1>3. ASSUME NEW v \in Workers, Late(o) = {v}, Owing(o) = <<Owed(v)>>
      PROVE  Same(o)
  <2>1. InOrder({v}, slot') = <<v>>
    BY <1>3, OneInOrder DEF TypeInv, TypeOK
  <2>2. Owing(o)' = <<Owed(v)>>
    BY <1>3, <2>1 DEF Owing
  <2> QED
    BY <1>1, <1>3, <2>2, SameIfUntouched DEF Line
<1> QED
  BY <1>2, <1>3, CalmQueue

(* Storing: a change, which is owed from here on, or nothing.              *)
LEMMA WriteIsAChange ==
  ASSUME TypeInv, SafetyInv, NEW w \in Workers, Write(w), NEW o \in Orders, Calm(o)
  PROVE  Promise(o)!Next \/ Same(o)
<1> DEFINE n == Len(history[o])
           x == Owed(w)
<1>1. /\ order[w] \in Orders /\ Holding(w) /\ ~Wrote(w) /\ n \in Nat
      /\ UNCHANGED <<announced, order, want, existing, stamp, base>>
      /\ \A v \in Workers : Wrote(v)' <=> Wrote(v) \/ v = w
      /\ \A v \in Workers : v # w => slot'[v] = slot[v]
  BY DEF Write, Goto, Wrote, Holding, TypeInv, TypeOK, BusyHasOrder, Busy
<1>2. \A v \in Workers : Owed(v)' = Owed(v)
  BY <1>1 DEF Owed, PreviousStatus, Computed
<1>3. \A p \in Orders :
        Late(p)' = IF p = order[w] /\ PreviousStatus(w) # Computed(w).status
                   THEN Late(p) \cup {w} ELSE Late(p)
  BY <1>1 DEF Late, Wrote, PreviousStatus, Computed
<1>4. w \notin Late(o)
  BY <1>1 DEF Late, Wrote
<1>5. CASE o # order[w]
  <2>1. store'[o] = store[o]
    BY <1>1, <1>5 DEF Write, TypeInv, TypeOK
  <2> QED
    BY <1>1, <1>2, <1>3, <1>4, <1>5, <2>1, QueueStays DEF Late
<1>6. CASE o = order[w]
  <2>1. base[w] = n /\ slot'[w] = n + 1 /\ store'[o] = Computed(w)
    BY <1>1, <1>6 DEF Calm, Disturbed, Write, TypeInv, TypeOK
  <2>2. StatusOf(o) = PreviousStatus(w)
    <3>1. existing[w] = IF n = 0 THEN Absent ELSE history[o][n].ver
      BY <1>1, <1>6, <2>1 DEF SafetyInv, ReadsWereStored
    <3>2. store[o] = IF history[o] = <<>> THEN Absent ELSE history[o][n].ver
      BY DEF SafetyInv, WritersInv, StoreIsLastWritten
    <3>3. history[o] = <<>> <=> n = 0
      BY DEF TypeInv, TypeOK
    <3> QED
      BY <3>1, <3>2, <3>3 DEF StatusOf, PreviousStatus
  <2>3. Computed(w) \in Version /\ StatusOf(o)' = Computed(w).status
    BY <2>1, ComputedType, AbsentAssumption DEF TypeInv, StatusOf
  <2>4. Told(o)' = Told(o) /\ Told(o) \in Seq(Word) /\ x \in Word
    BY <1>1, WordsTold, WordsOwed DEF Told
  <2>5. CASE PreviousStatus(w) = Computed(w).status
    <3>1. Late(o)' = Late(o)
      BY <1>3, <2>5
    <3>2. CASE Late(o) = {} /\ Owing(o) = <<>>
      <4>1. Owing(o)' = <<>>
        BY <3>1, <3>2, NobodyInOrder DEF Owing
      <4> QED
        BY <2>2, <2>3, <2>4, <2>5, <3>2, <4>1, SameIfUntouched DEF Line
    <3>3. ASSUME NEW v \in Workers, Late(o) = {v}, Owing(o) = <<Owed(v)>>
          PROVE  Same(o)
      <4>1. v # w /\ InOrder({v}, slot') = <<v>>
        BY <1>1, <1>4, <3>3, OneInOrder DEF TypeInv, TypeOK
      <4>2. Owing(o)' = <<Owed(v)>>
        BY <1>2, <3>1, <3>3, <4>1 DEF Owing
      <4> QED
        BY <2>2, <2>3, <2>4, <2>5, <3>3, <4>2, SameIfUntouched DEF Line
    <3> QED
      BY <3>2, <3>3, CalmQueue
  <2>6. CASE PreviousStatus(w) # Computed(w).status
    <3>1. Line(o)' = Append(Line(o), x)
      <4>1. CASE Late(o) = {} /\ Owing(o) = <<>>
        <5>1. Late(o)' = {w}
          BY <1>3, <1>6, <2>6, <4>1
        <5>2. InOrder({w}, slot') = <<w>>
          <6>1. slot'[w] \in Nat
            BY <1>1, <2>1
          <6> QED
            BY <6>1, OneInOrder
        <5>3. Owing(o)' = <<x>>
          BY <1>2, <5>1, <5>2 DEF Owing
        <5> QED
          BY <2>4, <4>1, <5>3, OneMoreWord DEF Line
      <4>2. ASSUME NEW v \in Workers, Late(o) = {v}, Owing(o) = <<Owed(v)>>, slot[v] = n
            PROVE  Line(o)' = Append(Line(o), x)
        <5>1. v # w /\ Late(o)' = {v, w}
          BY <1>3, <1>4, <1>6, <2>6, <4>2
        <5>2. slot'[v] = n /\ slot'[w] = n + 1
          BY <1>1, <2>1, <4>2, <5>1
        <5>3. InOrder({v, w}, slot') = <<v, w>>
          <6>1. slot'[v] \in Nat /\ slot'[w] \in Nat /\ slot'[v] < slot'[w]
            BY <1>1, <5>2
          <6> QED
            BY <6>1, TwoInOrder
        <5>4. Owing(o)' = <<Owed(v), x>>
          BY <1>2, <5>1, <5>3 DEF Owing
        <5> QED
          BY <2>4, <4>2, <5>4, OneMoreWord, WordsOwed DEF Line
      <4> QED
        BY <4>1, <4>2, CalmQueue
    <3>2. x = [prev |-> StatusOf(o), status |-> Computed(w).status]
      BY <2>2 DEF Owed
    <3>3. StatusOf(o) = Absent => Computed(w).status = "PENDING"
      <4>1. CASE existing[w] = Absent
        BY <4>1 DEF Computed
      <4>2. CASE existing[w] # Absent
        <5>1. existing[w].status # Absent
          BY <4>2, AbsentAssumption DEF TypeInv, TypeOK, Version
        <5> QED
          BY <2>2, <4>2, <5>1 DEF PreviousStatus
      <4> QED
        BY <4>1, <4>2
    <3>4. Computed(w).status \in Status
      BY <2>3 DEF Version
    <3> QED
      BY <2>2, <2>3, <2>6, <3>1, <3>2, <3>3, <3>4, OneChange
  <2> QED
    BY <2>5, <2>6
<1> QED
  BY <1>5, <1>6

(* The barista, who always announces, has then made a change.              *)
LEMMA BaristaMadeAChange ==
  ASSUME TypeInv, SafetyInv, ChoiceWasRight, Wrote(Barista), base[Barista] = picked
  PROVE  PreviousStatus(Barista) # Computed(Barista).status
<1>1. /\ want[Barista] \in DOMAIN ForwardTo
      /\ existing[Barista].status = ForwardTo[want[Barista]]
  BY ReadsWhatHeChose DEF BaristaMovesForwardUnlessPatched, BaristaAtWork, Wrote
<1>2. picked # 0 /\ existing[Barista] = history[order[Barista]][picked].ver
  BY BaristaIsAWorker DEF SafetyInv, ReadsWereStored, ChoiceWasRight, Holding, Busy, Wrote
<1>3. order[Barista] \in Orders /\ picked \in 1..Len(history[order[Barista]])
  BY BaristaIsAWorker DEF TypeInv, BusyHasOrder, Busy, Wrote, ChoiceWasRight
<1>4. existing[Barista] \in Version /\ existing[Barista] # Absent
  BY <1>2, <1>3, EntryAt, AbsentAssumption DEF TypeInv
<1>5. Computed(Barista).status = want[Barista]
  BY <1>4 DEF Computed, Version
<1> QED
  BY <1>1, <1>4, <1>5 DEF PreviousStatus, ForwardTo

(* Announcing: what was owed has been told, which clients cannot tell from *)
(* its having been told with the write.                                    *)
LEMMA AnnouncingShowsNothing ==
  ASSUME TypeInv, SafetyInv, ChoiceWasRight, NEW w \in Workers, Announce(w),
         NEW o \in Orders, Calm(o)
  PROVE  Same(o)
<1> DEFINE a == [prev |-> PreviousStatus(w), data |-> Computed(w), of |-> slot[w], by |-> w]
<1>1. /\ order[w] \in Orders /\ Wrote(w)
      /\ UNCHANGED <<store, history, order, want, existing, stamp, base, slot>>
      /\ \A v \in Workers : Wrote(v)' <=> Wrote(v) /\ v # w
  BY DEF Announce, Goto, Wrote, TypeInv, TypeOK, BusyHasOrder, Busy, local
<1>2. \A v \in Workers : Owed(v)' = Owed(v)
  BY <1>1 DEF Owed, PreviousStatus, Computed
<1>3. \A p \in Orders : Late(p)' = Late(p) \ {w}
  BY <1>1 DEF Late, Wrote, PreviousStatus, Computed
<1>4. CASE o # order[w]
  <2>1. announced'[o] = announced[o]
    BY <1>1, <1>4 DEF Announce, TypeInv, TypeOK
  <2>2. Late(o)' = Late(o)
    BY <1>3, <1>4 DEF Late
  <2> QED
    BY <1>1, <1>2, <2>1, <2>2, QueueStays DEF Late
<1>5. CASE o = order[w] /\ w \notin Late(o)
  <2>1. PreviousStatus(w) = Computed(w).status
    BY <1>1, <1>5 DEF Late, Wrote
  <2>2. ~Noteworthy(w)
    <3>1. w # Barista
      BY <1>1, <1>5, <2>1, BaristaMadeAChange DEF Calm, Disturbed, Wrote
    <3> QED
      BY <2>1, <3>1 DEF Noteworthy
  <2>3. announced'[o] = announced[o]
    BY <1>1, <1>5, <2>2 DEF Announce, TypeInv, TypeOK
  <2>4. Late(o)' = Late(o)
    BY <1>3, <1>5
  <2> QED
    BY <1>1, <1>2, <2>3, <2>4, QueueStays DEF Late
<1>6. CASE o = order[w] /\ w \in Late(o)
  <2>1. Late(o) = {w} /\ Owing(o) = <<Owed(w)>>
    BY <1>6, CalmQueue
  <2>2. Late(o)' = {} /\ Owing(o)' = <<>>
    <3>1. Late(o)' = {}
      BY <1>3, <2>1
    <3> QED
      BY <3>1, NobodyInOrder DEF Owing
  <2>3. announced'[o] = Append(announced[o], a)
    <3>1. Noteworthy(w)
      BY <1>6 DEF Late, Noteworthy
    <3> QED
      BY <1>1, <1>6, <3>1 DEF Announce, TypeInv, TypeOK
  <2>4. Told(o)' = Append(Told(o), Owed(w))
    <3>1. announced[o] \in Seq(Announcement) /\ a \in Announcement
      BY ComputedType DEF TypeInv, TypeOK, Announcement
    <3>2. a.prev = PreviousStatus(w) /\ a.data.status = Computed(w).status
      OBVIOUS
    <3> HIDE DEF a
    <3> QED
      BY <2>3, <3>1, <3>2, AppendKeeps DEF Told, Owed
  <2>5. StatusOf(o)' = StatusOf(o)
    BY <1>1 DEF StatusOf
  <2>6. Told(o) \in Seq(Word) /\ Owed(w) \in Word
    BY WordsTold, WordsOwed
  <2>7. Line(o) = Append(Told(o), Owed(w))
    BY <2>1, <2>6, OneMoreWord DEF Line
  <2>8. Line(o)' = Append(Told(o), Owed(w)) \o <<>>
    BY <2>2, <2>4 DEF Line
  <2> QED
    BY <2>5, <2>6, <2>7, <2>8, OneMoreWord, SameIfUntouched
<1> QED
  BY <1>4, <1>5, <1>6

(* A step that neither stores nor announces.                               *)
LEMMA OtherShowsNothing ==
  ASSUME TypeInv, SafetyInv, UNCHANGED <<store, announced, slot>>,
         \A v \in Workers : Wrote(v)' <=> Wrote(v),
         \A v \in Workers : Wrote(v) => /\ order'[v] = order[v] /\ want'[v] = want[v]
                                        /\ existing'[v] = existing[v] /\ stamp'[v] = stamp[v],
         NEW o \in Orders, Calm(o)
  PROVE  Same(o)
<1>1. \A v \in Workers : Wrote(v) => PreviousStatus(v)' = PreviousStatus(v)
                                     /\ Computed(v)' = Computed(v)
  BY DEF PreviousStatus, Computed
<1>2. Late(o)' = Late(o)
  BY <1>1 DEF Late, Wrote
<1>3. \A v \in Late(o) : Owed(v)' = Owed(v)
  BY <1>1 DEF Late, Owed, Wrote
<1> QED
  BY <1>2, <1>3, QueueStays

(* The steps of the store, one order at a time.                            *)
LEMMA EveryStepIsKept ==
  ASSUME TypeInv, SafetyInv, ChoiceWasRight, [Next]_vars, NEW o \in Orders, Calm(o)
  PROVE  Promise(o)!Next \/ Same(o)
<1> USE BaristaIsAWorker
<1>1. ASSUME NEW w \in Workers, NEW p \in Orders, NEW s \in Status, ~Wrote(w), Lookup(w, p, s)
      PROVE  Same(o)
  BY <1>1, OtherShowsNothing DEF Lookup, Goto, Wrote, TypeInv, TypeOK
<1>2. ASSUME NEW w \in Requests, Arrive(w) PROVE Same(o)
  <2>1. w \in Workers
    BY DEF Workers
  <2>2. CASE NotFound(w)
    BY <2>1, <2>2, OtherShowsNothing DEF NotFound, Goto, local, Wrote, TypeInv, TypeOK
  <2>3. CASE \E p \in Orders : Create(w, p)
    BY <1>1, <2>1, <2>3 DEF Create, Status, Wrote
  <2>4. CASE \E p \in Orders, s \in Status : Patch(w, p, s)
    BY <1>1, <2>1, <2>4 DEF Patch, Wrote
  <2> QED
    BY <1>2, <2>2, <2>3, <2>4 DEF Arrive
<1>3. ASSUME NEW w \in Workers, Work(w) PROVE Promise(o)!Next \/ Same(o)
  <2>1. CASE Stamp(w)
    BY <2>1, OtherShowsNothing DEF Stamp, Goto, Wrote, TypeInv, TypeOK
  <2> QED
    BY <1>3, <2>1, WriteIsAChange, AnnouncingShowsNothing DEF Work
<1>4. ASSUME NEW at \in {"idle", "second"}, NEW from, NEW to, NEW next \in {"idle", "second"},
             Pick(at, from, to, next)
      PROVE  Same(o)
  <2>1. UNCHANGED <<store, announced, existing, stamp, slot>>
    BY <1>4 DEF Pick, local
  <2>2. \A v \in Workers \ {Barista} : pc'[v] = pc[v] /\ order'[v] = order[v] /\ want'[v] = want[v]
    BY <1>4 DEF Pick, Goto, local, TypeInv, TypeOK
  <2>3. pc[Barista] \in {"idle", "second"} /\ pc'[Barista] \in {"idle", "second", "picked"}
    BY <1>4 DEF Pick, Goto, TypeInv, TypeOK
  <2> QED
    BY <2>1, <2>2, <2>3, OtherShowsNothing DEF Wrote
<1>5. CASE Tick
  BY <1>4, <1>5 DEF Tick
<1>6. CASE BaristaLookup
  BY <1>1, <1>6 DEF BaristaLookup, Wrote, TypeInv, TypeOK, BusyHasOrder, Busy
<1>7. CASE TimePasses \/ UNCHANGED vars
  BY <1>7, OtherShowsNothing DEF TimePasses, vars, local, Wrote
<1> QED
  BY <1>2, <1>3, <1>5, <1>6, <1>7 DEF Next

(* The seeded store is one the abstract store may begin with.              *)
LEMMA PromiseInit == Init => \A o \in Orders : Promise(o)!Init
<1> SUFFICES ASSUME Init, NEW o \in Orders PROVE Promise(o)!Init
  OBVIOUS
<1>1. TypeInv
  BY InitType
<1>2. StatusOf(o) \in Status \cup {Absent}
  BY <1>1 DEF StatusOf, TypeInv, TypeOK, Version
<1>3. Told(o) = <<>>
  <2>1. announced[o] = <<>> /\ Len(announced[o]) = 0
    BY DEF Init
  <2> QED
    BY <2>1 DEF Told
<1>4. Owing(o) = <<>>
  <2>1. Late(o) = {}
    BY DEF Init, Late
  <2> QED
    BY <2>1, NobodyInOrder DEF Owing
<1>5. Told(o) \o Owing(o) = <<>>
  BY <1>3, <1>4
<1> QED
  BY <1>2, <1>5 DEF Promise!Init, Promise!Status, Status

(* Of every order the .NET store is the atomic store, a change and its     *)
(* announcement in one step, but for the steps taken while a write         *)
(* disturbs an update of that order (InMemoryOrderRepository,              *)
(* OrdersController, AutoBarista).                                         *)
THEOREM DotnetImplementsAtomicOrders == Spec => ImplementsAtomicOrders
<1> DEFINE begun == \A o \in Orders : Promise(o)!Init
           kept  == \A o \in Orders :
                      \/ Promise(o)!Next \/ UNCHANGED Promise(o)!vars
                      \/ \E w \in Workers : order[w] = o /\ Disturbed(w)
<1>1. TypeInv /\ SafetyInv /\ ChoiceWasRight /\ [Next]_vars => [kept]_vars
  BY EveryStepIsKept DEF Calm, Same
<1>2. ImplementsAtomicOrders <=> begun /\ [][kept]_vars
  BY DEF ImplementsAtomicOrders
<1>3. Init => begun
  BY PromiseInit
<1> HIDE DEF begun, kept
<1> QED
  BY <1>1, <1>2, <1>3, ChoiceInit, ChoiceStep, SafetyInvariant, PTL DEF Spec


-----------------------------------------------------------------------------
(* What that is worth to a client.                                         *)

\* A list of announcements that somebody who follows it can replay: each one is
\* a change, begins where the one before it ended, and the last one ends here.
Replays(line, here) ==
  LET n == Len(line) IN
  /\ \A k \in 1..n : line[k].prev # line[k].status
  /\ \A k \in 1..n-1 : line[k].status = line[k + 1].prev
  /\ n > 0 => line[n].status = here

(* One more change.                                                        *)
LEMMA ReplaysOn ==
  ASSUME NEW line \in Seq(Word), NEW here \in Status \cup {Absent}, Replays(line, here),
         NEW s \in Status, s # here
  PROVE  Replays(Append(line, [prev |-> here, status |-> s]), s)
<1> DEFINE x == [prev |-> here, status |-> s]
           n == Len(line)
<1>1. x \in Word /\ x.prev = here /\ x.status = s
  BY DEF Word
<1> HIDE DEF x
<1>2. /\ n \in Nat /\ Len(Append(line, x)) = n + 1 /\ Append(line, x)[n + 1] = x
      /\ \A k \in 1..n : Append(line, x)[k] = line[k]
  BY <1>1, AppendKeeps
<1> DEFINE more == Append(line, x)
<1> HIDE DEF more
<1>3. \A k \in 1..n+1 : more[k].prev # more[k].status
  <2> SUFFICES ASSUME NEW k \in 1..n+1 PROVE more[k].prev # more[k].status
    OBVIOUS
  <2>1. CASE k = n + 1
    BY <1>1, <1>2, <2>1 DEF more
  <2>2. CASE k # n + 1
    BY <1>2, <2>2 DEF more, Replays
  <2> QED
    BY <2>1, <2>2
<1>4. \A k \in 1..n : more[k].status = more[k + 1].prev
  <2> SUFFICES ASSUME NEW k \in 1..n PROVE more[k].status = more[k + 1].prev
    OBVIOUS
  <2>1. CASE k = n
    BY <1>1, <1>2, <2>1 DEF more, Replays
  <2>2. CASE k # n
    <3>1. k \in 1..n-1 /\ k + 1 \in 1..n
      BY <1>2, <2>2
    <3> QED
      BY <1>2, <3>1 DEF more, Replays
  <2> QED
    BY <2>1, <2>2
<1>5. Len(more) = n + 1 /\ more[n + 1].status = s
  BY <1>1, <1>2 DEF more
<1>6. Replays(more, s)
  BY <1>2, <1>3, <1>4, <1>5 DEF Replays
<1> QED
  BY <1>6 DEF more, x

(* It is the promise of the abstract store, for one order.                 *)
LEMMA PromiseIsReplay ==
  ASSUME NEW o \in Orders
  PROVE  /\ Promise(o)!ReplayGivesOrders <=> Replays(Line(o), StatusOf(o))
         /\ (Promise(o)!ReplayGivesOrders)' <=> Replays(Line(o), StatusOf(o))'
BY DEF Promise!ReplayGivesOrders, Replays, Line

(* What a calm order's clients have been told and are owed.                *)
LEMMA LineType ==
  ASSUME TypeInv, SafetyInv, ChoiceWasRight, NEW o \in Orders, Calm(o)
  PROVE  Line(o) \in Seq(Word) /\ StatusOf(o) \in Status \cup {Absent}
<1>1. Told(o) \in Seq(Word)
  BY WordsTold
<1>2. Owing(o) \in Seq(Word)
  <2>1. <<>> \in Seq(Word)
    OBVIOUS
  <2>2. ASSUME NEW v \in Workers PROVE <<Owed(v)>> \in Seq(Word)
    BY WordsOwed
  <2> QED
    BY <2>1, <2>2, CalmQueue
<1>3. StatusOf(o) \in Status \cup {Absent}
  BY DEF StatusOf, TypeInv, TypeOK, Version
<1> QED
  BY <1>1, <1>2, <1>3 DEF Line

(* A step of the abstract store.                                           *)
LEMMA ChangeReplays ==
  ASSUME TypeInv, SafetyInv, ChoiceWasRight, NEW o \in Orders, Calm(o),
         Replays(Line(o), StatusOf(o)), Promise(o)!Next \/ Same(o)
  PROVE  Replays(Line(o), StatusOf(o))'
<1> DEFINE st == [p \in {o} |-> StatusOf(p)]
           an == [p \in {o} |-> Told(p) \o Owing(p)]
<1>1. st[o] = StatusOf(o) /\ an[o] = Line(o) /\ st'[o] = StatusOf(o)' /\ an'[o] = Line(o)'
  BY DEF Line
<1>2. CASE Same(o)
  <2>1. st' = st /\ an' = an
    BY <1>2 DEF Same, Promise!vars
  <2>2. Line(o)' = Line(o) /\ StatusOf(o)' = StatusOf(o)
    BY <1>1, <2>1
  <2> QED
    BY <2>2
<1>3. CASE Promise(o)!Next
  <2>1. PICK s \in Status :
          /\ s # StatusOf(o)
          /\ st' = [st EXCEPT ![o] = s]
          /\ an' = [an EXCEPT ![o] = Append(an[o], [prev |-> st[o], status |-> s])]
    BY <1>1, <1>3, AbsentAssumption DEF Promise!Next, Promise!Create, Promise!SetStatus,
       Promise!Change, Promise!Status, Status
  <2>2. StatusOf(o)' = s /\ Line(o)' = Append(Line(o), [prev |-> StatusOf(o), status |-> s])
    BY <1>1, <2>1
  <2>3. Replays(Append(Line(o), [prev |-> StatusOf(o), status |-> s]), s)
    BY <2>1, LineType, ReplaysOn
  <2> QED
    BY <2>2, <2>3
<1> QED
  BY <1>2, <1>3

(* As long as nobody's update of an order is disturbed, whoever replays    *)
(* the announcements made and still owed arrives at its status: each says  *)
(* where the one before it ended (OrdersController.ApplyStatus, AutoBarista).*)
THEOREM UndisturbedDotnetOrdersReplay ==
  ASSUME NEW o \in Orders
  PROVE  Spec /\ []Calm(o) => []Promise(o)!ReplayGivesOrders
<1> DEFINE held == Promise(o)!ReplayGivesOrders
<1>1. Init => held
  <2> SUFFICES ASSUME Init PROVE Replays(Line(o), StatusOf(o))
    BY PromiseIsReplay
  <2>1. Promise(o)!Init
    BY PromiseInit
  <2>2. Line(o) = <<>>
    BY <2>1 DEF Promise!Init, Line
  <2> QED
    BY <2>2 DEF Replays
<1>2. TypeInv /\ SafetyInv /\ ChoiceWasRight /\ Calm(o) /\ held /\ [Next]_vars => held'
  BY PromiseIsReplay, EveryStepIsKept, ChangeReplays
<1>3. held <=> Promise(o)!ReplayGivesOrders
  OBVIOUS
<1> HIDE DEF held
<1> QED
  BY <1>1, <1>2, <1>3, ChoiceInit, ChoiceStep, SafetyInvariant, PTL DEF Spec
=============================================================================
