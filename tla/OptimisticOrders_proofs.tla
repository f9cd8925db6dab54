---------------------- MODULE OptimisticOrders_proofs ----------------------
(***************************************************************************)
(* Proofs about OptimisticOrders, for any orders, clocks and numbers of    *)
(* changes, clicks and failures.                                           *)
(***************************************************************************)
EXTENDS OptimisticOrders, SequenceTheorems, TLAPS

Asked    == [at : {"sent", "served"}, order : Orders, to : Status, previous : List, ver : Nat]
Mutation == {Waiting, Replaced, Settled} \cup Asked

(* The server is where the events and answers it has sent have come from.  *)
Served(o, v) == server[o] # Absent /\ v # Guess /\ v <= server[o].ver

ServerIsAhead ==
  /\ version # 0
  /\ \A o \in Orders :
       /\ server[o] = Absent => heard[o] = 0
       /\ server[o] # Absent => Served(o, server[o].ver) /\ server[o].ver <= version
       /\ heard[o] # 0 => Served(o, heard[o])
  /\ \A e \in events : Served(e.order, e.data.ver)
  /\ \A k \in DOMAIN patch : patch[k].at = "served" => Served(patch[k].order, patch[k].ver)

(* A list bears the stamps of the server, but for what the tab made up.    *)
Stamped(v)   == v.ver = Guess \/ v.at = Stamp(v.ver)
IsStamped(l) == \A o \in Orders : l[o] # Absent => Stamped(l[o])

StampsAreTrue ==
  /\ IsStamped(server) /\ IsStamped(cache)
  /\ fetch.at = "served" => IsStamped(fetch.data)
  /\ \A e \in events : Stamped(e.data)
  /\ \A k \in DOMAIN patch : Pending(k) => IsStamped(patch[k].previous)

(* A list with the server's word on each order, and none older than heard. *)
Knows(l) ==
  \A o \in Orders : IF l[o] = Absent THEN heard[o] = 0
                    ELSE l[o].ver # Guess /\ l[o].ver >= heard[o]

Planned == timer \/ \E k \in DOMAIN patch : Pending(k)

(* What is wrong is put right by a fetch, under way or planned.            *)
FetchIsDue ==
  /\ fetch.at = "served" => Planned \/ Knows(fetch.data)
  /\ fetch # Idle /\ fetch.tries = 1 => faults >= 1
  /\ faults < 2 => Planned \/ fetch # Idle \/ Knows(cache)

(* A click cancels the fetch, and the next one is asked for after it.      *)
FetchIsNewer == fetch # Idle => fetch.clicks = Len(patch)

Safe == ServerIsAhead /\ StampsAreTrue /\ FetchIsDue /\ FetchIsNewer

Inv == TypeOK /\ Safe

-----------------------------------------------------------------------------
(* The clock.                                                              *)

(* Stamps are numbers.                                                     *)
LEMMA StampIsInt == \A v \in Nat : Stamp(v) \in Int
BY OptimisticAssumption DEF Stamp

(* A later stamp is that of a later change.                                *)
LEMMA StampGrows ==
  ASSUME NEW v \in Nat, NEW w \in Nat, Stamp(v) < Stamp(w)
  PROVE  v < w
BY OptimisticAssumption DEF Stamp

-----------------------------------------------------------------------------
(* The mutations.                                                          *)

(* A mutation waits for its answer, waits for a fetch, or is over.         *)
LEMMA Mutations ==
  ASSUME TypeOK
  PROVE  /\ patch \in Seq(Mutation) /\ Len(patch) \in Nat /\ DOMAIN patch = 1..Len(patch)
         /\ \A k \in DOMAIN patch :
              /\ patch[k] \in Mutation
              /\ Pending(k) => patch[k] \in Asked
              /\ patch[k] \in {Waiting, Replaced, Settled} => ~Pending(k)
<1>1. patch \in Seq(Mutation)
  BY DEF TypeOK, Mutation, Asked
<1>2. Len(patch) \in Nat /\ DOMAIN patch = 1..Len(patch) /\ \A k \in DOMAIN patch : patch[k] \in Mutation
  BY <1>1, LenProperties
<1>3. \A m \in {Waiting, Replaced, Settled} : m.at \notin {"sent", "served"}
  BY DEF Waiting, Replaced, Settled
<1> QED
  BY <1>1, <1>2, <1>3 DEF Mutation, Pending

(* One mutation moves on, the others stay.                                 *)
LEMMA MoveOn ==
  ASSUME NEW before \in Seq(Mutation), NEW k \in DOMAIN before, NEW m \in Mutation,
         NEW calls, calls = [before EXCEPT ![k] = m]
  PROVE  /\ calls \in Seq(Mutation) /\ DOMAIN calls = DOMAIN before /\ Len(calls) = Len(before)
         /\ calls[k] = m /\ \A j \in DOMAIN before \ {k} : calls[j] = before[j]
<1>1. DOMAIN before = 1..Len(before)
  BY LenProperties
<1>2. calls \in Seq(Mutation) /\ Len(calls) = Len(before)
  BY <1>1, ExceptSeq
<1>3. DOMAIN calls = DOMAIN before
  BY <1>1, <1>2, LenProperties
<1> QED
  BY <1>2, <1>3

(* Those that wait for a fetch are over with it, or handed over when it is *)
(* replaced; the others stay.                                              *)
LEMMA Release ==
  ASSUME TypeOK, NEW calls, calls = Released(patch) \/ calls = HandOver(patch)
  PROVE  /\ calls \in Seq(Mutation) /\ DOMAIN calls = DOMAIN patch /\ Len(calls) = Len(patch)
         /\ \A k \in DOMAIN patch : \/ calls[k] = patch[k]
                                    \/ calls[k] \in {Replaced, Settled} /\ ~Pending(k)
<1>1. ASSUME NEW k \in DOMAIN patch
      PROVE  /\ calls[k] \in Mutation
             /\ \/ calls[k] = patch[k]
                \/ calls[k] \in {Replaced, Settled} /\ ~Pending(k)
  <2>1. CASE calls = Released(patch)
    BY <2>1, Mutations DEF Released, Mutation
  <2>2. CASE calls = HandOver(patch)
    BY <2>2, Mutations DEF HandOver, Mutation
  <2> QED
    BY <2>1, <2>2
<1>2. DOMAIN calls = 1..Len(patch) /\ calls = [k \in 1..Len(patch) |-> calls[k]]
  BY Mutations DEF Released, HandOver
<1>3. calls \in [1..Len(patch) -> Mutation]
  BY <1>1, <1>2, Mutations
<1>4. calls \in Seq(Mutation)
  BY <1>3, Mutations, SeqDef
<1>5. Len(calls) = Len(patch)
  BY <1>2, <1>4, Mutations, LenProperties
<1> QED
  BY <1>1, <1>2, <1>4, <1>5, Mutations

(* The callbacks leave an order busy or none.                              *)
LEMMA SettleType ==
  ASSUME TypeOK, NEW calls, Settle(calls)
  PROVE  patch' = calls /\ busy' \in Orders \cup {None}
BY DEF Settle, TypeOK

-----------------------------------------------------------------------------
(* Types.                                                                  *)
Event == [order : Orders, data : Version]

(* The fetch there is, if any.                                             *)
LEMMA FetchKinds ==
  ASSUME TypeOK
  PROVE  \/ fetch = Idle /\ fetch.at = "idle"
         \/ fetch # Idle /\ fetch.at = "sent" /\ fetch.tries \in 0..1 /\ fetch.clicks \in Nat
         \/ /\ fetch # Idle /\ fetch.at = "served" /\ fetch.tries \in 0..1 /\ fetch.clicks \in Nat
            /\ fetch.data \in List
BY DEF TypeOK, Idle

(* The server stores and announces.                                        *)
LEMMA StoreType ==
  ASSUME TypeOK, NEW o \in Orders, NEW s \in Status, Store(o, s)
  PROVE  /\ version' = version + 1 /\ version' \in Nat /\ server' \in List
         /\ server'[o] \in Version /\ server'[o].ver = version' /\ server'[o].at = Stamp(version')
         /\ \A u \in Orders \ {o} : server'[u] = server[u]
         /\ events' \subseteq Event
         /\ \A e \in events' : e \in events \/ (e.order = o /\ e.data = server'[o])
<1>1. version' = version + 1 /\ version' \in Nat
  BY DEF Store, TypeOK
<1> DEFINE v == [status |-> s, at |-> Stamp(version'), ver |-> version']
<1>2. v \in Version /\ v.ver = version' /\ v.at = Stamp(version')
  BY <1>1, StampIsInt DEF Version
<1>3. server' = [server EXCEPT ![o] = v]
  BY DEF Store
<1>4. \A e \in events' : e \in events \/ e = [order |-> o, data |-> server'[o]]
  BY DEF Store
<1> HIDE DEF v
<1>5. server' \in List /\ server'[o] = v /\ \A u \in Orders \ {o} : server'[u] = server[u]
  BY <1>2, <1>3 DEF TypeOK, List
<1>6. events' \subseteq Event
  BY <1>2, <1>4, <1>5 DEF TypeOK, Event
<1> QED
  BY <1>1, <1>2, <1>4, <1>5, <1>6

(* The next status of an order that has one.                               *)
LEMMA NextIsStatus == \A s \in DOMAIN NextStatus : NextStatus[s] \in Status
BY DEF NextStatus, Status

(* An order changes elsewhere.                                             *)
LEMMA ElsewhereType ==
  ASSUME TypeOK, NEW o \in Orders, ChangeElsewhere(o)
  PROVE  TypeOK' /\ \E s \in Status : Store(o, s)
<1>1. PICK s \in Status : Store(o, s)
  <2>1. CASE server[o] = Absent /\ Store(o, "PENDING")
    BY <2>1 DEF Status
  <2>2. CASE StatusIn(server, o) \in DOMAIN NextStatus /\ Store(o, NextStatus[server[o].status])
    <3>1. server[o].status \in DOMAIN NextStatus
      BY <2>2, OptimisticAssumption DEF StatusIn, NextStatus, Status
    <3> QED
      BY <2>2, <3>1, NextIsStatus
  <2> QED
    BY <2>1, <2>2 DEF ChangeElsewhere
<1>2. version' \in Nat /\ server' \in List /\ events' \subseteq Event
  BY <1>1, StoreType
<1>3. TypeOK'
  BY <1>2 DEF ChangeElsewhere, TypeOK, Event, board
<1> QED
  BY <1>1, <1>3

(* The stream is made, breaks, or brings an event.                         *)
LEMMA StreamType ==
  ASSUME TypeOK, Connect \/ Disconnect \/ \E e \in events : OnEvent(e)
  PROVE  TypeOK'
<1>1. CASE Connect
  BY <1>1 DEF Connect, TypeOK, service, board
<1>2. CASE Disconnect
  <2>1. connection' \in {"connecting", "open", "closed"} /\ faults' \in Nat /\ events' = {}
    BY <1>2 DEF Disconnect, TypeOK
  <2> QED
    BY <1>2, <2>1 DEF Disconnect, TypeOK, service, board
<1>3. ASSUME NEW e \in events, OnEvent(e) PROVE TypeOK'
  <2>1. e.order \in Orders /\ e.data \in Version /\ e.data.ver \in Nat
    BY DEF TypeOK, Version
  <2>2. cache' \in List
    BY <1>3, <2>1 DEF OnEvent, ApplyEvent, TypeOK, List
  <2>3. heard' \in [Orders -> Nat]
    BY <1>3, <2>1 DEF OnEvent, Hear, TypeOK
  <2>4. events' \subseteq events
    BY <1>3 DEF OnEvent
  <2> QED
    BY <1>3, <2>2, <2>3, <2>4 DEF OnEvent, TypeOK, service, board
<1> QED
  BY <1>1, <1>2, <1>3

(* Nothing that waits for its answer is concerned when a fetch is over or  *)
(* replaced.                                                               *)
LEMMA FetchOverType ==
  ASSUME TypeOK, FetchOver \/ Settle(HandOver(patch))
  PROVE  /\ patch' \in Seq(Mutation) /\ DOMAIN patch' = DOMAIN patch /\ Len(patch') = Len(patch)
         /\ busy' \in Orders \cup {None}
         /\ \A k \in DOMAIN patch : /\ Pending(k)' <=> Pending(k)
                                    /\ Pending(k) => patch'[k] = patch[k]
<1>1. (patch' = Released(patch) \/ patch' = HandOver(patch)) /\ busy' \in Orders \cup {None}
  BY SettleType DEF FetchOver
<1>2. /\ patch' \in Seq(Mutation) /\ DOMAIN patch' = DOMAIN patch /\ Len(patch') = Len(patch)
      /\ \A k \in DOMAIN patch : \/ patch'[k] = patch[k]
                                 \/ patch'[k] \in {Replaced, Settled} /\ ~Pending(k)
  BY <1>1, Release
<1>3. \A m \in {Replaced, Settled} : m.at \notin {"sent", "served"}
  BY DEF Replaced, Settled
<1> QED
  BY <1>1, <1>2, <1>3 DEF Pending

(* A fetch that is asked for is asked for after the clicks so far.         *)
LEMMA AskingType ==
  ASSUME TypeOK, Invalidate
  PROVE  /\ fetch' \in [at : {"sent"}, tries : 0..1, clicks : Nat]
         /\ fetch' # Idle /\ fetch'.at = "sent" /\ fetch'.tries = 0 /\ fetch'.clicks = Len(patch)
BY Mutations DEF Invalidate, Asking, Idle

(* A fetch is made, served, answered or lost.                              *)
LEMMA FetchType ==
  ASSUME TypeOK, Fire \/ Serve \/ Respond \/ FetchFails
  PROVE  TypeOK'
<1>1. CASE Fire
  <2>1. fetch' \in [at : {"sent"}, tries : 0..1, clicks : Nat]
    BY <1>1, AskingType DEF Fire
  <2>2. patch' \in Seq(Mutation) /\ busy' \in Orders \cup {None}
    BY <1>1, FetchOverType DEF Fire
  <2> QED
    BY <1>1, <2>1, <2>2 DEF Fire, TypeOK, service, network, Mutation, Asked
<1>2. CASE Serve
  <2>1. fetch.tries \in 0..1 /\ fetch.clicks \in Nat
    BY <1>2, FetchKinds DEF Serve
  <2>2. fetch' \in [at : {"served"}, tries : 0..1, clicks : Nat, data : List]
    BY <1>2, <2>1 DEF Serve, TypeOK
  <2> QED
    BY <1>2, <2>2 DEF Serve, TypeOK, service, network, board
<1>3. CASE Respond
  <2>1. fetch.data \in List
    BY <1>3, FetchKinds DEF Respond
  <2>2. patch' \in Seq(Mutation) /\ busy' \in Orders \cup {None}
    BY <1>3, FetchOverType DEF Respond
  <2> QED
    BY <1>3, <2>1, <2>2 DEF Respond, TypeOK, service, network, Mutation, Asked
<1>4. CASE FetchFails
  <2>1. fetch' \in {Idle} \cup [at : {"sent"}, tries : 0..1, clicks : Nat]
    BY <1>4, FetchKinds DEF FetchFails, AfterFailure
  <2>2. patch' \in Seq(Mutation) /\ busy' \in Orders \cup {None}
    <3>1. CASE FetchOver
      BY <3>1, FetchOverType
    <3>2. CASE UNCHANGED board
      BY <3>2, Mutations DEF board, TypeOK
    <3> QED
      BY <1>4, <3>1, <3>2 DEF FetchFails
  <2>3. faults' \in Nat
    BY <1>4 DEF FetchFails, TypeOK
  <2> QED
    BY <1>4, <2>1, <2>2, <2>3 DEF FetchFails, TypeOK, service, network, Mutation, Asked
<1> QED
  BY <1>1, <1>2, <1>3, <1>4

(* A button is pressed.                                                    *)
LEMMA ClickType ==
  ASSUME TypeOK, NEW o \in Orders, Click(o)
  PROVE  /\ TypeOK' /\ UNCHANGED <<service, network, timer, faults, heard>> /\ fetch' = Idle
         /\ cache'[o].ver = Guess /\ \A u \in Orders \ {o} : cache'[u] = cache[u]
         /\ DOMAIN patch' = 1..Len(patch) + 1 /\ Len(patch') = Len(patch) + 1
         /\ \A k \in DOMAIN patch : /\ Pending(k)' <=> Pending(k)
                                    /\ Pending(k) => patch'[k] = patch[k]
         /\ \E k \in DOMAIN patch' : Pending(k)'
         /\ \A k \in DOMAIN patch' \ DOMAIN patch :
              patch'[k].at = "sent" /\ patch'[k].previous = cache
<1> DEFINE s == NextStatus[cache[o].status]
           v == [status |-> s, at |-> Stamp(version) + skew, ver |-> Guess]
           m == [at |-> "sent", order |-> o, to |-> s, previous |-> cache, ver |-> 0]
           q == Released(patch)
<1>1. s \in Status
  <2>1. cache[o].status \in DOMAIN NextStatus
    BY OptimisticAssumption DEF Click, StatusIn, NextStatus, Status
  <2> QED
    BY <2>1, NextIsStatus
<1>2. v \in Version /\ v.ver = Guess
  <2>1. Stamp(version) \in Int /\ skew \in Int
    BY StampIsInt, OptimisticAssumption DEF TypeOK
  <2>2. Stamp(version) + skew \in Int
    BY <2>1
  <2> QED
    BY <1>1, <2>2 DEF Version, Guess
<1>3. cache' = [cache EXCEPT ![o] = v]
  BY DEF Click
<1>4. m \in Mutation /\ m.at = "sent" /\ m.previous = cache
  BY <1>1 DEF Mutation, Asked, TypeOK
<1>5. patch' = Append(q, m) /\ busy' = o /\ fetch' = Idle
  BY DEF Click, CancelQueries
<1> HIDE DEF s, v, m
<1>6. cache' \in List /\ cache'[o].ver = Guess /\ \A u \in Orders \ {o} : cache'[u] = cache[u]
  BY <1>2, <1>3 DEF TypeOK, List
<1>7. /\ q \in Seq(Mutation) /\ DOMAIN q = DOMAIN patch /\ Len(q) = Len(patch)
      /\ \A k \in DOMAIN patch : \/ q[k] = patch[k]
                                 \/ q[k] \in {Replaced, Settled} /\ ~Pending(k)
  BY Release
<1> HIDE DEF q
<1>8. /\ patch' \in Seq(Mutation) /\ Len(patch') = Len(patch) + 1
      /\ \A k \in 1..Len(patch) : patch'[k] = q[k]
      /\ patch'[Len(patch) + 1] = m
  BY <1>4, <1>5, <1>7, AppendProperties
<1>9. DOMAIN patch' = 1..Len(patch) + 1
  BY <1>8, LenProperties
<1>10. \A w \in {Replaced, Settled} : w.at \notin {"sent", "served"}
  BY DEF Replaced, Settled
<1>11. \A k \in DOMAIN patch : /\ Pending(k)' <=> Pending(k)
                               /\ Pending(k) => patch'[k] = patch[k]
  BY <1>7, <1>8, <1>10, Mutations DEF Pending
<1>12. TypeOK'
  BY <1>5, <1>6, <1>8 DEF Click, TypeOK, service, network, Mutation, Asked
<1>13. UNCHANGED <<service, network, timer, faults, heard>>
  BY DEF Click
<1>14. patch'[Len(patch) + 1].at = "sent" /\ patch'[Len(patch) + 1].previous = cache
  BY <1>4, <1>8
<1>15. \E k \in DOMAIN patch' : Pending(k)'
  <2>1. PICK k \in DOMAIN patch' : k = Len(patch) + 1
    BY <1>9, Mutations
  <2>2. patch'[k].at \in {"sent", "served"}
    BY <1>14, <2>1
  <2> QED
    BY <2>2 DEF Pending
<1>16. \A k \in DOMAIN patch' \ DOMAIN patch : k = Len(patch) + 1
  BY <1>9, Mutations
<1> QED
  BY <1>5, <1>6, <1>8, <1>9, <1>11, <1>12, <1>13, <1>14, <1>15, <1>16

(* The server makes the change a mutation asks for ...                     *)
LEMMA ServePatchType ==
  ASSUME TypeOK, NEW k \in DOMAIN patch, ServePatch(k)
  PROVE  /\ TypeOK' /\ UNCHANGED <<cache, fetch, timer, faults, heard>>
         /\ patch[k] \in Asked /\ \E s \in Status : Store(patch[k].order, s)
         /\ DOMAIN patch' = DOMAIN patch /\ Len(patch') = Len(patch)
         /\ Pending(k) /\ patch'[k].at = "served" /\ patch'[k].ver = version'
         /\ patch'[k].order = patch[k].order
         /\ patch'[k].previous = patch[k].previous
         /\ \A j \in DOMAIN patch \ {k} : patch'[j] = patch[j]
<1>1. Pending(k) /\ patch[k] \in Asked
  BY Mutations DEF ServePatch, Pending
<1>2. Store(patch[k].order, patch[k].to) /\ patch[k].order \in Orders /\ patch[k].to \in Status
  BY <1>1 DEF ServePatch, Asked
<1>3. version' \in Nat /\ server' \in List /\ events' \subseteq Event
  BY <1>2, StoreType
<1> DEFINE m == [patch[k] EXCEPT !.at = "served", !.ver = version']
<1>4. /\ m \in Asked /\ m.at = "served" /\ m.ver = version' /\ m.order = patch[k].order
      /\ m.previous = patch[k].previous
  BY <1>1, <1>3 DEF Asked
<1>5. patch' = [patch EXCEPT ![k] = m]
  BY DEF ServePatch
<1> HIDE DEF m
<1>6. m \in Mutation /\ patch \in Seq(Mutation)
  BY <1>4, Mutations DEF Mutation
<1>7. /\ patch' \in Seq(Mutation) /\ DOMAIN patch' = DOMAIN patch /\ Len(patch') = Len(patch)
      /\ patch'[k] = m /\ \A j \in DOMAIN patch \ {k} : patch'[j] = patch[j]
  BY <1>5, <1>6, MoveOn
<1>8. TypeOK'
  BY <1>3, <1>7 DEF ServePatch, TypeOK, Mutation, Asked, Event
<1> QED
  BY <1>1, <1>2, <1>4, <1>7, <1>8 DEF ServePatch

(* ... and the answer, or an error, has the list fetched.                  *)
LEMMA SettledType ==
  ASSUME TypeOK, NEW k \in DOMAIN patch, PatchOk(k) \/ PatchFails(k)
  PROVE  /\ TypeOK' /\ UNCHANGED <<service, network, timer>>
         /\ fetch' # Idle /\ fetch'.at = "sent" /\ fetch'.tries = 0 /\ fetch'.clicks = Len(patch')
         /\ patch[k] \in Asked /\ Pending(k)
         /\ DOMAIN patch' = DOMAIN patch
         /\ \A j \in DOMAIN patch : Pending(j)' => Pending(j) /\ patch'[j] = patch[j]
<1> DEFINE before == HandOver(patch)
           calls  == [before EXCEPT ![k] = Waiting]
<1>1. Pending(k) /\ patch[k] \in Asked
  BY Mutations DEF PatchOk, PatchFails, Pending
<1>2. Invalidate /\ Settle(calls)
  BY DEF PatchOk, PatchFails, OnError, OnSettled
<1>3. /\ before \in Seq(Mutation) /\ DOMAIN before = DOMAIN patch /\ Len(before) = Len(patch)
      /\ \A j \in DOMAIN patch : \/ before[j] = patch[j]
                                 \/ before[j] \in {Replaced, Settled} /\ ~Pending(j)
  BY Release
<1>4. calls = [before EXCEPT ![k] = Waiting] /\ Waiting \in Mutation
  BY DEF Mutation
<1> HIDE DEF before, calls
<1>5. /\ calls \in Seq(Mutation) /\ DOMAIN calls = DOMAIN patch /\ Len(calls) = Len(patch)
      /\ calls[k] = Waiting /\ \A j \in DOMAIN patch \ {k} : calls[j] = before[j]
  BY <1>3, <1>4, MoveOn
<1>6. patch' = calls /\ busy' \in Orders \cup {None}
  BY <1>2, SettleType
<1>7. /\ fetch' \in [at : {"sent"}, tries : 0..1, clicks : Nat]
      /\ fetch' # Idle /\ fetch'.at = "sent" /\ fetch'.tries = 0 /\ fetch'.clicks = Len(patch')
  BY <1>2, <1>5, <1>6, AskingType
<1>8. \A w \in {Waiting, Replaced, Settled} : w.at \notin {"sent", "served"}
  BY DEF Waiting, Replaced, Settled
<1>9. \A j \in DOMAIN patch : Pending(j)' => Pending(j) /\ patch'[j] = patch[j]
  BY <1>3, <1>5, <1>6, <1>8 DEF Pending
<1>10. CASE PatchOk(k)
  <2>1. heard' \in [Orders -> Nat]
    BY <1>1, <1>10 DEF PatchOk, Hear, TypeOK, Asked
  <2>2. TypeOK'
    BY <1>5, <1>6, <1>7, <1>10, <2>1 DEF PatchOk, TypeOK, service, network, Mutation, Asked
  <2> QED
    BY <1>1, <1>5, <1>6, <1>7, <1>9, <1>10, <2>2 DEF PatchOk
<1>11. CASE PatchFails(k)
  <2>1. cache' \in List /\ faults' \in Nat
    BY <1>1, <1>11 DEF PatchFails, OnError, TypeOK, Asked
  <2>2. TypeOK'
    BY <1>5, <1>6, <1>7, <1>11, <2>1 DEF PatchFails, TypeOK, service, network, Mutation, Asked
  <2> QED
    BY <1>1, <1>5, <1>6, <1>7, <1>9, <1>11, <2>2 DEF PatchFails
<1> QED
  BY <1>10, <1>11

-----------------------------------------------------------------------------
(* The server is ahead.                                                    *)

(* The numbers that are compared.                                          *)
LEMMA Numbers ==
  ASSUME TypeOK
  PROVE  /\ version \in Nat /\ faults \in Nat /\ heard \in [Orders -> Nat]
         /\ \A o \in Orders : /\ server[o] # Absent => server[o] \in Version /\ server[o].ver \in Nat
                              /\ cache[o] # Absent => cache[o] \in Version /\ cache[o].ver \in Nat
         /\ \A e \in events : e.order \in Orders /\ e.data \in Version /\ e.data.ver \in Nat
         /\ \A k \in DOMAIN patch : Pending(k) => /\ patch[k].order \in Orders /\ patch[k].ver \in Nat
                                                  /\ patch[k].previous \in List
<1>1. \A k \in DOMAIN patch : Pending(k) => /\ patch[k].order \in Orders /\ patch[k].ver \in Nat
                                            /\ patch[k].previous \in List
  BY Mutations DEF Asked
<1>2. \A v \in Version : v.ver \in Nat
  BY DEF Version
<1> QED
  BY <1>1, <1>2 DEF TypeOK, List

(* It stays ahead when the tab hears of what it has sent, ...              *)
LEMMA AheadWhenHeard ==
  ASSUME TypeOK, ServerIsAhead, UNCHANGED service, events' \subseteq events,
         \A o \in Orders : heard'[o] = heard[o] \/ Served(o, heard'[o]),
         \A k \in DOMAIN patch' : patch'[k].at = "served" => k \in DOMAIN patch /\ patch'[k] = patch[k]
  PROVE  ServerIsAhead'
<1>1. server' = server /\ version' = version
  BY DEF service
<1> QED
  BY <1>1 DEF ServerIsAhead, Served

(* ... and when it stores.                                                 *)
LEMMA AheadWhenStored ==
  ASSUME TypeOK, ServerIsAhead, NEW o \in Orders, NEW s \in Status, Store(o, s), heard' = heard,
         \A k \in DOMAIN patch' : patch'[k].at = "served" =>
           \/ k \in DOMAIN patch /\ patch'[k] = patch[k]
           \/ patch'[k].order = o /\ patch'[k].ver = version'
  PROVE  ServerIsAhead'
<1>1. /\ version' = version + 1 /\ version' \in Nat /\ server'[o] \in Version
      /\ server'[o].ver = version' /\ \A u \in Orders \ {o} : server'[u] = server[u]
      /\ \A e \in events' : e \in events \/ (e.order = o /\ e.data = server'[o])
  BY StoreType
<1>2. server'[o] # Absent /\ version \in Nat /\ version # 0 /\ version' # Guess
  BY <1>1, OptimisticAssumption DEF ServerIsAhead, TypeOK, Guess
<1>3. ASSUME NEW u \in Orders, NEW v \in Nat, Served(u, v)
      PROVE  server'[u] # Absent /\ v # Guess /\ v <= server'[u].ver
  BY <1>1, <1>2, <1>3, Numbers DEF Served, ServerIsAhead
<1>4. \A u \in Orders : /\ server'[u] = Absent => heard'[u] = 0
                        /\ server'[u] # Absent => Served(u, server[u].ver)' /\ server'[u].ver <= version'
                        /\ heard'[u] # 0 => Served(u, heard[u])'
  BY <1>1, <1>2, <1>3, Numbers DEF ServerIsAhead, Served
<1>5. \A e \in events' : Served(e.order, e.data.ver)'
  BY <1>1, <1>2, <1>3, Numbers DEF ServerIsAhead, Served
<1>6. \A k \in DOMAIN patch' : patch'[k].at = "served" => Served(patch[k].order, patch[k].ver)'
  <2> SUFFICES ASSUME NEW k \in DOMAIN patch', patch'[k].at = "served"
               PROVE  Served(patch[k].order, patch[k].ver)'
    OBVIOUS
  <2>1. CASE k \in DOMAIN patch /\ patch'[k] = patch[k]
    <3>1. Pending(k) /\ Served(patch[k].order, patch[k].ver)
      BY <2>1 DEF Pending, ServerIsAhead
    <3> QED
      BY <1>3, <2>1, <3>1, Numbers DEF Served
  <2>2. CASE patch'[k].order = o /\ patch'[k].ver = version'
    BY <1>1, <1>2, <2>2 DEF Served
  <2> QED
    BY <2>1, <2>2
<1> QED
  BY <1>1, <1>2, <1>4, <1>5, <1>6 DEF ServerIsAhead

-----------------------------------------------------------------------------
(* A fetch is due, step by step.                                           *)

(* What is due stays due when neither the list nor the fetch changes.      *)
LEMMA DueStays ==
  ASSUME TypeOK, Safe, UNCHANGED <<cache, fetch, timer, heard>>,
         faults' \in Nat, faults' >= faults,
         DOMAIN patch' = DOMAIN patch, Len(patch') = Len(patch),
         \A k \in DOMAIN patch : Pending(k)' <=> Pending(k)
  PROVE  FetchIsDue' /\ FetchIsNewer'
<1>1. Planned' <=> Planned
  BY DEF Planned
<1>2. FetchIsDue'
  BY <1>1, Numbers DEF Safe, FetchIsDue, Knows
<1>3. FetchIsNewer'
  BY DEF Safe, FetchIsNewer
<1> QED
  BY <1>2, <1>3

(* Nor do the stamps, if no list changes.                                  *)
LEMMA StampsStay ==
  ASSUME TypeOK, StampsAreTrue, UNCHANGED <<cache, fetch>>, IsStamped(server'),
         \A e \in events' : Stamped(e.data),
         \A k \in DOMAIN patch' : Pending(k)' => k \in DOMAIN patch /\ Pending(k)
                                                   /\ patch'[k].previous = patch[k].previous
  PROVE  StampsAreTrue'
BY DEF StampsAreTrue, IsStamped, Stamped

(* The server stores.                                                      *)
LEMMA StoreStamps ==
  ASSUME TypeOK, StampsAreTrue, NEW o \in Orders, NEW s \in Status, Store(o, s)
  PROVE  IsStamped(server') /\ \A e \in events' : Stamped(e.data)
BY StoreType DEF StampsAreTrue, IsStamped, Stamped

(* An order changes elsewhere.                                             *)
LEMMA ElsewhereSafe ==
  ASSUME Inv, NEW o \in Orders, ChangeElsewhere(o)
  PROVE  Safe'
<1>1. TypeOK /\ Safe
  BY DEF Inv
<1>2. PICK s \in Status : Store(o, s)
  BY <1>1, ElsewhereType
<1>3. UNCHANGED <<cache, fetch, timer, patch, heard, faults>>
  BY DEF ChangeElsewhere, board
<1>4. FetchIsDue' /\ FetchIsNewer'
  <2>1. \A k \in DOMAIN patch : Pending(k)' <=> Pending(k)
    BY <1>3 DEF Pending
  <2> QED
    BY <1>1, <1>3, <2>1, DueStays, Numbers
<1>5. ServerIsAhead'
  BY <1>1, <1>2, <1>3, AheadWhenStored DEF Safe
<1>6. StampsAreTrue'
  <2>1. \A k \in DOMAIN patch' : Pending(k)' => Pending(k)
    BY <1>3 DEF Pending
  <2> QED
    BY <1>1, <1>2, <1>3, <2>1, StoreStamps, StampsStay DEF Safe
<1> QED
  BY <1>4, <1>5, <1>6 DEF Safe

(* The stream is made or breaks.                                           *)
LEMMA StreamSafe ==
  ASSUME Inv, Connect \/ Disconnect \/ UNCHANGED vars
  PROVE  Safe'
<1>1. TypeOK /\ Safe
  BY DEF Inv
<1>2. /\ UNCHANGED <<server, version, cache, fetch, timer, patch, heard>> /\ events' \subseteq events
      /\ faults' \in Nat /\ faults' >= faults
  BY <1>1, Numbers DEF Connect, Disconnect, service, board, vars, network
<1>3. \A k \in DOMAIN patch : Pending(k)' <=> Pending(k)
  BY <1>2 DEF Pending
<1>4. FetchIsDue' /\ FetchIsNewer'
  BY <1>1, <1>2, <1>3, DueStays, Numbers
<1>5. ServerIsAhead'
  BY <1>1, <1>2, AheadWhenHeard DEF Safe, service
<1>6. StampsAreTrue'
  BY <1>1, <1>2, <1>3, StampsStay DEF Safe, StampsAreTrue
<1> QED
  BY <1>4, <1>5, <1>6 DEF Safe

(* An event is written into the list, and a fetch is planned.              *)
LEMMA EventSafe ==
  ASSUME Inv, NEW e \in events, OnEvent(e)
  PROVE  Safe'
<1>1. TypeOK /\ Safe
  BY DEF Inv
<1>2. /\ UNCHANGED <<server, version, fetch, patch, faults>> /\ events' \subseteq events /\ timer'
      /\ cache' = ApplyEvent(cache, e.order, e.data)
  BY DEF OnEvent, service, board
<1>3. e.order \in Orders /\ e.data \in Version /\ Served(e.order, e.data.ver) /\ Stamped(e.data)
  BY <1>1, Numbers DEF Safe, ServerIsAhead, StampsAreTrue
<1>4. \A o \in Orders : heard'[o] = heard[o] \/ Served(o, heard'[o])
  BY <1>1, <1>3 DEF OnEvent, Hear, TypeOK
<1>5. ServerIsAhead'
  BY <1>1, <1>2, <1>4, AheadWhenHeard DEF Safe, service
<1>6. StampsAreTrue'
  <2>1. \A k \in DOMAIN patch : Pending(k)' <=> Pending(k)
    BY <1>2 DEF Pending
  <2>2. IsStamped(cache')
    BY <1>1, <1>2, <1>3 DEF Safe, StampsAreTrue, IsStamped, ApplyEvent, TypeOK, List
  <2> QED
    BY <1>1, <1>2, <2>1, <2>2 DEF Safe, StampsAreTrue, IsStamped, Stamped
<1>7. FetchIsDue'
  BY <1>1, <1>2 DEF Safe, FetchIsDue, Planned
<1>8. FetchIsNewer'
  BY <1>1, <1>2 DEF Safe, FetchIsNewer
<1> QED
  BY <1>5, <1>6, <1>7, <1>8 DEF Safe

(* The server's orders are all that can be heard of.                       *)
LEMMA ServerKnows ==
  ASSUME TypeOK, ServerIsAhead
  PROVE  Knows(server)
<1> SUFFICES ASSUME NEW o \in Orders, server[o] # Absent
             PROVE  server[o].ver # Guess /\ server[o].ver >= heard[o]
  BY DEF Knows, ServerIsAhead
<1>1. server[o].ver \in Nat /\ heard[o] \in Nat
  BY Numbers
<1>2. server[o].ver # Guess
  BY DEF ServerIsAhead, Served
<1>3. heard[o] # 0 => heard[o] <= server[o].ver
  BY DEF ServerIsAhead, Served
<1> QED
  BY <1>1, <1>2, <1>3

(* The planned fetch is made, or the one under way is served.              *)
LEMMA AskSafe ==
  ASSUME Inv, Fire \/ Serve
  PROVE  Safe'
<1>1. TypeOK /\ Safe
  BY DEF Inv
<1>2. UNCHANGED <<server, version, events, cache, heard, faults>>
  BY DEF Fire, Serve, service, network
<1>3. /\ DOMAIN patch' = DOMAIN patch /\ Len(patch') = Len(patch)
      /\ \A k \in DOMAIN patch : /\ Pending(k)' <=> Pending(k)
                                 /\ Pending(k) => patch'[k] = patch[k]
  <2>1. CASE Fire
    BY <1>1, <2>1, FetchOverType DEF Fire
  <2>2. CASE Serve
    BY <2>2 DEF Serve, board, Pending
  <2> QED
    BY <2>1, <2>2
<1>4. ServerIsAhead'
  <2>1. \A k \in DOMAIN patch' : patch'[k].at = "served" => patch'[k] = patch[k]
    BY <1>3 DEF Pending
  <2> QED
    BY <1>1, <1>2, <1>3, <2>1, AheadWhenHeard DEF Safe, service
<1>5. CASE Fire
  <2>1. fetch' # Idle /\ fetch'.at = "sent" /\ fetch'.tries = 0 /\ fetch'.clicks = Len(patch)
    BY <1>1, <1>5, AskingType DEF Fire
  <2>2. StampsAreTrue'
    BY <1>1, <1>2, <1>3, <2>1 DEF Safe, StampsAreTrue, IsStamped, Stamped
  <2>3. FetchIsDue'
    BY <2>1 DEF FetchIsDue
  <2>4. FetchIsNewer'
    BY <1>3, <2>1 DEF FetchIsNewer
  <2> QED
    BY <1>4, <2>2, <2>3, <2>4 DEF Safe
<1>6. CASE Serve
  <2>1. /\ fetch' # Idle /\ fetch'.at = "served" /\ fetch'.tries = fetch.tries /\ fetch # Idle
        /\ fetch'.data = server /\ fetch'.clicks = fetch.clicks
    BY <1>6 DEF Serve, Idle
  <2>2. StampsAreTrue'
    BY <1>1, <1>2, <1>3, <2>1 DEF Safe, StampsAreTrue, IsStamped, Stamped
  <2>3. Knows(fetch'.data)
    BY <1>1, <2>1, ServerKnows DEF Safe
  <2>4. FetchIsDue'
    BY <1>1, <1>2, <2>1, <2>3 DEF Safe, FetchIsDue, Knows
  <2>5. FetchIsNewer'
    BY <1>1, <1>3, <2>1 DEF Safe, FetchIsNewer
  <2> QED
    BY <1>4, <2>2, <2>4, <2>5 DEF Safe
<1> QED
  BY <1>5, <1>6

(* The answer replaces the list.                                           *)
LEMMA RespondSafe ==
  ASSUME Inv, Respond
  PROVE  Safe'
<1>1. TypeOK /\ Safe
  BY DEF Inv
<1>2. /\ UNCHANGED <<server, version, events, timer, heard, faults>>
      /\ fetch.at = "served" /\ cache' = fetch.data /\ fetch' = Idle /\ fetch'.at = "idle"
  BY DEF Respond, service, network, Idle
<1>3. /\ DOMAIN patch' = DOMAIN patch
      /\ \A k \in DOMAIN patch : /\ Pending(k)' <=> Pending(k)
                                 /\ Pending(k) => patch'[k] = patch[k]
  BY <1>1, FetchOverType DEF Respond
<1>4. \A k \in DOMAIN patch' : patch'[k].at = "served" => patch'[k] = patch[k]
  BY <1>3 DEF Pending
<1>5. ServerIsAhead'
  BY <1>1, <1>2, <1>3, <1>4, AheadWhenHeard DEF Safe, service
<1>6. StampsAreTrue'
  BY <1>1, <1>2, <1>3 DEF Safe, StampsAreTrue, IsStamped, Stamped
<1>7. FetchIsDue'
  <2>1. Planned' <=> Planned
    BY <1>2, <1>3 DEF Planned
  <2>2. Knows(fetch.data) => Knows(cache)'
    BY <1>2 DEF Knows
  <2> QED
    BY <1>1, <1>2, <2>1, <2>2 DEF Safe, FetchIsDue
<1>8. FetchIsNewer'
  BY <1>2 DEF FetchIsNewer
<1> QED
  BY <1>5, <1>6, <1>7, <1>8 DEF Safe

(* It is asked for again, or given up, which takes two failures.           *)
LEMMA FetchFailsSafe ==
  ASSUME Inv, FetchFails
  PROVE  Safe'
<1>1. TypeOK /\ Safe
  BY DEF Inv
<1>2. /\ UNCHANGED <<server, version, events, cache, timer, heard>>
      /\ fetch # Idle /\ fetch' = AfterFailure(fetch)
      /\ faults' = faults + 1 /\ faults \in Nat
  BY <1>1, Numbers DEF FetchFails, service, network
<1>3. /\ DOMAIN patch' = DOMAIN patch /\ Len(patch') = Len(patch)
      /\ \A k \in DOMAIN patch : /\ Pending(k)' <=> Pending(k)
                                 /\ Pending(k) => patch'[k] = patch[k]
  <2>1. CASE FetchOver
    BY <1>1, <2>1, FetchOverType
  <2>2. CASE UNCHANGED board
    BY <2>2 DEF board, Pending
  <2> QED
    BY <2>1, <2>2 DEF FetchFails
<1>4. \A k \in DOMAIN patch' : patch'[k].at = "served" => patch'[k] = patch[k]
  BY <1>3 DEF Pending
<1>5. ServerIsAhead'
  BY <1>1, <1>2, <1>3, <1>4, AheadWhenHeard DEF Safe, service
<1>6. \/ fetch.tries = 0 /\ fetch' # Idle /\ fetch'.at = "sent" /\ fetch'.clicks = fetch.clicks
      \/ fetch.tries = 1 /\ fetch' = Idle /\ fetch'.at = "idle"
  BY <1>1, <1>2, FetchKinds DEF AfterFailure, Idle
<1>7. StampsAreTrue'
  BY <1>1, <1>2, <1>3, <1>6 DEF Safe, StampsAreTrue, IsStamped, Stamped
<1>8. FetchIsDue'
  <2>1. faults' >= 1
    BY <1>2
  <2>2. fetch.tries = 1 => ~(faults' < 2)
    BY <1>1, <1>2 DEF Safe, FetchIsDue
  <2> QED
    BY <1>6, <2>1, <2>2 DEF FetchIsDue
<1>9. FetchIsNewer'
  BY <1>1, <1>2, <1>3, <1>6 DEF Safe, FetchIsNewer
<1> QED
  BY <1>5, <1>7, <1>8, <1>9 DEF Safe

(* A click cancels the fetch, and leaves one to come with its answer.      *)
LEMMA ClickSafe ==
  ASSUME Inv, NEW o \in Orders, Click(o)
  PROVE  Safe'
<1>1. TypeOK /\ Safe
  BY DEF Inv
<1>2. /\ UNCHANGED <<server, version, events, timer, faults, heard>>
      /\ fetch' = Idle /\ fetch'.at = "idle"
      /\ cache'[o].ver = Guess /\ \A u \in Orders \ {o} : cache'[u] = cache[u]
  BY <1>1, ClickType DEF service, network, Idle
<1>3. /\ \A k \in DOMAIN patch : /\ Pending(k)' <=> Pending(k)
                                 /\ Pending(k) => patch'[k] = patch[k]
      /\ \E k \in DOMAIN patch' : Pending(k)'
      /\ \A k \in DOMAIN patch' \ DOMAIN patch :
           patch'[k].at = "sent" /\ patch'[k].previous = cache
  BY <1>1, ClickType
<1>4. \A k \in DOMAIN patch' : patch'[k].at = "served" => k \in DOMAIN patch /\ patch'[k] = patch[k]
  BY <1>3 DEF Pending
<1>5. ServerIsAhead'
  BY <1>1, <1>2, <1>4, AheadWhenHeard DEF Safe, service
<1>6. StampsAreTrue'
  <2>1. IsStamped(cache')
    BY <1>1, <1>2 DEF Safe, StampsAreTrue, IsStamped, Stamped
  <2> QED
    BY <1>1, <1>2, <1>3, <2>1 DEF Safe, StampsAreTrue, IsStamped, Stamped
<1>7. FetchIsDue'
  BY <1>2, <1>3 DEF FetchIsDue, Planned
<1>8. FetchIsNewer'
  BY <1>2 DEF FetchIsNewer
<1> QED
  BY <1>5, <1>6, <1>7, <1>8 DEF Safe

(* The server makes the change.                                            *)
LEMMA ServePatchSafe ==
  ASSUME Inv, NEW k \in DOMAIN patch, ServePatch(k)
  PROVE  Safe'
<1>1. TypeOK /\ Safe
  BY DEF Inv
<1>2. /\ UNCHANGED <<cache, fetch, timer, faults, heard>> /\ patch[k].order \in Orders
      /\ DOMAIN patch' = DOMAIN patch /\ Len(patch') = Len(patch)
      /\ Pending(k) /\ patch'[k].at = "served" /\ patch'[k].ver = version'
      /\ patch'[k].order = patch[k].order
      /\ patch'[k].previous = patch[k].previous
      /\ \A j \in DOMAIN patch \ {k} : patch'[j] = patch[j]
  BY <1>1, ServePatchType DEF Asked
<1>3. PICK s \in Status : Store(patch[k].order, s)
  BY <1>1, ServePatchType
<1>4. \A j \in DOMAIN patch : /\ Pending(j)' <=> Pending(j)
                              /\ patch'[j].previous = patch[j].previous
  BY <1>2 DEF Pending
<1>5. FetchIsDue' /\ FetchIsNewer'
  BY <1>1, <1>2, <1>4, DueStays, Numbers
<1>6. ServerIsAhead'
  BY <1>1, <1>2, <1>3, AheadWhenStored DEF Safe
<1>7. StampsAreTrue'
  BY <1>1, <1>2, <1>3, <1>4, StoreStamps, StampsStay DEF Safe
<1> QED
  BY <1>5, <1>6, <1>7 DEF Safe

(* It answers, or the list is put back; either way it is fetched.          *)
LEMMA SettledSafe ==
  ASSUME Inv, NEW k \in DOMAIN patch, PatchOk(k) \/ PatchFails(k)
  PROVE  Safe'
<1>1. TypeOK /\ Safe
  BY DEF Inv
<1>2. UNCHANGED <<server, version, events>> /\ DOMAIN patch' = DOMAIN patch /\ Pending(k)
  BY <1>1, SettledType DEF service, network
<1>3. fetch' # Idle /\ fetch'.at = "sent" /\ fetch'.tries = 0 /\ fetch'.clicks = Len(patch')
  BY <1>1, SettledType
<1>4. \A j \in DOMAIN patch : Pending(j)' => Pending(j) /\ patch'[j] = patch[j]
  BY <1>1, SettledType
<1>5. \A o \in Orders : heard'[o] = heard[o] \/ Served(o, heard'[o])
  <2>1. CASE PatchOk(k)
    <3>1. patch[k].at = "served" /\ Hear(patch[k].order, patch[k].ver)
      BY <2>1 DEF PatchOk
    <3>2. Served(patch[k].order, patch[k].ver)
      BY <1>1, <3>1 DEF Safe, ServerIsAhead
    <3> QED
      BY <1>1, <3>1, <3>2 DEF Hear, TypeOK
  <2>2. CASE PatchFails(k)
    BY <2>2 DEF PatchFails
  <2> QED
    BY <2>1, <2>2
<1>6. ServerIsAhead'
  <2>1. \A j \in DOMAIN patch' : patch'[j].at = "served" => patch'[j] = patch[j]
    BY <1>2, <1>4 DEF Pending
  <2> QED
    BY <1>1, <1>2, <1>5, <2>1, AheadWhenHeard DEF Safe, service
<1>7. StampsAreTrue'
  <2>1. IsStamped(cache')
    BY <1>1, <1>2 DEF PatchOk, PatchFails, OnError, Safe, StampsAreTrue, IsStamped, Stamped
  <2> QED
    BY <1>1, <1>2, <1>3, <1>4, <2>1 DEF Safe, StampsAreTrue, IsStamped, Stamped
<1>8. FetchIsDue'
  BY <1>3 DEF FetchIsDue
<1>9. FetchIsNewer'
  BY <1>3 DEF FetchIsNewer
<1> QED
  BY <1>6, <1>7, <1>8, <1>9 DEF Safe

-----------------------------------------------------------------------------
(* At the start the list is the server's, and nothing is under way.        *)
LEMMA InitInv == Init => Inv
<1> SUFFICES ASSUME Init PROVE Inv
  OBVIOUS
<1>1. PICK seed \in Seeds :
        server = [o \in Orders |->
                   IF o \in seed THEN [status |-> "PENDING", at |-> Stamp(1), ver |-> 1] ELSE Absent]
  BY DEF Init
<1> DEFINE first == [status |-> "PENDING", at |-> Stamp(1), ver |-> 1]
<1>2. first \in Version /\ first.ver = 1 /\ first.at = Stamp(1)
  BY StampIsInt DEF Version, Status
<1>3. \A o \in Orders : server[o] = Absent \/ server[o] = first
  BY <1>1
<1>4. server \in List
  BY <1>1, <1>2 DEF List
<1> HIDE DEF first
<1>5. fetch = Idle /\ fetch.at = "idle" /\ DOMAIN patch = {} /\ events = {} /\ cache = server
  BY DEF Init, Idle
<1>6. heard = [o \in Orders |-> 0] /\ version = 1 /\ patch = <<>>
  BY DEF Init
<1>7. TypeOK
  <2>1. patch \in Seq(Mutation)
    BY <1>6, EmptySeq
  <2>2. cache \in List /\ version \in Nat /\ heard \in [Orders -> Nat] /\ events = {}
    BY <1>4, <1>5, <1>6
  <2>3. /\ connection = "connecting" /\ timer = FALSE /\ busy = None /\ skew \in Skews /\ faults = 0
        /\ fetch = Idle
    BY DEF Init
  <2> QED
    BY <1>4, <2>1, <2>2, <2>3 DEF TypeOK, Mutation, Asked
<1>8. ServerIsAhead
  BY <1>2, <1>3, <1>5, <1>6 DEF ServerIsAhead, Served, Guess
<1>9. StampsAreTrue
  BY <1>2, <1>3, <1>5 DEF StampsAreTrue, IsStamped, Stamped
<1>10. FetchIsDue
  <2>1. Knows(server)
    BY <1>7, <1>8, ServerKnows
  <2>2. Knows(cache)
    BY <1>5, <2>1 DEF Knows
  <2> QED
    BY <1>5, <2>2 DEF FetchIsDue
<1> QED
  BY <1>5, <1>7, <1>8, <1>9, <1>10 DEF Inv, Safe, FetchIsNewer

(* Every step keeps the invariant.                                         *)
LEMMA InvStep == Inv /\ [Next]_vars => Inv'
<1> SUFFICES ASSUME Inv, [Next]_vars PROVE Inv'
  OBVIOUS
<1>1. CASE Connect \/ Disconnect
  BY <1>1, StreamType, StreamSafe DEF Inv
<1>2. ASSUME NEW e \in events, OnEvent(e) PROVE Inv'
  BY <1>2, StreamType, EventSafe DEF Inv
<1>3. CASE Fire \/ Serve \/ Respond \/ FetchFails
  BY <1>3, FetchType, AskSafe, RespondSafe, FetchFailsSafe DEF Inv
<1>4. ASSUME NEW o \in Orders, ChangeElsewhere(o) PROVE Inv'
  BY <1>4, ElsewhereType, ElsewhereSafe DEF Inv
<1>5. ASSUME NEW o \in Orders, Click(o) PROVE Inv'
  BY <1>5, ClickType, ClickSafe DEF Inv
<1>6. ASSUME NEW k \in DOMAIN patch, ServePatch(k) PROVE Inv'
  BY <1>6, ServePatchType, ServePatchSafe DEF Inv
<1>7. ASSUME NEW k \in DOMAIN patch, PatchOk(k) \/ PatchFails(k) PROVE Inv'
  BY <1>7, SettledType, SettledSafe DEF Inv
<1>8. CASE UNCHANGED vars
  <2>1. TypeOK'
    BY <1>8 DEF Inv, vars, service, network, board, TypeOK
  <2> QED
    BY <1>8, <2>1, StreamSafe DEF Inv
<1> QED
  BY <1>1, <1>2, <1>3, <1>4, <1>5, <1>6, <1>7, <1>8 DEF Next

(* The invariant holds throughout.                                         *)
LEMMA InvAlways == Spec => []Inv
BY InitInv, InvStep, PTL DEF Spec

-----------------------------------------------------------------------------
(* Every variable keeps its type.                                          *)
THEOREM TypeCorrect == Spec => []TypeOK
<1>1. Inv => TypeOK
  BY DEF Inv
<1> QED
  BY <1>1, InvAlways, PTL

(* Whatever spoils the list, rollbacks, old answers, refused events and    *)
(* cancelled fetches in any order: with nothing under way it has the       *)
(* server's word on every order, and nothing older than the tab was told   *)
(* of, unless two things failed (useOrders-solution:21-23, 167-168).       *)
THEOREM QuietListIsTheServers == Spec => []QuietMeansServer
<1>1. ASSUME Inv PROVE QuietMeansServer
  <2> SUFFICES ASSUME ~timer, fetch = Idle, faults < 2, \A k \in DOMAIN patch : patch[k] = Settled
               PROVE  ShowsWhatItHeard
    BY DEF QuietMeansServer
  <2>1. ~Planned
    BY <1>1, Mutations DEF Inv, Planned
  <2>2. Knows(cache)
    BY <1>1, <2>1 DEF Inv, Safe, FetchIsDue
  <2> QED
    BY <2>2 DEF Knows, ShowsWhatItHeard
<1> QED
  BY <1>1, InvAlways, PTL

(* A click holds against the fetch that was under way at it                *)
(* (useOrders-solution:146-147).                                           *)
THEOREM ClicksHold == Spec => ClickHolds
<1>1. ASSUME Inv, [Next]_vars,
             NEW k \in DOMAIN patch, NEW o, o = patch[k].order, Pending(k),
             cache'[o] # cache[o], cache[o] # Absent, cache[o].ver = Guess
      PROVE  \/ faults' # faults
             \/ Len(patch') > Len(patch)
             \/ fetch.at = "served" /\ cache' = fetch.data /\ fetch.clicks >= k
             \/ events' # events /\ cache'[o].at >= cache[o].at
  <2>1. TypeOK /\ Safe /\ o \in Orders
    BY <1>1, Numbers DEF Inv
  <2>2. CASE Connect \/ Fire \/ Serve \/ \E u \in Orders : ChangeElsewhere(u)
    BY <1>1, <2>2 DEF Connect, Fire, Serve, ChangeElsewhere
  <2>3. CASE Disconnect \/ FetchFails
    BY <1>1, <2>3 DEF Disconnect, FetchFails
  <2>4. ASSUME NEW e \in events, OnEvent(e)
        PROVE  events' # events /\ cache'[o].at >= cache[o].at
    <3>1. events' # events /\ cache' = ApplyEvent(cache, e.order, e.data)
      BY <2>4 DEF OnEvent
    <3>2. e.order = o /\ cache'[o] = e.data /\ ~(e.data.at < cache[o].at)
      BY <1>1, <2>1, <3>1 DEF ApplyEvent, TypeOK, List
    <3>3. e.data.at \in Int /\ cache[o].at \in Int
      BY <1>1, <2>1, Numbers DEF Version
    <3> QED
      BY <3>1, <3>2, <3>3
  <2>5. CASE Respond
    <3>1. fetch.at = "served" /\ cache' = fetch.data /\ fetch # Idle
      BY <2>5 DEF Respond, Idle
    <3>2. fetch.clicks = Len(patch)
      BY <2>1, <3>1 DEF Safe, FetchIsNewer
    <3> QED
      BY <1>1, <2>1, <3>1, <3>2, Mutations
  <2>6. ASSUME NEW u \in Orders, Click(u) PROVE Len(patch') > Len(patch)
    BY <2>1, <2>6, ClickType, Mutations
  <2>7. ASSUME NEW j \in DOMAIN patch, ServePatch(j) \/ PatchOk(j) PROVE FALSE
    BY <1>1, <2>7 DEF ServePatch, PatchOk
  <2>8. ASSUME NEW j \in DOMAIN patch, PatchFails(j) PROVE faults' # faults
    BY <2>1, <2>8, Numbers DEF PatchFails
  <2>9. CASE UNCHANGED vars
    BY <1>1, <2>9 DEF vars
  <2> QED
    BY <1>1, <2>2, <2>3, <2>4, <2>5, <2>6, <2>7, <2>8, <2>9 DEF Next
<1>2. Inv /\ [Next]_vars =>
        \A k \in DOMAIN patch :
          LET o == patch[k].order IN
          Pending(k) /\ cache'[o] # cache[o] /\ cache[o] # Absent /\ cache[o].ver = Guess =>
            \/ faults' # faults
            \/ Len(patch') > Len(patch)
            \/ fetch.at = "served" /\ cache' = fetch.data /\ fetch.clicks >= k
            \/ events' # events /\ cache'[o].at >= cache[o].at
  BY <1>1
<1> QED
  BY <1>2, InvAlways, PTL DEF Spec, ClickHolds

(* A late event takes no order back, unless within a millisecond           *)
(* (useOrders-solution:43-47).                                             *)
THEOREM EventsGoForward == Spec => EventsNeverGoBack
<1>1. ASSUME Inv, [Next]_vars,
             NEW o \in Orders, events' # events, cache[o] # cache'[o], cache[o] # Absent
      PROVE  cache'[o].ver > cache[o].ver \/ cache'[o].at = cache[o].at
  <2>1. TypeOK /\ Safe
    BY <1>1 DEF Inv
  <2>2. PICK e \in events : OnEvent(e)
    <3>1. CASE Connect \/ Fire \/ Serve \/ Respond \/ FetchFails
      BY <1>1, <3>1 DEF Connect, Fire, Serve, Respond, FetchFails, network
    <3>2. CASE Disconnect \/ (\E u \in Orders : ChangeElsewhere(u)) \/ UNCHANGED vars
      BY <1>1, <3>2 DEF Disconnect, ChangeElsewhere, vars
    <3>3. CASE \E u \in Orders : Click(u)
      BY <1>1, <3>3 DEF Click, network
    <3>4. CASE \E k \in DOMAIN patch : ServePatch(k) \/ PatchOk(k) \/ PatchFails(k)
      BY <1>1, <3>4 DEF ServePatch, PatchOk, PatchFails, network
    <3> QED
      BY <1>1, <3>1, <3>2, <3>3, <3>4 DEF Next
  <2>3. cache' = ApplyEvent(cache, e.order, e.data)
    BY <2>2 DEF OnEvent
  <2>4. e.order = o /\ cache'[o] = e.data /\ ~(e.data.at < cache[o].at)
    BY <1>1, <2>1, <2>3 DEF ApplyEvent, TypeOK, List
  <2>5. /\ e.data.at \in Int /\ cache[o].at \in Int
        /\ e.data.ver \in Nat /\ cache[o].ver \in Nat
    BY <1>1, <2>1, Numbers DEF Version
  <2>6. e.data.ver # Guess /\ e.data.at = Stamp(e.data.ver)
    BY <2>1 DEF Safe, ServerIsAhead, Served, StampsAreTrue, Stamped
  <2>7. cache[o].ver = Guess \/ cache[o].at = Stamp(cache[o].ver)
    BY <1>1, <2>1 DEF Safe, StampsAreTrue, IsStamped, Stamped
  <2>8. CASE cache[o].ver = Guess
    BY <2>4, <2>5, <2>6, <2>8 DEF Guess
  <2>9. CASE cache[o].at = Stamp(cache[o].ver) /\ cache[o].at # e.data.at
    <3>1. Stamp(cache[o].ver) < Stamp(e.data.ver)
      BY <2>4, <2>5, <2>6, <2>9
    <3>2. cache[o].ver < e.data.ver
      BY <2>5, <3>1, StampGrows
    <3> QED
      BY <2>4, <2>5, <3>2
  <2> QED
    BY <2>4, <2>7, <2>8, <2>9
<1>2. Inv /\ [Next]_vars =>
        \A o \in Orders :
          events' # events /\ cache[o] # cache'[o] /\ cache[o] # Absent =>
            cache'[o].ver > cache[o].ver \/ cache'[o].at = cache[o].at
  BY <1>1
<1> QED
  BY <1>2, InvAlways, PTL DEF Spec, EventsNeverGoBack
=============================================================================
