------------------------- MODULE LiveOrders_proofs -------------------------
(***************************************************************************)
(* Proofs about LiveOrders, for any orders and any number of changes,      *)
(* clicks and failures.                                                    *)
(***************************************************************************)
EXTENDS LiveOrders, SequenceTheorems, TLAPS

Places   == {"sent", "served"} \cup Waiting \cup Done
Mutation == [order : Orders, to : Status, version : Nat, at : Places]

(* No list is from the future, and the one that is coming is no older than *)
(* the one that is shown.                                                  *)
ListsAreInOrder ==
  /\ cache.version <= version
  /\ fetch.at = "served" => cache.version <= fetch.data.version /\ fetch.data.version <= version

(* A second try means that the first has failed.                           *)
TriesAreCounted == fetch # Idle /\ fetch.tries = 1 => failures >= 1

(* A mutation that waits for a list waits for a fetch, and the list it     *)
(* brings has its change; so has the list that comes when the wait is cut  *)
(* short.                                                                  *)
WaitsForItsChange(k) ==
  /\ patch[k].version <= version
  /\ patch[k].at \in Waiting => Coming(patch[k].version)

ItsChangeIsShown(k) ==
  failures < 2 =>
    /\ patch[k].at = "settled" => cache.version >= patch[k].version
    /\ patch[k].at = "cut short" => \/ cache.version >= patch[k].version
                                   \/ Coming(patch[k].version)

ListsAreSafe == ListsAreInOrder /\ TriesAreCounted

Safe ==
  /\ ListsAreSafe
  /\ \A k \in DOMAIN patch : WaitsForItsChange(k) /\ ItsChangeIsShown(k)

Inv == TypeOK /\ Safe

-----------------------------------------------------------------------------
(* Types.                                                                  *)

(* A sequence changed place by place is a sequence.                        *)
LEMMA PlaceByPlace ==
  ASSUME NEW S, NEW q \in Seq(S), NEW f, f = [k \in DOMAIN q |-> f[k]],
         \A k \in DOMAIN q : f[k] \in S
  PROVE  f \in Seq(S) /\ DOMAIN f = DOMAIN q /\ Len(f) = Len(q)
<1>1. DOMAIN q = 1..Len(q) /\ Len(q) \in Nat
  BY LenProperties
<1>2. f \in [1..Len(q) -> S]
  BY <1>1
<1> QED
  BY <1>1, <1>2, SeqDef, LenProperties

(* The server stores and announces.                                        *)
LEMMA StoreType ==
  ASSUME TypeOK, NEW o \in Orders, NEW s \in Status, Store(o, s)
  PROVE  status' \in [Orders -> Status] /\ version' = version + 1 /\ inbox' \in Seq(Mail)
<1>1. version' = version + 1 /\ version' \in Nat
  BY DEF Store, TypeOK
<1>2. [kind |-> "event", version |-> version'] \in Mail
  BY <1>1 DEF Mail
<1>3. inbox' \in Seq(Mail)
  BY <1>2, AppendProperties DEF Store, TypeOK
<1>4. status' \in [Orders -> Status]
  BY DEF Store, TypeOK
<1> QED
  BY <1>1, <1>3, <1>4

(* The next status of an order that has one.                               *)
LEMMA NextIsStatus == \A s \in DOMAIN NextStatus : NextStatus[s] \in Status
BY DEF NextStatus, Status

(* What can happen to the server and the stream.                           *)
LEMMA WorldType ==
  ASSUME TypeOK, Connect \/ ConnectFails \/ Break \/ \E o \in Orders : Advance(o)
  PROVE  TypeOK' /\ UNCHANGED <<cache, fetch, patch, failures>> /\ version' >= version
<1>1. [kind |-> "ready"] \in Mail /\ [kind |-> "error"] \in Mail
  BY DEF Mail
<1>2. CASE Connect
  <2>1. inbox' \in Seq(Mail)
    BY <1>1, <1>2, AppendProperties DEF Connect, TypeOK
  <2> QED
    BY <1>2, <2>1 DEF Connect, TypeOK, server, board
<1>3. CASE ConnectFails
  <2>1. inbox' \in Seq(Mail)
    BY <1>1, <1>3, AppendProperties DEF ConnectFails, TypeOK
  <2> QED
    BY <1>3, <2>1 DEF ConnectFails, TypeOK, server, board
<1>4. CASE Break
  <2>1. inbox' \in Seq(Mail)
    BY <1>1, <1>4 DEF Break
  <2> QED
    BY <1>4, <2>1 DEF Break, TypeOK, server, board
<1>5. ASSUME NEW o \in Orders, Advance(o)
      PROVE  TypeOK' /\ UNCHANGED <<cache, fetch, patch, failures>> /\ version' >= version
  <2>1. Store(o, NextStatus[status[o]]) /\ NextStatus[status[o]] \in Status
    BY <1>5, NextIsStatus DEF Advance
  <2>2. status' \in [Orders -> Status] /\ version' = version + 1 /\ inbox' \in Seq(Mail)
    BY <2>1, StoreType
  <2> QED
    BY <1>5, <2>2 DEF Advance, TypeOK, board
<1> QED
  BY <1>2, <1>3, <1>4, <1>5

(* The callbacks leave an order busy or none.                              *)
LEMMA SettleType ==
  ASSUME TypeOK, NEW calls \in Seq(Mutation), Settle(calls)
  PROVE  patch' = calls /\ busy' \in Orders \cup {None}
BY DEF Settle, TypeOK

(* One mutation moves on, the others stay.                                 *)
LEMMA MoveOn ==
  ASSUME NEW before \in Seq(Mutation), NEW k \in DOMAIN before, NEW m \in Mutation,
         NEW calls, calls = [before EXCEPT ![k] = m]
  PROVE  /\ calls \in Seq(Mutation) /\ DOMAIN calls = DOMAIN before
         /\ calls[k] = m /\ \A j \in DOMAIN before \ {k} : calls[j] = before[j]
<1>1. DOMAIN before = 1..Len(before)
  BY LenProperties
<1>2. calls \in Seq(Mutation) /\ Len(calls) = Len(before)
  BY <1>1, ExceptSeq
<1>3. DOMAIN calls = DOMAIN before
  BY <1>1, <1>2, LenProperties
<1> QED
  BY <1>2, <1>3

(* Those that wait are handed over, or cut short ...                       *)
LEMMA HandOverType ==
  ASSUME TypeOK
  PROVE  LET calls == HandOver(patch) IN
         /\ calls \in Seq(Mutation) /\ DOMAIN calls = DOMAIN patch
         /\ \A k \in DOMAIN patch : /\ calls[k].version = patch[k].version
                                     /\ calls[k].at = AfterReplacement(patch[k].at)
<1> DEFINE calls == HandOver(patch)
<1>1. patch \in Seq(Mutation)
  BY DEF TypeOK, Mutation, Places
<1>2. \A k \in DOMAIN patch : patch[k] \in Mutation
  BY <1>1, LenProperties
<1>3. \A at \in Places : AfterReplacement(at) \in Places
  BY DEF AfterReplacement, Places, Waiting, Done
<1>4. calls = [k \in DOMAIN patch |-> [patch[k] EXCEPT !.at = AfterReplacement(@)]]
  BY DEF HandOver
<1>5. ASSUME NEW k \in DOMAIN patch
      PROVE  /\ calls[k] \in Mutation /\ calls[k].version = patch[k].version
             /\ calls[k].at = AfterReplacement(patch[k].at)
  BY <1>2, <1>3, <1>4 DEF Mutation
<1>6. calls = [k \in DOMAIN patch |-> calls[k]]
  BY <1>4
<1> HIDE DEF calls
<1>7. calls \in Seq(Mutation) /\ DOMAIN calls = DOMAIN patch
  BY <1>1, <1>5, <1>6, PlaceByPlace
<1> QED
  BY <1>5, <1>7 DEF calls

(* ... or are over with their fetch.                                       *)
LEMMA FetchOverType ==
  ASSUME TypeOK, FetchOver
  PROVE  /\ patch' \in Seq(Mutation) /\ busy' \in Orders \cup {None}
         /\ DOMAIN patch' = DOMAIN patch
         /\ \A k \in DOMAIN patch : /\ patch'[k].version = patch[k].version
                                     /\ patch'[k].at = AfterFetch(patch[k].at)
<1> DEFINE calls == [k \in DOMAIN patch |-> [patch[k] EXCEPT !.at = AfterFetch(@)]]
<1>1. patch \in Seq(Mutation)
  BY DEF TypeOK, Mutation, Places
<1>2. \A k \in DOMAIN patch : patch[k] \in Mutation
  BY <1>1, LenProperties
<1>3. \A at \in Places : AfterFetch(at) \in Places
  BY DEF AfterFetch, Places, Done
<1>4. ASSUME NEW k \in DOMAIN patch
      PROVE  /\ calls[k] \in Mutation /\ calls[k].version = patch[k].version
             /\ calls[k].at = AfterFetch(patch[k].at)
  BY <1>2, <1>3 DEF Mutation
<1>5. calls = [k \in DOMAIN patch |-> calls[k]] /\ Settle(calls)
  BY DEF FetchOver
<1> HIDE DEF calls
<1>6. calls \in Seq(Mutation) /\ DOMAIN calls = DOMAIN patch
  BY <1>1, <1>4, <1>5, PlaceByPlace
<1>7. patch' = calls /\ busy' \in Orders \cup {None}
  BY <1>5, <1>6, SettleType
<1> QED
  BY <1>4, <1>6, <1>7

(* A message comes in: the list is fetched anew, or nothing but the        *)
(* indicator changes.                                                      *)
LEMMA ReceiveType ==
  ASSUME TypeOK, Receive
  PROVE  /\ TypeOK' /\ UNCHANGED <<version, cache, failures>>
         /\ \/ UNCHANGED <<fetch, patch>>
            \/ /\ fetch' = [at |-> "sent", tries |-> 0]
               /\ DOMAIN patch' = DOMAIN patch
               /\ \A k \in DOMAIN patch : /\ patch'[k].version = patch[k].version
                                           /\ patch'[k].at = AfterReplacement(patch[k].at)
<1>1. Head(inbox) \in Mail /\ inbox' \in Seq(Mail)
  BY HeadTailProperties DEF Receive, TypeOK
<1>2. UNCHANGED <<server, stream, breaks, cache, failures>>
  BY DEF Receive
<1>3. CASE Head(inbox).kind = "event"
  <2>1. Head(inbox).version \in Nat
    BY <1>1, <1>3 DEF Mail
  <2>2. /\ fetch' = [at |-> "sent", tries |-> 0] /\ heard' \in Nat /\ connection' = connection
        /\ Settle(HandOver(patch))
    BY <1>3, <2>1 DEF Receive, OnEvent, Invalidate, Hear, TypeOK
  <2>3. patch' = HandOver(patch) /\ patch' \in Seq(Mutation) /\ busy' \in Orders \cup {None}
    BY <2>2, HandOverType, SettleType
  <2> QED
    BY <1>1, <1>2, <2>2, <2>3, HandOverType DEF TypeOK, server, Mutation, Places
<1>4. CASE Head(inbox).kind # "event"
  <2>1. Head(inbox).kind \in {"ready", "error"}
    BY <1>1, <1>4 DEF Mail
  <2>2. /\ fetch' = fetch /\ heard' = heard /\ connection' \in {"connecting", "open", "closed"}
        /\ UNCHANGED board
    BY <1>4, <2>1 DEF Receive, ConnectionAfter
  <2> QED
    BY <1>1, <1>2, <2>2 DEF TypeOK, server, board
<1> QED
  BY <1>3, <1>4

(* The fetch there is, if any.                                             *)
LEMMA FetchKinds ==
  ASSUME TypeOK
  PROVE  \/ fetch = Idle /\ fetch.at = "idle"
         \/ fetch # Idle /\ fetch.at = "sent" /\ fetch.tries \in 0..1
         \/ fetch # Idle /\ fetch.at = "served" /\ fetch.tries \in 0..1 /\ fetch.data \in Shown
BY DEF TypeOK, Idle

(* A fetch is served, answered or lost.                                    *)
LEMMA FetchType ==
  ASSUME TypeOK, Serve \/ Respond \/ FetchFails
  PROVE  TypeOK'
<1>1. CASE Serve
  <2>1. fetch.tries \in 0..1
    BY <1>1, FetchKinds DEF Serve
  <2>2. [status |-> status, version |-> version] \in Shown
    BY DEF TypeOK, Shown
  <2>3. fetch' \in [at : {"served"}, tries : 0..1, data : Shown]
    BY <1>1, <2>1, <2>2 DEF Serve
  <2> QED
    BY <1>1, <2>3 DEF Serve, TypeOK, server, network, board
<1>2. CASE Respond
  <2>1. fetch.data \in Shown
    BY <1>2, FetchKinds DEF Respond
  <2>2. patch' \in Seq(Mutation) /\ busy' \in Orders \cup {None}
    BY <1>2, FetchOverType DEF Respond
  <2> QED
    BY <1>2, <2>1, <2>2 DEF Respond, TypeOK, server, network, Mutation, Places
<1>3. CASE FetchFails
  <2>1. fetch' \in {Idle} \cup [at : {"sent"}, tries : 0..1]
    BY <1>3 DEF FetchFails, AfterFailure
  <2>2. patch' \in Seq(Mutation) /\ busy' \in Orders \cup {None}
    <3>1. CASE FetchOver
      BY <3>1, FetchOverType
    <3>2. CASE UNCHANGED board
      BY <3>2 DEF board, TypeOK, Mutation, Places
    <3> QED
      BY <1>3, <3>1, <3>2 DEF FetchFails
  <2>3. failures' \in Nat
    BY <1>3 DEF FetchFails, TypeOK
  <2> QED
    BY <1>3, <2>1, <2>2, <2>3 DEF FetchFails, TypeOK, server, network, Mutation, Places
<1> QED
  BY <1>1, <1>2, <1>3

(* A button is pressed.                                                    *)
LEMMA ClickType ==
  ASSUME TypeOK, NEW o \in Orders, Click(o)
  PROVE  /\ TypeOK' /\ UNCHANGED <<version, cache, fetch, failures>>
         /\ \A k \in DOMAIN patch' : \/ k \in DOMAIN patch /\ patch'[k] = patch[k]
                                     \/ patch'[k].at = "sent" /\ patch'[k].version = 0
<1> DEFINE new == [order |-> o, to |-> NextStatus[cache.status[o]], at |-> "sent", version |-> 0]
<1>1. patch \in Seq(Mutation)
  BY DEF TypeOK, Mutation, Places
<1>2. new \in Mutation
  <2>1. NextStatus[cache.status[o]] \in Status
    BY NextIsStatus DEF Click, Pressable
  <2> QED
    BY <2>1 DEF Mutation, Places
<1>3. patch' = Append(patch, new) /\ busy' = o
  BY DEF Click
<1>4. new.at = "sent" /\ new.version = 0
  OBVIOUS
<1> HIDE DEF new
<1>5. /\ patch' \in Seq(Mutation) /\ Len(patch') = Len(patch) + 1
      /\ \A k \in 1..Len(patch) : patch'[k] = patch[k]
      /\ patch'[Len(patch) + 1] = new
  BY <1>1, <1>2, <1>3, AppendProperties
<1>6. DOMAIN patch = 1..Len(patch) /\ Len(patch) \in Nat /\ DOMAIN patch' = 1..Len(patch) + 1
  BY <1>1, <1>5, LenProperties
<1>7. \A k \in DOMAIN patch' : \/ k \in DOMAIN patch /\ patch'[k] = patch[k]
                               \/ patch'[k].at = "sent" /\ patch'[k].version = 0
  BY <1>4, <1>5, <1>6
<1>8. TypeOK'
  BY <1>3, <1>5 DEF Click, TypeOK, server, network, Mutation, Places
<1> QED
  BY <1>7, <1>8 DEF Click, server

(* The server makes the change a mutation asks for ...                     *)
LEMMA ServePatchType ==
  ASSUME TypeOK, NEW k \in DOMAIN patch, ServePatch(k)
  PROVE  /\ TypeOK' /\ version' = version + 1 /\ UNCHANGED <<cache, fetch, failures>>
         /\ DOMAIN patch' = DOMAIN patch
         /\ patch'[k].at = "served" /\ patch'[k].version = version'
         /\ \A j \in DOMAIN patch \ {k} : patch'[j] = patch[j]
<1>1. patch \in Seq(Mutation)
  BY DEF TypeOK, Mutation, Places
<1>2. patch[k] \in Mutation
  BY <1>1, LenProperties
<1>3. status' \in [Orders -> Status] /\ version' = version + 1 /\ inbox' \in Seq(Mail)
  BY <1>2, StoreType DEF ServePatch, Mutation
<1>4. version' \in Nat
  BY <1>3 DEF TypeOK
<1> DEFINE m == [patch[k] EXCEPT !.at = "served", !.version = version']
<1>5. m \in Mutation /\ m.at = "served" /\ m.version = version'
  BY <1>2, <1>4 DEF Mutation, Places
<1>6. patch' = [patch EXCEPT ![k] = m]
  BY DEF ServePatch
<1> HIDE DEF m
<1>7. /\ patch' \in Seq(Mutation) /\ DOMAIN patch' = DOMAIN patch
      /\ patch'[k] = m /\ \A j \in DOMAIN patch \ {k} : patch'[j] = patch[j]
  BY <1>1, <1>5, <1>6, MoveOn
<1>8. TypeOK'
  BY <1>3, <1>4, <1>7 DEF ServePatch, TypeOK, Mutation, Places
<1> QED
  BY <1>3, <1>5, <1>7, <1>8 DEF ServePatch

(* ... and answers, and the list is fetched anew ...                       *)
LEMMA PatchOkType ==
  ASSUME TypeOK, NEW k \in DOMAIN patch, PatchOk(k)
  PROVE  /\ TypeOK' /\ UNCHANGED <<version, cache, failures>>
         /\ fetch' = [at |-> "sent", tries |-> 0]
         /\ DOMAIN patch' = DOMAIN patch
         /\ patch'[k].at = "refetching" /\ patch'[k].version = patch[k].version
         /\ \A j \in DOMAIN patch \ {k} : /\ patch'[j].version = patch[j].version
                                          /\ patch'[j].at = AfterReplacement(patch[j].at)
<1> DEFINE before == HandOver(patch)
           m      == [before[k] EXCEPT !.at = "refetching"]
           calls  == [before EXCEPT ![k] = m]
<1>1. /\ before \in Seq(Mutation) /\ DOMAIN before = DOMAIN patch
      /\ \A j \in DOMAIN patch : /\ before[j].version = patch[j].version
                                  /\ before[j].at = AfterReplacement(patch[j].at)
  BY HandOverType
<1>2. before[k] \in Mutation /\ patch[k].version \in Nat
  <2> HIDE DEF before
  <2>1. before[k] \in Mutation
    BY <1>1, LenProperties
  <2> QED
    BY <1>1, <2>1 DEF Mutation
<1>3. calls = [before EXCEPT ![k].at = "refetching"]
  OBVIOUS
<1>4. Settle(calls)
  BY <1>3 DEF PatchOk, AfterOk
<1> HIDE DEF before
<1>5. m \in Mutation /\ m.at = "refetching" /\ m.version = patch[k].version
  BY <1>1, <1>2 DEF Mutation, Places, Waiting
<1>6. calls = [before EXCEPT ![k] = m]
  OBVIOUS
<1> HIDE DEF m, calls
<1>7. /\ calls \in Seq(Mutation) /\ DOMAIN calls = DOMAIN patch
      /\ calls[k] = m /\ \A j \in DOMAIN patch \ {k} : calls[j] = before[j]
  BY <1>1, <1>5, <1>6, MoveOn
<1>8. patch' = calls /\ busy' \in Orders \cup {None}
  BY <1>4, <1>7, SettleType
<1>9. fetch' = [at |-> "sent", tries |-> 0] /\ heard' \in Nat
  BY <1>2 DEF PatchOk, Invalidate, Hear, TypeOK
<1>10. TypeOK'
  BY <1>7, <1>8, <1>9 DEF PatchOk, TypeOK, server, network, Mutation, Places
<1> QED
  BY <1>1, <1>5, <1>7, <1>8, <1>9, <1>10 DEF PatchOk, server

(* ... or does not.                                                        *)
LEMMA PatchFailsType ==
  ASSUME TypeOK, NEW k \in DOMAIN patch, PatchFails(k)
  PROVE  /\ TypeOK' /\ UNCHANGED <<version, cache, fetch>> /\ failures' = failures + 1
         /\ DOMAIN patch' = DOMAIN patch
         /\ patch'[k].at = "failed" /\ patch'[k].version = patch[k].version
         /\ \A j \in DOMAIN patch \ {k} : patch'[j] = patch[j]
<1>1. patch \in Seq(Mutation)
  BY DEF TypeOK, Mutation, Places
<1>2. patch[k] \in Mutation
  BY <1>1, LenProperties
<1> DEFINE m == [patch[k] EXCEPT !.at = "failed"]
<1>3. m \in Mutation /\ m.at = "failed" /\ m.version = patch[k].version
  BY <1>2 DEF Mutation, Places, Done
<1> DEFINE calls == [patch EXCEPT ![k] = m]
<1>4. Settle(calls)
  BY DEF PatchFails
<1>5. calls = [patch EXCEPT ![k] = m]
  OBVIOUS
<1> HIDE DEF m, calls
<1>6. /\ calls \in Seq(Mutation) /\ DOMAIN calls = DOMAIN patch
      /\ calls[k] = m /\ \A j \in DOMAIN patch \ {k} : calls[j] = patch[j]
  BY <1>1, <1>3, <1>5, MoveOn
<1>7. patch' = calls /\ busy' \in Orders \cup {None}
  BY <1>4, <1>6, SettleType
<1>8. failures' = failures + 1 /\ failures' \in Nat
  BY DEF PatchFails, TypeOK
<1>9. TypeOK'
  BY <1>6, <1>7, <1>8 DEF PatchFails, TypeOK, server, network, Mutation, Places
<1> QED
  BY <1>3, <1>6, <1>7, <1>8, <1>9 DEF PatchFails, server

-----------------------------------------------------------------------------
(* A button comes back with its change on the screen.                      *)

(* The numbers that are compared.                                          *)
LEMMA Numbers ==
  ASSUME TypeOK
  PROVE  /\ version \in Nat /\ cache.version \in Nat /\ failures \in Nat
         /\ fetch.at = "served" => fetch.data.version \in Nat
         /\ \A k \in DOMAIN patch : patch[k].version \in Nat /\ patch[k].at \in Places
<1>1. cache.version \in Nat /\ (fetch.at = "served" => fetch.data.version \in Nat)
  BY FetchKinds DEF TypeOK, Shown
<1>2. patch \in Seq(Mutation)
  BY DEF TypeOK, Mutation, Places
<1>3. \A k \in DOMAIN patch : patch[k] \in Mutation
  BY <1>2, LenProperties
<1> QED
  BY <1>1, <1>3 DEF TypeOK, Mutation

(* The server and the stream do not touch what the tab waits for.          *)
LEMMA WorldSafe ==
  ASSUME Inv, TypeOK', UNCHANGED <<cache, fetch, patch, failures>>, version' >= version
  PROVE  Safe'
<1>1. version' \in Nat
  BY DEF TypeOK
<1>2. \A n \in Nat : n <= version => n <= version'
  BY <1>1, Numbers DEF Inv
<1> QED
  BY <1>2, Numbers DEF Inv, Safe, ListsAreSafe, ListsAreInOrder, TriesAreCounted,
                       WaitsForItsChange, ItsChangeIsShown, Coming

(* A fetch that is made again serves whoever has waited for the last one,  *)
(* or waits for this one.                                                  *)
LEMMA FetchAgainSafe ==
  ASSUME Inv, UNCHANGED <<version, cache, failures>>, fetch' = [at |-> "sent", tries |-> 0],
         DOMAIN patch' = DOMAIN patch,
         \A k \in DOMAIN patch : /\ patch'[k].version = patch[k].version
                                 /\ patch'[k].at \in {AfterReplacement(patch[k].at), "refetching"}
  PROVE  Safe'
<1>1. fetch'.at = "sent" /\ fetch'.tries = 0 /\ fetch' # Idle
  BY DEF Idle
<1>2. ListsAreSafe'
  BY <1>1 DEF Inv, Safe, ListsAreSafe, ListsAreInOrder, TriesAreCounted
<1>3. ASSUME NEW k \in DOMAIN patch
      PROVE  WaitsForItsChange(k)' /\ ItsChangeIsShown(k)'
  <2>1. Coming(patch[k].version)'
    BY <1>1 DEF Coming
  <2>2. patch'[k].at = "settled" => patch[k].at = "settled"
    BY DEF AfterReplacement
  <2> QED
    BY <2>1, <2>2 DEF Inv, Safe, WaitsForItsChange, ItsChangeIsShown
<1> QED
  BY <1>2, <1>3 DEF Safe

(* The list that is read has all the changes made so far.                  *)
LEMMA ServeSafe ==
  ASSUME Inv, Serve
  PROVE  Safe'
<1>1. /\ fetch'.at = "served" /\ fetch'.data.version = version /\ fetch' # Idle
      /\ fetch'.tries = fetch.tries /\ fetch # Idle
  BY DEF Serve, Idle
<1>2. UNCHANGED <<version, cache, patch, failures>>
  BY DEF Serve, server, board
<1>3. ListsAreSafe'
  BY <1>1, <1>2, Numbers DEF Inv, Safe, ListsAreSafe, ListsAreInOrder, TriesAreCounted
<1>4. ASSUME NEW k \in DOMAIN patch
      PROVE  WaitsForItsChange(k)' /\ ItsChangeIsShown(k)'
  <2>1. Coming(patch[k].version)'
    BY <1>1, <1>2, Numbers DEF Inv, Safe, WaitsForItsChange, Coming
  <2> QED
    BY <1>2, <2>1 DEF Inv, Safe, WaitsForItsChange, ItsChangeIsShown
<1> QED
  BY <1>2, <1>3, <1>4 DEF Safe

(* It is shown, and who has waited for it is done.                         *)
LEMMA RespondSafe ==
  ASSUME Inv, Respond
  PROVE  Safe'
<1>1. cache' = fetch.data /\ fetch' = Idle /\ fetch'.at = "idle" /\ fetch.at = "served"
      /\ version' = version /\ failures' = failures
  BY DEF Respond, Idle, server
<1>2. /\ DOMAIN patch' = DOMAIN patch
      /\ \A k \in DOMAIN patch :
           /\ patch'[k].version = patch[k].version
           /\ patch'[k].at = AfterFetch(patch[k].at)
  BY FetchOverType DEF Inv, Respond
<1>3. ListsAreSafe'
  BY <1>1, Numbers DEF Inv, Safe, ListsAreSafe, ListsAreInOrder, TriesAreCounted
<1>4. ASSUME NEW k \in DOMAIN patch
      PROVE  WaitsForItsChange(k)' /\ ItsChangeIsShown(k)'
  <2>1. cache.version <= cache'.version
    BY <1>1 DEF Inv, Safe, ListsAreSafe, ListsAreInOrder
  <2>2. Coming(patch[k].version) => cache'.version >= patch[k].version
    BY <1>1 DEF Coming
  <2>3. patch'[k].at \notin Waiting
    BY <1>2, Numbers DEF Inv, AfterFetch, Places, Waiting, Done
  <2>4. patch'[k].at = "settled" => patch[k].at \in Waiting \/ patch[k].at = "settled"
    BY <1>2, Numbers DEF Inv, AfterFetch, Places, Waiting, Done
  <2>5. patch'[k].at = "cut short" => patch[k].at = "cut short"
    BY <1>2, Numbers DEF Inv, AfterFetch, Places, Waiting, Done
  <2>6. cache.version >= patch[k].version => cache'.version >= patch[k].version
    BY <1>1, <2>1, Numbers DEF Inv
  <2>7. WaitsForItsChange(k) /\ ItsChangeIsShown(k)
    BY DEF Inv, Safe
  <2>8. WaitsForItsChange(k)'
    BY <1>1, <1>2, <2>3, <2>7 DEF WaitsForItsChange
  <2>9. failures < 2 /\ patch'[k].at \in {"settled", "cut short"} => cache'.version >= patch[k].version
    BY <2>2, <2>4, <2>5, <2>6, <2>7 DEF WaitsForItsChange, ItsChangeIsShown
  <2> QED
    BY <1>1, <1>2, <2>8, <2>9 DEF ItsChangeIsShown
<1> QED
  BY <1>2, <1>3, <1>4 DEF Safe

(* It is asked for again, or given up, which takes two failures.           *)
LEMMA FetchFailsSafe ==
  ASSUME Inv, FetchFails
  PROVE  Safe'
<1>1. UNCHANGED <<version, cache>> /\ failures' = failures + 1 /\ failures \in Nat /\ fetch # Idle
  BY Numbers DEF FetchFails, server, Inv
<1>2. CASE fetch.tries = 0
  <2>1. fetch' = [at |-> "sent", tries |-> 1] /\ fetch' # Idle /\ fetch'.at = "sent"
    BY <1>2 DEF FetchFails, AfterFailure, Idle
  <2>2. patch' = patch
    BY <2>1 DEF FetchFails, board
  <2>3. ListsAreSafe'
    BY <1>1, <2>1 DEF Inv, Safe, ListsAreSafe, ListsAreInOrder, TriesAreCounted
  <2>4. ASSUME NEW k \in DOMAIN patch
        PROVE  WaitsForItsChange(k)' /\ ItsChangeIsShown(k)'
    <3>1. Coming(patch[k].version)'
      BY <2>1 DEF Coming
    <3>2. failures' < 2 => failures < 2
      BY <1>1
    <3> QED
      BY <1>1, <2>2, <3>1, <3>2 DEF Inv, Safe, WaitsForItsChange, ItsChangeIsShown
  <2> QED
    BY <2>2, <2>3, <2>4 DEF Safe
<1>3. CASE fetch.tries # 0
  <2>1. fetch' = Idle /\ fetch'.at = "idle" /\ FetchOver
    BY <1>3 DEF FetchFails, AfterFailure, Idle
  <2>2. fetch.tries = 1
    BY <1>1, <1>3, FetchKinds DEF Inv
  <2>3. ~(failures' < 2)
    BY <1>1, <2>2 DEF Inv, Safe, ListsAreSafe, TriesAreCounted
  <2>4. /\ DOMAIN patch' = DOMAIN patch
        /\ \A k \in DOMAIN patch :
             /\ patch'[k].version = patch[k].version
             /\ patch'[k].at = AfterFetch(patch[k].at)
    BY <2>1, FetchOverType DEF Inv
  <2>5. ListsAreSafe'
    BY <1>1, <2>1 DEF Inv, Safe, ListsAreSafe, ListsAreInOrder, TriesAreCounted
  <2>6. ASSUME NEW k \in DOMAIN patch
        PROVE  WaitsForItsChange(k)' /\ ItsChangeIsShown(k)'
    <3>1. patch'[k].at \notin Waiting
      BY <2>4, Numbers DEF Inv, AfterFetch, Places, Waiting, Done
    <3>2. WaitsForItsChange(k)'
      BY <1>1, <2>4, <3>1 DEF Inv, Safe, WaitsForItsChange
    <3> QED
      BY <1>1, <2>3, <3>2 DEF ItsChangeIsShown
  <2> QED
    BY <2>4, <2>5, <2>6 DEF Safe
<1> QED
  BY <1>2, <1>3

(* The buttons.                                                            *)
LEMMA ButtonsSafe ==
  ASSUME Inv, (\E o \in Orders : Click(o))
                \/ \E k \in DOMAIN patch : ServePatch(k) \/ PatchOk(k) \/ PatchFails(k)
  PROVE  TypeOK' /\ Safe'
<1>1. ASSUME NEW o \in Orders, Click(o) PROVE TypeOK' /\ Safe'
  <2>1. /\ TypeOK' /\ UNCHANGED <<version, cache, fetch, failures>>
        /\ \A k \in DOMAIN patch' : \/ k \in DOMAIN patch /\ patch'[k] = patch[k]
                                    \/ patch'[k].at = "sent" /\ patch'[k].version = 0
    BY <1>1, ClickType DEF Inv
  <2>2. ListsAreSafe'
    BY <2>1 DEF Inv, Safe, ListsAreSafe, ListsAreInOrder, TriesAreCounted
  <2>3. ASSUME NEW k \in DOMAIN patch'
        PROVE  WaitsForItsChange(k)' /\ ItsChangeIsShown(k)'
    <3>1. CASE k \in DOMAIN patch /\ patch'[k] = patch[k]
      BY <2>1, <3>1 DEF Inv, Safe, WaitsForItsChange, ItsChangeIsShown, Coming
    <3>2. CASE patch'[k].at = "sent" /\ patch'[k].version = 0
      BY <2>1, <3>2, Numbers DEF Inv, WaitsForItsChange, ItsChangeIsShown, Waiting
    <3> QED
      BY <2>1, <3>1, <3>2
  <2> QED
    BY <2>1, <2>2, <2>3 DEF Safe
<1>2. ASSUME NEW k \in DOMAIN patch, ServePatch(k) PROVE TypeOK' /\ Safe'
  <2>1. /\ TypeOK' /\ version' = version + 1 /\ UNCHANGED <<cache, fetch, failures>>
        /\ DOMAIN patch' = DOMAIN patch
        /\ patch'[k].at = "served" /\ patch'[k].version = version'
        /\ \A j \in DOMAIN patch \ {k} : patch'[j] = patch[j]
    BY <1>2, ServePatchType DEF Inv
  <2>2. ListsAreSafe'
    BY <2>1, Numbers DEF Inv, Safe, ListsAreSafe, ListsAreInOrder, TriesAreCounted
  <2>3. version' \in Nat
    BY <2>1 DEF TypeOK
  <2>4. ASSUME NEW j \in DOMAIN patch
        PROVE  WaitsForItsChange(j)' /\ ItsChangeIsShown(j)'
    <3>1. CASE j = k
      <4>1. patch'[j].at = "served" /\ patch'[j].version <= version'
        BY <2>1, <2>3, <3>1
      <4> QED
        BY <4>1 DEF WaitsForItsChange, ItsChangeIsShown, Waiting
    <3>2. CASE j # k
      <4>1. patch'[j] = patch[j] /\ WaitsForItsChange(j) /\ ItsChangeIsShown(j)
        BY <2>1, <3>2 DEF Inv, Safe
      <4>2. patch[j].version <= version'
        BY <2>1, <4>1, Numbers DEF Inv, WaitsForItsChange
      <4> QED
        BY <2>1, <4>1, <4>2 DEF WaitsForItsChange, ItsChangeIsShown, Coming
    <3> QED
      BY <3>1, <3>2
  <2> QED
    BY <2>1, <2>2, <2>4 DEF Safe
<1>3. ASSUME NEW k \in DOMAIN patch, PatchOk(k) PROVE TypeOK' /\ Safe'
  <2>1. /\ TypeOK' /\ UNCHANGED <<version, cache, failures>>
        /\ fetch' = [at |-> "sent", tries |-> 0]
        /\ DOMAIN patch' = DOMAIN patch
        /\ \A j \in DOMAIN patch : /\ patch'[j].version = patch[j].version
                                   /\ patch'[j].at \in {AfterReplacement(patch[j].at), "refetching"}
    BY <1>3, PatchOkType DEF Inv
  <2> QED
    BY <2>1, FetchAgainSafe
<1>4. ASSUME NEW k \in DOMAIN patch, PatchFails(k) PROVE TypeOK' /\ Safe'
  <2>1. /\ TypeOK' /\ UNCHANGED <<version, cache, fetch>> /\ failures' = failures + 1
        /\ DOMAIN patch' = DOMAIN patch
        /\ patch'[k].at = "failed" /\ patch'[k].version = patch[k].version
        /\ \A j \in DOMAIN patch \ {k} : patch'[j] = patch[j]
    BY <1>4, PatchFailsType DEF Inv
  <2>2. ListsAreSafe'
    BY <2>1, Numbers DEF Inv, Safe, ListsAreSafe, ListsAreInOrder, TriesAreCounted
  <2>3. ASSUME NEW j \in DOMAIN patch
        PROVE  WaitsForItsChange(j)' /\ ItsChangeIsShown(j)'
    <3>1. CASE j = k
      BY <2>1, <3>1 DEF Inv, Safe, WaitsForItsChange, ItsChangeIsShown, Waiting
    <3>2. CASE j # k
      <4>1. failures' < 2 => failures < 2
        BY <2>1, Numbers DEF Inv
      <4> QED
        BY <2>1, <3>2, <4>1 DEF Inv, Safe, WaitsForItsChange, ItsChangeIsShown, Coming
    <3> QED
      BY <3>1, <3>2
  <2> QED
    BY <2>1, <2>2, <2>3 DEF Safe
<1> QED
  BY <1>1, <1>2, <1>3, <1>4

-----------------------------------------------------------------------------
(* The invariant at the start, and step by step.                           *)
LEMMA InitInv == Init => Inv
<1> SUFFICES ASSUME Init PROVE Inv
  OBVIOUS
<1>1. fetch = Idle /\ fetch.at = "idle" /\ patch = <<>> /\ DOMAIN patch = {}
  BY DEF Init, Idle
<1>2. status \in [Orders -> Status]
  BY DEF Init, Status
<1>3. inbox \in Seq(Mail) /\ patch \in Seq(Mutation)
  BY EmptySeq DEF Init
<1>4. cache \in Shown /\ cache.version = 0
  BY <1>2 DEF Init, Shown
<1>5. TypeOK
  BY <1>1, <1>2, <1>3, <1>4 DEF Init, TypeOK, Mutation, Places
<1> QED
  BY <1>1, <1>4, <1>5 DEF Init, Inv, Safe, ListsAreSafe, ListsAreInOrder, TriesAreCounted

(* Each step is one of the above.                                          *)
LEMMA InvStep == Inv /\ [Next]_vars => Inv'
<1> SUFFICES ASSUME Inv, [Next]_vars PROVE Inv'
  OBVIOUS
<1>1. CASE Connect \/ ConnectFails \/ Break \/ \E o \in Orders : Advance(o)
  BY <1>1, WorldType, WorldSafe DEF Inv
<1>2. CASE Receive
  <2>1. TypeOK' /\ version' >= version
    BY <1>2, ReceiveType, Numbers DEF Inv
  <2> QED
    BY <1>2, <2>1, ReceiveType, WorldSafe, FetchAgainSafe DEF Inv
<1>3. CASE Serve \/ Respond \/ FetchFails
  BY <1>3, FetchType, ServeSafe, RespondSafe, FetchFailsSafe DEF Inv
<1>4. CASE (\E o \in Orders : Click(o))
             \/ \E k \in DOMAIN patch : ServePatch(k) \/ PatchOk(k) \/ PatchFails(k)
  BY <1>4, ButtonsSafe DEF Inv
<1>5. CASE UNCHANGED vars
  <2>1. TypeOK' /\ version' >= version
    BY <1>5, Numbers DEF Inv, vars, server, network, board, TypeOK
  <2> QED
    BY <1>5, <2>1, WorldSafe DEF Inv, vars, server, board
<1> QED
  BY <1>1, <1>2, <1>3, <1>4, <1>5 DEF Next

(* Every variable keeps its type.                                          *)
THEOREM TypeCorrect == Spec => []TypeOK
<1>1. Inv => TypeOK
  BY DEF Inv
<1> QED
  BY <1>1, InitInv, InvStep, PTL DEF Spec

(* However clicks, events, fetches and failures interleave: a button comes *)
(* back on a list that has the change it made (useOrders:94-95).  Unless a *)
(* fetch failed twice, or the one that the mutation waited for was         *)
(* replaced twice: then a list that has the change is on its way, or yet   *)
(* to be read.                                                             *)
THEOREM SettledShowsTheChange == Spec => []SettledMeansShown
<1>1. Inv => SettledMeansShown
  BY DEF Inv, Safe, ItsChangeIsShown, SettledMeansShown
<1> QED
  BY <1>1, InitInv, InvStep, PTL DEF Spec
=============================================================================
