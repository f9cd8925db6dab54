-------------------------- MODULE OptimisticOrders --------------------------
(***************************************************************************)
(* The same browser tab with the solution of the last two exercises,       *)
(* useOrders-solution: an event is written into the cached list, the list  *)
(* is fetched as a safety net at most once per interval, and a button      *)
(* shows its change before the server has heard of it.                     *)
(*                                                                         *)
(* Three things write the list, then: events, answers and the tab's own    *)
(* guesses, which are taken back when the server refuses.  What tells old  *)
(* from new is updatedAt, set by two clocks: the server's, and for a guess *)
(* the browser's.                                                          *)
(***************************************************************************)
EXTENDS Integers, Sequences

CONSTANTS
  Orders,       \* the orders there may be
  Seeds,        \* which of them there may be when the page is rendered
  Absent,       \* no such order
  None,         \* no busy order
  Skews,        \* by how much the browser's clock may be ahead of the server's
  PerStamp,     \* how many changes share a millisecond
  MaxVersion,   \* how many changes the server makes; bounds the model
  MaxClicks,    \* how often the tab's buttons are pressed; bounds the model
  MaxFaults     \* how many requests fail and streams break; bounds the model

Status  == {"PENDING", "BREWING", "READY"}
Version == [status : Status, at : Int, ver : Nat]

ASSUME OptimisticAssumption ==
  /\ Absent \notin Status /\ Absent \notin Version
  /\ Seeds \subseteq SUBSET Orders /\ None \notin Orders /\ Skews \subseteq Int
  /\ PerStamp \in Nat \ {0}
  /\ MaxVersion \in Nat /\ MaxClicks \in Nat /\ MaxFaults \in Nat

VARIABLES
  server,            \* the server's orders
  version,           \* the number of changes so far
  connection,        \* state of useEventSource, and of the EventSource
  events,            \* those on their way to it
  cache,             \* the query's data: the orders of the list
  fetch,             \* the fetch in flight; clicks is ghost: those before it was asked for
  timer,             \* whether timer.current is set
  patch, busy,       \* the mutations, in the order of the clicks; busyOrderId
  skew,              \* the browser's clock against the server's
  faults,            \* so far
  heard              \* ghost: per order, the newest version an event or an answer told of

service == <<server, version>>
network == <<connection, events>>
board   == <<patch, busy>>
vars    == <<service, network, cache, fetch, timer, board, skew, faults, heard>>

Guess == 0     \* the version of an order the tab made up
List  == [Orders -> Version \cup {Absent}]
Idle  == [at |-> "idle"]

\* A mutation that was answered waits for the fetch it asked for, or for the one
\* that replaced it, and is over.
Waiting  == [at |-> "refetching"]
Replaced == [at |-> "replaced"]
Settled  == [at |-> "settled"]

TypeOK ==
  /\ server \in List /\ version \in Nat
  /\ connection \in {"connecting", "open", "closed"}
  /\ events \subseteq [order : Orders, data : Version]
  /\ cache \in List
  /\ fetch \in {Idle} \cup [at : {"sent"}, tries : 0..1, clicks : Nat]
                      \cup [at : {"served"}, tries : 0..1, clicks : Nat, data : List]
  /\ timer \in BOOLEAN
  /\ patch \in Seq({Waiting, Replaced, Settled} \cup
       [at : {"sent", "served"}, order : Orders, to : Status, previous : List, ver : Nat])
  /\ busy \in Orders \cup {None}
  /\ skew \in Skews /\ faults \in Nat
  /\ heard \in [Orders -> Nat]

\* updatedAt of a change: the server's clock, in milliseconds.
Stamp(v) == v \div PerStamp

\* The page was rendered on the server; the tab connects when it is shown.
Init ==
  /\ version = 1
  /\ \E seed \in Seeds :
       server = [o \in Orders |->
                  IF o \in seed THEN [status |-> "PENDING", at |-> Stamp(1), ver |-> 1] ELSE Absent]
  /\ connection = "connecting" /\ events = {}
  /\ cache = server
  /\ fetch = Idle /\ timer = FALSE
  /\ patch = <<>> /\ busy = None
  /\ skew \in Skews /\ faults = 0
  /\ heard = [o \in Orders |-> 0]

-----------------------------------------------------------------------------
(* The server.                                                             *)

StatusIn(list, o) == IF list[o] = Absent THEN Absent ELSE list[o].status

\* A change is announced to the stream, if there is one; a status that is set
\* twice is stamped again and not announced.  Every event is published by a
\* task of its own, so they arrive in any order.
Store(o, s) ==
  /\ version' = version + 1
  /\ server' = [server EXCEPT ![o] = [status |-> s, at |-> Stamp(version'), ver |-> version']]
  /\ events' = IF connection = "open" /\ s # StatusIn(server, o)
               THEN events \cup {[order |-> o, data |-> server'[o]]} ELSE events

NextStatus == [PENDING |-> "BREWING", BREWING |-> "READY"]

\* A customer orders, the barista or another screen moves an order along.
ChangeElsewhere(o) ==
  /\ version < MaxVersion
  /\ \/ server[o] = Absent /\ Store(o, "PENDING")
     \/ StatusIn(server, o) \in DOMAIN NextStatus /\ Store(o, NextStatus[server[o].status])
  /\ UNCHANGED <<connection, cache, fetch, timer, board, skew, faults, heard>>

-----------------------------------------------------------------------------
(* The stream, as the listeners of useEventSource see it.  An error leaves *)
(* the EventSource trying again, unless the answer was no stream at all.   *)
Connect ==
  /\ connection = "connecting"
  /\ connection' = "open"
  /\ UNCHANGED <<service, events, cache, fetch, timer, board, skew, faults, heard>>

Disconnect ==
  /\ connection # "closed" /\ faults < MaxFaults
  /\ faults' = faults + 1
  /\ events' = {}
  /\ connection' \in {"connecting"} \cup (IF connection = "open" THEN {} ELSE {"closed"})
  /\ UNCHANGED <<service, cache, fetch, timer, board, skew, heard>>

-----------------------------------------------------------------------------
(* Events.                                                                 *)

\* Faulty: whatever comes last is right.
ApplyEventUnguarded(list, o, incoming) == [list EXCEPT ![o] = incoming]

\* An event is dropped if the list has the order with a later updatedAt.
ApplyEvent(list, o, incoming) ==
  IF list[o] # Absent /\ incoming.at < list[o].at THEN list ELSE [list EXCEPT ![o] = incoming]

Hear(o, v) == heard' = [heard EXCEPT ![o] = IF v > @ THEN v ELSE @]

\* onEvent: into the list, and a fetch is due, if none was (scheduleRefetch).
OnEvent(e) ==
  /\ e \in events
  /\ events' = events \ {e}
  /\ cache' = ApplyEvent(cache, e.order, e.data)
  /\ timer' = TRUE
  /\ Hear(e.order, e.data.ver)
  /\ UNCHANGED <<service, connection, fetch, board, skew, faults>>

-----------------------------------------------------------------------------
(* The query.  A fetch in flight is cancelled for the new one; in the      *)
(* faulty variant it is shared.                                            *)
Asking == [at |-> "sent", tries |-> 0, clicks |-> Len(patch)]

InvalidateShared == IF fetch = Idle THEN fetch' = Asking ELSE UNCHANGED fetch

Invalidate == fetch' = Asking

\* Mutations that wait for a fetch are over when it is.
Released(calls) ==
  [k \in DOMAIN calls |-> IF calls[k] \in {Waiting, Replaced} THEN Settled ELSE calls[k]]

\* When it is replaced they wait for the new one, but for the bare promise of
\* it: a second time, the promise is rejected, and ignored.
HandOver(calls) ==
  [k \in DOMAIN calls |-> CASE calls[k] = Waiting  -> Replaced
                            [] calls[k] = Replaced -> Settled
                            [] OTHER               -> calls[k]]

\* The callbacks given to mutate() run for the latest call only.
Settle(calls) ==
  /\ patch' = calls
  /\ busy' = IF calls # <<>> /\ calls[Len(calls)] = Settled THEN None ELSE busy

FetchOver == Settle(Released(patch))

\* The interval is over.
Fire ==
  /\ timer
  /\ timer' = FALSE
  /\ Invalidate
  /\ Settle(HandOver(patch))
  /\ UNCHANGED <<service, network, cache, skew, faults, heard>>

Serve ==
  /\ fetch.at = "sent"
  /\ fetch' = [at |-> "served", tries |-> fetch.tries, clicks |-> fetch.clicks, data |-> server]
  /\ UNCHANGED <<service, network, cache, timer, board, skew, faults, heard>>

Respond ==
  /\ fetch.at = "served"
  /\ cache' = fetch.data
  /\ fetch' = Idle
  /\ FetchOver
  /\ UNCHANGED <<service, network, timer, skew, faults, heard>>

\* Faulty: there is no end to the retries.
AfterFailureAgain(f) == [at |-> "sent", tries |-> f.tries + 1, clicks |-> f.clicks]

\* A failed fetch is tried once more.
AfterFailure(f) == IF f.tries = 0 THEN [at |-> "sent", tries |-> 1, clicks |-> f.clicks] ELSE Idle

FetchFails ==
  /\ fetch # Idle /\ faults < MaxFaults
  /\ faults' = faults + 1
  /\ fetch' = AfterFailure(fetch)
  /\ IF fetch' = Idle THEN FetchOver ELSE UNCHANGED board
  /\ UNCHANGED <<service, network, cache, timer, skew, heard>>

-----------------------------------------------------------------------------
(* The buttons.                                                            *)

\* Faulty: onMutate lets a fetch that is under way go on.
CancelNothing == UNCHANGED fetch

CancelQueries == fetch' = Idle

\* onMutate: cancel, remember the list, and show the change at once.
Click(o) ==
  /\ Len(patch) < MaxClicks
  /\ busy # o
  /\ StatusIn(cache, o) \in DOMAIN NextStatus
  /\ CancelQueries
  /\ LET s == NextStatus[cache[o].status] IN
     /\ cache' = [cache EXCEPT ![o] = [status |-> s, at |-> Stamp(version) + skew, ver |-> Guess]]
     /\ patch' = Append(Released(patch),
                        [at |-> "sent", order |-> o, to |-> s, previous |-> cache, ver |-> 0])
  /\ busy' = o
  /\ UNCHANGED <<service, network, timer, skew, faults, heard>>

\* PATCH /orders/{orderId}.
ServePatch(k) ==
  /\ patch[k].at = "sent"
  /\ Store(patch[k].order, patch[k].to)
  /\ patch' = [patch EXCEPT ![k].at = "served", ![k].ver = version']
  /\ UNCHANGED <<connection, cache, fetch, timer, busy, skew, faults, heard>>

\* onSettled returns the promise of a new fetch.
OnSettled(k) == Invalidate /\ Settle([HandOver(patch) EXCEPT ![k] = Waiting])

PatchOk(k) ==
  /\ patch[k].at = "served"
  /\ OnSettled(k)
  /\ Hear(patch[k].order, patch[k].ver)
  /\ UNCHANGED <<service, network, cache, timer, skew, faults>>

\* Faulty: an error is followed by no fetch.
OnErrorOnly(k) ==
  /\ cache' = patch[k].previous
  /\ Settle([patch EXCEPT ![k] = Settled])
  /\ UNCHANGED fetch

\* onError puts the WHOLE list back to what it was, and onSettled follows.
OnError(k) == cache' = patch[k].previous /\ OnSettled(k)

\* The request or its answer is lost; in the latter case the change is made.
PatchFails(k) ==
  /\ patch[k].at \in {"sent", "served"} /\ faults < MaxFaults
  /\ faults' = faults + 1
  /\ OnError(k)
  /\ UNCHANGED <<service, network, timer, skew, heard>>

Next == \/ Connect \/ Disconnect
        \/ \E e \in events : OnEvent(e)
        \/ Fire \/ Serve \/ Respond \/ FetchFails
        \/ \E o \in Orders : ChangeElsewhere(o) \/ Click(o)
        \/ \E k \in DOMAIN patch : ServePatch(k) \/ PatchOk(k) \/ PatchFails(k)

Spec == Init /\ [][Next]_vars

Receive   == \E e \in events : OnEvent(e)
Answer(k) == k \in DOMAIN patch /\ (ServePatch(k) \/ PatchOk(k))

\* The network delivers or fails, and timers fire.
FairSpec ==
  /\ Spec
  /\ WF_vars(Receive) /\ WF_vars(Fire) /\ WF_vars(Serve) /\ WF_vars(Respond)
  /\ \A k \in 1..MaxClicks : WF_vars(Answer(k))
-----------------------------------------------------------------------------
Pending(k) == patch[k].at \in {"sent", "served"}

\* The list has of each order the server's word, and none older than heard.
ShowsWhatItHeard ==
  \A o \in Orders : IF cache[o] = Absent THEN heard[o] = 0
                    ELSE cache[o].ver # Guess /\ cache[o].ver >= heard[o]

(* With nothing under way the list has no guess left in it, nor anything   *)
(* older than the tab was told of, unless two things failed: every way     *)
(* to spoil the list, a rollback to an old snapshot, an old answer over a  *)
(* new event, a click that cancels the fetch others wait for, an event     *)
(* refused for the browser's clock, leaves a fetch to come                 *)
(* (useOrders-solution:21-23, 167-168).                                    *)
QuietMeansServer ==
  /\ ~timer /\ fetch = Idle /\ faults < 2
  /\ \A k \in DOMAIN patch : patch[k] = Settled
  => ShowsWhatItHeard

(* What a click shows is replaced, while its request is under way, only by *)
(* another click, a list asked for after it, an event that is not older    *)
(* or a rollback; never by the fetch that was under way when the button    *)
(* was pressed (useOrders-solution:146-147).                               *)
ClickHolds ==
  [][\A k \in DOMAIN patch :
       LET o == patch[k].order IN
       Pending(k) /\ cache'[o] # cache[o] /\ cache[o] # Absent /\ cache[o].ver = Guess =>
         \/ faults' # faults
         \/ Len(patch') > Len(patch)
         \/ fetch.at = "served" /\ cache' = fetch.data /\ fetch.clicks >= k
         \/ events' # events /\ cache'[o].at >= cache[o].at]_vars

(* An event that arrives late never takes an order back to an older        *)
(* version, unless the two are of the same millisecond                     *)
(* (useOrders-solution:43-47).                                             *)
EventsNeverGoBack ==
  [][\A o \in Orders :
       events' # events /\ cache[o] # cache'[o] /\ cache[o] # Absent =>
         cache'[o].ver > cache[o].ver \/ cache'[o].at = cache[o].at]_vars

(* When the clicks and the changes are over, the list ends up with all it  *)
(* was told of, for good, unless two things failed.                        *)
EndsUpShown == <>[](ShowsWhatItHeard \/ faults >= 2)
=============================================================================
