----------------------------- MODULE LiveOrders -----------------------------
(***************************************************************************)
(* A browser tab that shows the orders: useEventSource, useOrders and      *)
(* useUpdateStatus, on top of the cache of TanStack Query.  The tab starts *)
(* from the list the page was rendered with, fetches it again whenever an  *)
(* event arrives, and never otherwise.                                     *)
(*                                                                         *)
(* Orders change under it: by the barista, by another tab, or by its own   *)
(* buttons, which act on the status that the tab SHOWS.  The list is       *)
(* numbered by version, the number of changes the server has made.         *)
(***************************************************************************)
EXTENDS Naturals, Sequences

CONSTANTS
  Orders,       \* the orders of the list
  None,         \* no order
  MaxVersion,   \* how many changes the server makes; bounds the model
  MaxClicks,    \* how often the tab's buttons are pressed; bounds the model
  MaxFailures,  \* how many HTTP requests fail; bounds the model
  MaxBreaks     \* how often the stream breaks or cannot be made; bounds the model

ASSUME LiveAssumption ==
  /\ None \notin Orders
  /\ MaxVersion \in Nat /\ MaxClicks \in Nat /\ MaxFailures \in Nat /\ MaxBreaks \in Nat

VARIABLES
  status, version,   \* the server: each order's status, the number of changes so far
  stream, inbox,     \* the EventSource and the messages on their way to it
  connection,        \* state of useEventSource, shown by the LiveIndicator
  cache,             \* the query's data: [status, version]
  fetch,             \* the fetch in flight
  patch, busy,       \* the mutations so far, in the order of the clicks; busyOrderId
  failures, breaks,  \* so far
  heard              \* ghost: the newest version an event or an answer told of

server  == <<status, version>>
network == <<stream, inbox, connection, breaks>>
board   == <<patch, busy>>
vars    == <<server, network, cache, fetch, board, failures, heard>>

Status == {"PENDING", "BREWING", "READY"}
Shown  == [status : [Orders -> Status], version : Nat]
Idle   == [at |-> "idle"]

\* A mutation that succeeded waits for the fetch it asked for, or for the one
\* that replaced it; it is over when that is, or when that is replaced in turn.
Waiting == {"refetching", "replaced"}
Done    == {"settled", "cut short", "failed"}
Mail   == [kind : {"event"}, version : Nat] \cup [kind : {"ready", "error"}]

TypeOK ==
  /\ status \in [Orders -> Status] /\ version \in Nat
  /\ stream \in {"off", "on"} /\ inbox \in Seq(Mail)
  /\ connection \in {"connecting", "open", "closed"}
  /\ cache \in Shown
  /\ fetch \in {Idle} \cup [at : {"sent"}, tries : 0..1]
                      \cup [at : {"served"}, tries : 0..1, data : Shown]
  /\ patch \in Seq([order : Orders, to : Status, version : Nat,
                    at : {"sent", "served"} \cup Waiting \cup Done])
  /\ busy \in Orders \cup {None}
  /\ failures \in Nat /\ breaks \in Nat /\ heard \in Nat

\* The page was rendered on the server; the tab connects when it is shown.
Init ==
  /\ status \in [Orders -> {"PENDING", "BREWING"}] /\ version = 0
  /\ stream = "off" /\ inbox = <<>> /\ connection = "connecting"
  /\ cache = [status |-> status, version |-> 0]
  /\ fetch = Idle
  /\ patch = <<>> /\ busy = None
  /\ failures = 0 /\ breaks = 0 /\ heard = 0

-----------------------------------------------------------------------------
(* The server.                                                             *)

\* Every change is announced to the streams there are.  A status set twice is
\* stored again, and not announced.
Store(o, s) ==
  /\ status' = [status EXCEPT ![o] = s]
  /\ version' = version + 1
  /\ inbox' = IF stream = "on" /\ s # status[o]
              THEN Append(inbox, [kind |-> "event", version |-> version']) ELSE inbox

\* The flow of an order, as nextStatus has it.
NextStatus == [PENDING |-> "BREWING", BREWING |-> "READY"]

\* The barista, or somebody at another screen, moves an order along.
Advance(o) ==
  /\ version < MaxVersion
  /\ status[o] \in DOMAIN NextStatus
  /\ Store(o, NextStatus[status[o]])
  /\ UNCHANGED <<stream, connection, breaks, cache, fetch, board, failures, heard>>

-----------------------------------------------------------------------------
(* The EventSource, and the listeners useEventSource puts on it.           *)

\* The relay has a subscription, and says so.
Connect ==
  /\ stream = "off"
  /\ stream' = "on"
  /\ inbox' = Append(inbox, [kind |-> "ready"])
  /\ UNCHANGED <<server, connection, breaks, cache, fetch, board, failures, heard>>

\* The relay has none: it sends an error and ends the stream.
ConnectFails ==
  /\ stream = "off" /\ breaks < MaxBreaks
  /\ breaks' = breaks + 1
  /\ inbox' = Append(inbox, [kind |-> "error"])
  /\ UNCHANGED <<server, stream, connection, cache, fetch, board, failures, heard>>

\* The connection breaks, with what was on its way.  The browser retries.
Break ==
  /\ stream = "on" /\ breaks < MaxBreaks
  /\ breaks' = breaks + 1
  /\ stream' = "off"
  /\ inbox' = <<[kind |-> "error"]>>
  /\ UNCHANGED <<server, connection, cache, fetch, board, failures, heard>>

-----------------------------------------------------------------------------
(* The query.  invalidateQueries fetches again; a fetch in flight is       *)
(* cancelled and its answer dropped (cancelRefetch).  In the faulty        *)
(* variant it would be shared instead.                                     *)
InvalidateShared == fetch' = IF fetch = Idle THEN [at |-> "sent", tries |-> 0] ELSE fetch

Invalidate == fetch' = [at |-> "sent", tries |-> 0]

\* The callbacks given to mutate() run for the latest call only.
Settle(calls) ==
  /\ patch' = calls
  /\ busy' = IF calls # <<>> /\ calls[Len(calls)].at \in Done THEN None ELSE busy

\* When its fetch is cancelled a mutation waits for the new one instead, but for
\* the bare promise of it: a second time, the promise is rejected, and ignored.
AfterReplacement(at) == IF at = "refetching" THEN "replaced"
                        ELSE IF at = "replaced" THEN "cut short" ELSE at

HandOver(calls) == [k \in DOMAIN calls |-> [calls[k] EXCEPT !.at = AfterReplacement(@)]]

AfterFetch(at) == IF at \in Waiting THEN "settled" ELSE at

FetchOver == Settle([k \in DOMAIN patch |-> [patch[k] EXCEPT !.at = AfterFetch(@)]])

\* Told of version v by an event or by the answer to a mutation.
Hear(v) == heard' = IF v > heard THEN v ELSE heard

\* useOrders' onEvent.
OnEvent(v) == Invalidate /\ Hear(v) /\ Settle(HandOver(patch))

\* The state each message that is not an event puts the indicator in.  In the
\* faulty variant an error is passed on as it is.
ConnectionAfterAsSent == [ready |-> "open", error |-> "error"]

ConnectionAfter == [ready |-> "open", error |-> "connecting"]

Receive ==
  /\ inbox # <<>>
  /\ inbox' = Tail(inbox)
  /\ LET m == Head(inbox) IN
     IF m.kind = "event"
     THEN OnEvent(m.version) /\ UNCHANGED connection
     ELSE connection' = ConnectionAfter[m.kind] /\ UNCHANGED <<fetch, heard, board>>
  /\ UNCHANGED <<server, stream, breaks, cache, failures>>

\* GET /orders reads the list ...
Serve ==
  /\ fetch.at = "sent"
  /\ fetch' = [at |-> "served", tries |-> fetch.tries,
               data |-> [status |-> status, version |-> version]]
  /\ UNCHANGED <<server, network, cache, board, failures, heard>>

\* ... and the answer replaces the cache.
Respond ==
  /\ fetch.at = "served"
  /\ cache' = fetch.data
  /\ fetch' = Idle
  /\ FetchOver
  /\ UNCHANGED <<server, network, failures, heard>>

\* A failed fetch is tried once more (retry: 1), and then given up.
AfterFailure(tries) == IF tries = 0 THEN [at |-> "sent", tries |-> 1] ELSE Idle

FetchFails ==
  /\ fetch # Idle /\ failures < MaxFailures
  /\ failures' = failures + 1
  /\ fetch' = AfterFailure(fetch.tries)
  /\ IF fetch' = Idle THEN FetchOver ELSE UNCHANGED board
  /\ UNCHANGED <<server, network, cache, heard>>

-----------------------------------------------------------------------------
(* The buttons of the barista's board.                                     *)

\* There is a button for the status after the one that is shown, which is
\* disabled while the order is the busy one.
Pressable(o) == busy # o /\ cache.status[o] \in DOMAIN NextStatus

Click(o) ==
  /\ Len(patch) < MaxClicks
  /\ Pressable(o)
  /\ patch' = Append(patch, [order |-> o, to |-> NextStatus[cache.status[o]],
                             at |-> "sent", version |-> 0])
  /\ busy' = o
  /\ UNCHANGED <<server, network, cache, fetch, failures, heard>>

\* PATCH /orders/{orderId}.
ServePatch(k) ==
  /\ patch[k].at = "sent"
  /\ Store(patch[k].order, patch[k].to)
  /\ patch' = [patch EXCEPT ![k].at = "served", ![k].version = version']
  /\ UNCHANGED <<stream, connection, breaks, cache, fetch, busy, failures, heard>>

\* onSuccess returns the promise of the new fetch, so that the mutation waits
\* for it.  In the faulty variant it returns nothing.
AfterOkUnawaited == "settled"

AfterOk == "refetching"

PatchOk(k) ==
  /\ patch[k].at = "served"
  /\ Invalidate /\ Hear(patch[k].version)
  /\ Settle([HandOver(patch) EXCEPT ![k].at = AfterOk])
  /\ UNCHANGED <<server, network, cache, failures>>

\* The request or its answer is lost; in the latter case the change is made.
PatchFails(k) ==
  /\ patch[k].at \in {"sent", "served"} /\ failures < MaxFailures
  /\ failures' = failures + 1
  /\ Settle([patch EXCEPT ![k].at = "failed"])
  /\ UNCHANGED <<server, network, cache, fetch, heard>>

Next == \/ Connect \/ ConnectFails \/ Break \/ Receive
        \/ Serve \/ Respond \/ FetchFails
        \/ \E o \in Orders : Advance(o) \/ Click(o)
        \/ \E k \in DOMAIN patch : ServePatch(k) \/ PatchOk(k) \/ PatchFails(k)

Spec == Init /\ [][Next]_vars

Answer(k) == k \in DOMAIN patch /\ (ServePatch(k) \/ PatchOk(k))

\* The network delivers or fails, and the browser retries a stream that broke.
FairSpec ==
  /\ Spec
  /\ WF_vars(Connect) /\ WF_vars(Receive) /\ WF_vars(Serve) /\ WF_vars(Respond)
  /\ \A k \in 1..MaxClicks : WF_vars(Answer(k))
-----------------------------------------------------------------------------
\* A list with version v is on its way, or yet to be read.
Coming(v) == fetch # Idle /\ (fetch.at = "served" => fetch.data.version >= v)

(* A button comes back on a list that has the change it made: pressed      *)
(* again it asks for the next status and not for the same one once more    *)
(* (useOrders:94-95).  Unless a fetch failed twice, or the one that the    *)
(* mutation waited for was replaced twice; and then the list is coming.    *)
SettledMeansShown ==
  \A k \in DOMAIN patch : failures < 2 =>
    /\ patch[k].at = "settled" => cache.version >= patch[k].version
    /\ patch[k].at = "cut short" => \/ cache.version >= patch[k].version
                                   \/ Coming(patch[k].version)

(* Whatever the tab hears of is shown in the end, however events, fetches  *)
(* and its own updates interleave, unless a fetch failed twice             *)
(* (useOrders:58-65, providers:15).                                        *)
HeardIsShown ==
  \A v \in 1..MaxVersion + MaxClicks :
    heard >= v ~> cache.version >= v \/ failures >= 2

-----------------------------------------------------------------------------
(* useOrders.ts:53: the events tell us when something has changed, so      *)
(* there is no need to poll.  While the indicator stays "Live" and nothing *)
(* changes any more, the list ends up as the server has it.                *)
LiveShowsTheOrders ==
  \A v \in 0..MaxVersion :
    <>[](connection = "open" /\ version = v) => <>(cache.version = v)
=============================================================================
