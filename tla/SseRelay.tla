------------------------------ MODULE SseRelay ------------------------------
(***************************************************************************)
(* The relay of the web application: the route handler of /api/events and  *)
(* subscribeToOrders.  Every browser tab holds a stream; every stream gets *)
(* a channel and an exclusive, auto-deleted queue of its own, on one AMQP  *)
(* connection that all streams share.                                      *)
(*                                                                         *)
(* JavaScript runs one callback at a time, so an action is what happens    *)
(* from one await to the next.  Replies of the broker, the abort of a      *)
(* request and the loss of the connection arrive between them, in any      *)
(* order.  The broker is external; a connection is named after the stream  *)
(* that opened it, since a stream opens at most one.                       *)
(***************************************************************************)
EXTENDS Naturals, Sequences

CONSTANTS
  Streams,     \* the requests for /api/events, one per tab and reconnect
  Absent,      \* no connection
  Faults,      \* what can go wrong at the broker, of {"crash", "channel", "queue"}
  MaxFaults,   \* how often; bounds the model
  MaxEvents    \* how many events the API publishes; bounds the model

ASSUME SseAssumption ==
  /\ Absent \notin Streams
  /\ Faults \subseteq {"crash", "channel", "queue"}
  /\ MaxFaults \in Nat /\ MaxEvents \in Nat

VARIABLES
  up, faults, published,  \* the broker: running, faults so far, events so far
  queue, bound, queued,   \* the broker: each stream's queue, whether it is bound to
                          \* the exchange, and what waits in it
  slot,                   \* globalThis.__kaffebarConnection
  link,                   \* each connection, as the client library sees it
  pc,                     \* where start() of each stream is
  conn, channel,          \* the connection and the channel it uses
  subscription, heartbeat, closed,  \* the variables of start()
  release,                \* how far cleanup() is
  aborted,                \* request.signal
  ready, relayed,         \* what the browser was sent: "ready", and events
  readyAt                 \* ghost: events published when "ready" was sent

broker == <<up, faults, published, queue, bound, queued>>
client == <<pc, conn, channel, subscription, heartbeat, closed, release, aborted>>
sent   == <<ready, relayed, readyAt>>
vars   == <<broker, slot, link, client, sent>>

Calling == {"channel", "exchange", "queue", "bind", "consume"}
Waiting == {"connect"} \cup Calling

TypeOK ==
  /\ up \in BOOLEAN /\ faults \in Nat /\ published \in Nat
  /\ queue \in [Streams -> {"none", "declared", "consuming"}]
  /\ bound \in [Streams -> BOOLEAN]
  /\ queued \in [Streams -> Seq(Nat)]
  /\ slot \in Streams \cup {Absent}
  /\ link \in [Streams -> {"none", "connecting", "open", "lost", "dead"}]
  /\ pc \in [Streams -> Waiting \cup {"new", "serving", "failed"}]
  /\ conn \in [Streams -> Streams \cup {Absent}]
  /\ channel \in [Streams -> {"none", "open", "closed"}]
  /\ subscription \in [Streams -> BOOLEAN]
  /\ heartbeat \in [Streams -> BOOLEAN]
  /\ closed \in [Streams -> BOOLEAN]
  /\ release \in [Streams -> {"none", "cancel", "channel", "done"}]
  /\ aborted \in [Streams -> BOOLEAN]
  /\ ready \in [Streams -> BOOLEAN]
  /\ relayed \in [Streams -> Seq(Nat)]
  /\ readyAt \in [Streams -> Nat]

Init ==
  /\ up \in BOOLEAN /\ faults = 0 /\ published = 0
  /\ queue = [s \in Streams |-> "none"]
  /\ bound = [s \in Streams |-> FALSE]
  /\ queued = [s \in Streams |-> <<>>]
  /\ slot = Absent
  /\ link = [s \in Streams |-> "none"]
  /\ pc = [s \in Streams |-> "new"]
  /\ conn = [s \in Streams |-> Absent]
  /\ channel = [s \in Streams |-> "none"]
  /\ subscription = [s \in Streams |-> FALSE]
  /\ heartbeat = [s \in Streams |-> FALSE]
  /\ closed = [s \in Streams |-> FALSE]
  /\ release = [s \in Streams |-> "none"]
  /\ aborted = [s \in Streams |-> FALSE]
  /\ ready = [s \in Streams |-> FALSE]
  /\ relayed = [s \in Streams |-> <<>>]
  /\ readyAt = [s \in Streams |-> 0]

Alive(s) == conn[s] # Absent /\ link[conn[s]] = "open" /\ channel[s] # "closed"

\* Where a stream finds that a call of its own has been rejected.
Broken(s) == channel[s] = "closed" \/ link[conn[s]] = "dead"

-----------------------------------------------------------------------------
(* cleanup(): closed is set before anything is awaited, and a second call  *)
(* returns at once.  Without a subscription the stream just ends.          *)
Cleanup(S) ==
  LET T == {s \in S : ~closed[s]} IN
  /\ closed' = [s \in Streams |-> closed[s] \/ s \in T]
  /\ heartbeat' = [s \in Streams |-> heartbeat[s] /\ s \notin T]
  /\ release' = [s \in Streams |-> IF s \notin T THEN release[s]
                                   ELSE IF subscription[s] THEN "cancel" ELSE "done"]

\* The callback onClosed, run by the "close" event of the channels of S.
OnClosedMissing(S) == UNCHANGED <<closed, heartbeat, release>>

OnClosed(S) == Cleanup(S)

\* getConnection: `??=` connects only when the slot is empty.
NoConnectionReused == TRUE

NoConnection == slot = Absent

\* GET: start() runs until subscribeToOrders awaits getConnection(), which
\* fills the slot when it is empty.
Open(s) ==
  /\ pc[s] = "new"
  /\ pc' = [pc EXCEPT ![s] = "connect"]
  /\ IF NoConnection
     THEN /\ slot' = s
          /\ link' = [link EXCEPT ![s] = "connecting"]
          /\ conn' = [conn EXCEPT ![s] = s]
     ELSE /\ conn' = [conn EXCEPT ![s] = slot]
          /\ UNCHANGED <<slot, link>>
  /\ UNCHANGED <<broker, channel, subscription, heartbeat, closed, release, aborted, sent>>

\* amqp.connect succeeds, or fails and empties the slot.  The faulty variant
\* leaves a failed connection where it is, in a state nobody handles.
ConnectRefused(c) ==
  /\ link[c] = "connecting"
  /\ link' = [link EXCEPT ![c] = IF up THEN "open" ELSE "refused"]
  /\ slot' = slot
  /\ UNCHANGED <<broker, client, sent>>

Connect(c) ==
  /\ link[c] = "connecting"
  /\ link' = [link EXCEPT ![c] = IF up THEN "open" ELSE "dead"]
  /\ slot' = IF up THEN slot ELSE Absent
  /\ UNCHANGED <<broker, client, sent>>

Connected(s) ==
  /\ pc[s] = "connect"
  /\ link[conn[s]] \in {"open", "lost"}
  /\ pc' = [pc EXCEPT ![s] = "channel"]
  /\ UNCHANGED <<broker, slot, link, conn, channel, subscription, heartbeat, closed,
                 release, aborted, sent>>

\* createChannel, assertExchange, assertQueue and bindQueue, each awaited.
\* In the faulty variant the queue is never bound.
AfterUnbound == [channel |-> "exchange", exchange |-> "queue", queue |-> "consume"]
After == [channel |-> "exchange", exchange |-> "queue", queue |-> "bind", bind |-> "consume"]

Reply(s) ==
  /\ pc[s] \in DOMAIN After
  /\ Alive(s)
  /\ pc' = [pc EXCEPT ![s] = After[@]]
  /\ channel' = [channel EXCEPT ![s] = "open"]
  /\ queue' = [queue EXCEPT ![s] = IF pc[s] = "queue" THEN "declared" ELSE @]
  /\ bound' = [bound EXCEPT ![s] = @ \/ pc[s] = "bind"]
  /\ UNCHANGED <<up, faults, published, queued, slot, link, conn, subscription, heartbeat,
                 closed, release, aborted, sent>>

\* consume is answered, subscribeToOrders returns, and start() runs to its end
\* without looking at closed: only send() does.
Consume(s) ==
  /\ pc[s] = "consume"
  /\ Alive(s)
  /\ pc' = [pc EXCEPT ![s] = "serving"]
  /\ queue' = [queue EXCEPT ![s] = "consuming"]
  /\ subscription' = [subscription EXCEPT ![s] = TRUE]
  /\ heartbeat' = [heartbeat EXCEPT ![s] = TRUE]
  /\ ready' = [ready EXCEPT ![s] = ~closed[s]]
  /\ readyAt' = [readyAt EXCEPT ![s] = published]
  /\ UNCHANGED <<up, faults, published, bound, queued, slot, link, conn, channel, closed,
                 release, aborted, relayed>>

\* The catch of start(): the subscription could not be made.  The faulty
\* variant only logs.
FailSilently(s) ==
  /\ pc[s] \in Waiting
  /\ Broken(s)
  /\ pc' = [pc EXCEPT ![s] = "failed"]
  /\ UNCHANGED <<broker, slot, link, conn, channel, subscription, heartbeat, closed, release,
                 aborted, sent>>

Fail(s) ==
  /\ pc[s] \in Waiting
  /\ Broken(s)
  /\ pc' = [pc EXCEPT ![s] = "failed"]
  /\ Cleanup({s})
  /\ UNCHANGED <<broker, slot, link, conn, channel, subscription, aborted, sent>>

\* The user closes the tab.
Abort(s) ==
  /\ pc[s] # "new" /\ ~aborted[s] /\ release[s] # "done"
  /\ aborted' = [aborted EXCEPT ![s] = TRUE]
  /\ Cleanup({s})
  /\ UNCHANGED <<broker, slot, link, pc, conn, channel, subscription, sent>>

\* The broker deletes the queues of S, and all that waits in them.
Delete(S) ==
  /\ queue' = [s \in Streams |-> IF s \in S THEN "none" ELSE queue[s]]
  /\ bound' = [s \in Streams |-> bound[s] /\ s \notin S]
  /\ queued' = [s \in Streams |-> IF s \in S THEN <<>> ELSE queued[s]]

\* subscription.close(): cancel the consumer, which deletes the queue ...
Cancel(s) ==
  /\ release[s] = "cancel"
  /\ Alive(s)
  /\ release' = [release EXCEPT ![s] = "channel"]
  /\ Delete({s})
  /\ UNCHANGED <<up, faults, published, slot, link, pc, conn, channel, subscription,
                 heartbeat, closed, aborted, sent>>

\* ... and close the channel, whose "close" event finds the stream closed.
CloseChannel(s) ==
  /\ release[s] = "channel"
  /\ Alive(s)
  /\ release' = [release EXCEPT ![s] = "done"]
  /\ channel' = [channel EXCEPT ![s] = "closed"]
  /\ UNCHANGED <<broker, slot, link, pc, conn, subscription, heartbeat, closed, aborted, sent>>

\* Either of the two throws; the exception is swallowed.
CloseFails(s) ==
  /\ release[s] \in {"cancel", "channel"}
  /\ Broken(s)
  /\ release' = [release EXCEPT ![s] = "done"]
  /\ UNCHANGED <<broker, slot, link, pc, conn, channel, subscription, heartbeat, closed,
                 aborted, sent>>

-----------------------------------------------------------------------------
(* The broker.                                                             *)

Publish ==
  /\ up /\ published < MaxEvents
  /\ published' = published + 1
  /\ queued' = [s \in Streams |-> IF bound[s] THEN Append(queued[s], published')
                                  ELSE queued[s]]
  /\ UNCHANGED <<up, faults, queue, bound, slot, link, client, sent>>

\* The consumer's callback: onEvent is sendEvent.
Deliver(s) ==
  /\ queue[s] = "consuming" /\ queued[s] # <<>>
  /\ Alive(s)
  /\ queued' = [queued EXCEPT ![s] = Tail(@)]
  /\ relayed' = [relayed EXCEPT ![s] = IF closed[s] THEN @ ELSE Append(@, Head(queued[s]))]
  /\ UNCHANGED <<up, faults, published, queue, bound, slot, link, client, ready, readyAt>>

Crash ==
  /\ "crash" \in Faults /\ faults < MaxFaults /\ up
  /\ up' = FALSE /\ faults' = faults + 1
  /\ Delete(Streams)
  /\ link' = [s \in Streams |-> IF link[s] = "open" THEN "lost" ELSE link[s]]
  /\ UNCHANGED <<published, slot, client, sent>>

Restart ==
  /\ ~up
  /\ up' = TRUE
  /\ UNCHANGED <<faults, published, queue, bound, queued, slot, link, client, sent>>

\* The listeners on the connection empty the slot; in the faulty variant there
\* are none.
SlotAfterLossKept == slot

SlotAfterLoss == Absent

\* The client notices: every open channel emits "close", and so does the
\* connection, all in one go.
LoseConnection(c) ==
  /\ link[c] = "lost"
  /\ link' = [link EXCEPT ![c] = "dead"]
  /\ slot' = SlotAfterLoss
  /\ LET S == {s \in Streams : conn[s] = c /\ channel[s] = "open"} IN
     /\ channel' = [s \in Streams |-> IF s \in S THEN "closed" ELSE channel[s]]
     /\ OnClosed(S)
  /\ UNCHANGED <<broker, pc, conn, subscription, aborted, sent>>

\* The broker closes one channel; an auto-delete queue that had a consumer goes.
LoseChannel(s) ==
  /\ "channel" \in Faults /\ faults < MaxFaults
  /\ channel[s] = "open" /\ Alive(s)
  /\ faults' = faults + 1
  /\ channel' = [channel EXCEPT ![s] = "closed"]
  /\ Delete({s} \cap {t \in Streams : queue[t] = "consuming"})
  /\ OnClosed({s})
  /\ UNCHANGED <<up, published, slot, link, pc, conn, subscription, aborted, sent>>

\* The queue is deleted.  The consumer is told with a null message, and drops it.
LoseQueue(s) ==
  /\ "queue" \in Faults /\ faults < MaxFaults
  /\ queue[s] = "consuming" /\ Alive(s)
  /\ faults' = faults + 1
  /\ Delete({s})
  /\ UNCHANGED <<up, published, slot, link, client, sent>>

Progress(s) ==
  \/ Connect(s) \/ Connected(s) \/ Reply(s) \/ Consume(s) \/ Fail(s)
  \/ Cancel(s) \/ CloseChannel(s) \/ CloseFails(s) \/ LoseConnection(s)

Next == \/ \E s \in Streams : \/ Open(s) \/ Progress(s) \/ Abort(s)
                              \/ Deliver(s) \/ LoseChannel(s) \/ LoseQueue(s)
        \/ Publish \/ Crash \/ Restart

Spec == Init /\ [][Next]_vars

\* Callbacks run and a broker that is up answers.  Nobody has to open a tab or
\* close it, restart the broker or publish anything.
FairSpec == Spec /\ \A s \in Streams : WF_vars(Progress(s)) /\ WF_vars(Deliver(s))
-----------------------------------------------------------------------------
(* However many tabs there are, at most one connection is open or opening  *)
(* (rabbitmq.ts:35-40).                                                    *)
OneConnection ==
  \A c, d \in Streams : link[c] \in {"connecting", "open", "lost"}
                          /\ link[d] \in {"connecting", "open", "lost"} => c = d

(* The broker has no queue for the stream any more.                        *)
Doomed(s) == queue[s] = "none"

(* A stream that said "ready" and is open misses nothing: all that was     *)
(* published since has been relayed, once and in order, or is on its way;  *)
(* or else its queue is gone (rabbitmq.ts:132-147).                        *)
ReadyMissesNothing ==
  \A s \in Streams : ready[s] /\ ~closed[s] /\ ~Doomed(s) =>
    LET all == relayed[s] \o queued[s]
        n   == published - Len(all)
    IN  /\ Len(all) >= published - readyAt[s]
        /\ \A k \in 1..Len(all) : all[k] = n + k

(* The handler tells the browser instead of hanging: every request gets    *)
(* "ready" or ends (route.ts:86-94).                                       *)
NeverHangs ==
  \A s \in Streams : pc[s] = "connect" ~> ready[s] \/ release[s] = "done"

(* A stream whose channel or connection is gone does not stay open and     *)
(* silent (route.ts:28-30); one whose queue alone is gone does.            *)
DeadSubscriptionClosesStream ==
  \A s \in Streams : ready[s] /\ ~Alive(s) ~> release[s] = "done"

(* Once the broker is up for good and its loss has been noticed, whoever   *)
(* opens a stream gets a live one: no dead connection stays in the slot.   *)
Settled == up /\ faults = MaxFaults /\ \A c \in Streams : link[c] # "lost"

Recovers ==
  \A s \in Streams :
    [](pc[s] = "new" /\ []Settled => [](pc[s] = "connect" => <>(ready[s] \/ aborted[s])))

-----------------------------------------------------------------------------
(* route.ts:26-27: without the cleanup on abort a queue would be left at   *)
(* the broker for every tab somebody had opened.                           *)
AbortReleasesQueue == \A s \in Streams : aborted[s] ~> [](queue[s] = "none")
=============================================================================
