-------------------------- MODULE SseRelay_proofs --------------------------
(***************************************************************************)
(* Proofs about SseRelay, for any number of tabs, of faults of any kind    *)
(* and of events.                                                          *)
(***************************************************************************)
EXTENDS SseRelay, SequenceTheorems, TLAPS

Live   == {"connecting", "open", "lost"}
Joined == Calling \cup {"serving"}

(* A connection that is open or opening is the one in the slot.            *)
SlotHoldsLive == \A c \in Streams : link[c] \in Live => slot = c

(* How far a stream has come, and what it has by then.  Once its connection*)
(* or its channel is gone, nothing comes of it.                            *)
StreamInv(s) ==
  /\ pc[s] = "new" => link[s] = "none"
  /\ pc[s] # "new" => conn[s] \in Streams
  /\ pc[s] \in Joined => link[conn[s]] \in {"open", "lost", "dead"}
  /\ ready[s] \/ subscription[s] => pc[s] = "serving"
  /\ release[s] = "cancel" => subscription[s]
  /\ pc[s] # "serving" => relayed[s] = <<>> /\ queue[s] # "consuming"
  /\ pc[s] \in {"bind", "consume"} /\ Alive(s) => queue[s] # "none"
  /\ pc[s] = "consume" /\ Alive(s) => bound[s]

\* What was relayed to a stream, and what waits for it.
All(s) == relayed[s] \o queued[s]

Gapless(s) == \A k \in 1..Len(All(s)) : All(s)[k] = published - Len(All(s)) + k

(* From the moment it is bound a queue takes every event.                  *)
QueueInv(s) ==
  /\ bound[s] => queue[s] # "none"
  /\ ~bound[s] => queued[s] = <<>>
  /\ bound[s] /\ ~closed[s] => Gapless(s)
  /\ ready[s] /\ ~closed[s] /\ ~Doomed(s) =>
       bound[s] /\ Len(All(s)) >= published - readyAt[s]

Inv == TypeOK /\ SlotHoldsLive /\ \A s \in Streams : StreamInv(s) /\ QueueInv(s)

-----------------------------------------------------------------------------
(* Types.                                                                  *)

(* cleanup() keeps types, closes what it is asked to close and opens       *)
(* nothing again.                                                          *)
LEMMA CleanupFacts ==
  ASSUME TypeOK, NEW S, Cleanup(S)
  PROVE  /\ closed' \in [Streams -> BOOLEAN] /\ heartbeat' \in [Streams -> BOOLEAN]
         /\ release' \in [Streams -> {"none", "cancel", "channel", "done"}]
         /\ \A s \in Streams : closed[s] => closed'[s]
         /\ \A s \in Streams : release'[s] = "cancel" => release[s] = "cancel" \/ subscription[s]
BY DEF TypeOK, Cleanup

(* A queue that is deleted is empty and unbound.                           *)
LEMMA DeleteFacts ==
  ASSUME TypeOK, NEW S, Delete(S)
  PROVE  /\ queue' \in [Streams -> {"none", "declared", "consuming"}]
         /\ bound' \in [Streams -> BOOLEAN] /\ queued' \in [Streams -> Seq(Nat)]
         /\ \A s \in Streams :
              IF s \in S THEN queue'[s] = "none" /\ ~bound'[s] /\ queued'[s] = <<>>
              ELSE UNCHANGED <<queue[s], bound[s], queued[s]>>
<1>1. queue' \in [Streams -> {"none", "declared", "consuming"}]
  BY DEF TypeOK, Delete
<1>2. bound' \in [Streams -> BOOLEAN]
  BY DEF TypeOK, Delete
<1>3. queued' \in [Streams -> Seq(Nat)]
  BY DEF TypeOK, Delete
<1>4. ASSUME NEW s \in Streams
      PROVE  IF s \in S THEN queue'[s] = "none" /\ ~bound'[s] /\ queued'[s] = <<>>
             ELSE UNCHANGED <<queue[s], bound[s], queued[s]>>
  BY DEF TypeOK, Delete
<1> QED
  BY <1>1, <1>2, <1>3, <1>4

(* What a stream does of itself keeps the types ...                        *)
LEMMA StreamType ==
  ASSUME TypeOK, NEW s \in Streams,
         Open(s) \/ Connected(s) \/ Reply(s) \/ Consume(s) \/ Fail(s) \/ Abort(s)
  PROVE  TypeOK'
<1>1. CASE Open(s)
  <2>1. link' \in [Streams -> {"none", "connecting", "open", "lost", "dead"}]
        /\ slot' \in Streams \cup {Absent} /\ conn' \in [Streams -> Streams \cup {Absent}]
    <3>1. CASE NoConnection
      <4>1. slot' = s /\ link' = [link EXCEPT ![s] = "connecting"] /\ conn' = [conn EXCEPT ![s] = s]
        BY <1>1, <3>1 DEF Open
      <4> QED
        BY <4>1 DEF TypeOK
    <3>2. CASE ~NoConnection
      BY <1>1, <3>2 DEF TypeOK, Open
    <3> QED
      BY <3>1, <3>2
  <2>2. pc' \in [Streams -> Waiting \cup {"new", "serving", "failed"}]
    BY <1>1 DEF TypeOK, Open, Waiting
  <2> QED
    BY <1>1, <2>1, <2>2 DEF TypeOK, Open, broker, sent
<1>2. CASE Connected(s)
  BY <1>2 DEF TypeOK, Connected, Waiting, Calling, broker, sent
<1>3. CASE Reply(s)
  <2>1. After[pc[s]] \in Calling
    BY <1>3 DEF Reply, After, Calling
  <2>2. pc' \in [Streams -> Waiting \cup {"new", "serving", "failed"}]
    BY <1>3, <2>1 DEF TypeOK, Reply, Waiting
  <2>3. /\ channel' \in [Streams -> {"none", "open", "closed"}]
        /\ queue' \in [Streams -> {"none", "declared", "consuming"}]
    BY <1>3 DEF TypeOK, Reply
  <2>4. bound' \in [Streams -> BOOLEAN]
    BY <1>3 DEF TypeOK, Reply
  <2> QED
    BY <1>3, <2>2, <2>3, <2>4 DEF TypeOK, Reply, sent
<1>4. CASE Consume(s)
  BY <1>4 DEF TypeOK, Consume
<1>5. CASE Fail(s)
  BY <1>5, CleanupFacts DEF TypeOK, Fail, broker, sent
<1>6. CASE Abort(s)
  BY <1>6, CleanupFacts DEF TypeOK, Abort, broker, sent
<1> QED
  BY <1>1, <1>2, <1>3, <1>4, <1>5, <1>6

(* ... and so does what happens to it.                                     *)
LEMMA EventType ==
  ASSUME TypeOK, NEW s \in Streams,
         \/ Connect(s) \/ Cancel(s) \/ CloseChannel(s) \/ CloseFails(s) \/ LoseConnection(s)
         \/ Deliver(s) \/ LoseChannel(s) \/ LoseQueue(s)
  PROVE  TypeOK'
<1>1. CASE Connect(s)
  BY <1>1 DEF TypeOK, Connect, broker, client, sent
<1>2. CASE Cancel(s)
  <2>1. release' \in [Streams -> {"none", "cancel", "channel", "done"}]
    BY <1>2 DEF TypeOK, Cancel
  <2>2. /\ queue' \in [Streams -> {"none", "declared", "consuming"}]
        /\ bound' \in [Streams -> BOOLEAN] /\ queued' \in [Streams -> Seq(Nat)]
    BY <1>2, DeleteFacts DEF Cancel
  <2> QED
    BY <1>2, <2>1, <2>2 DEF TypeOK, Cancel, sent
<1>3. CASE CloseChannel(s) \/ CloseFails(s)
  <2>1. release' \in [Streams -> {"none", "cancel", "channel", "done"}]
    <3>1. release' = [release EXCEPT ![s] = "done"]
      BY <1>3 DEF CloseChannel, CloseFails
    <3> QED
      BY <3>1 DEF TypeOK
  <2>2. channel' \in [Streams -> {"none", "open", "closed"}]
    BY <1>3 DEF TypeOK, CloseChannel, CloseFails
  <2>3. UNCHANGED <<broker, slot, link, pc, conn, subscription, heartbeat, closed, aborted, sent>>
    BY <1>3 DEF CloseChannel, CloseFails
  <2> QED
    BY <2>1, <2>2, <2>3 DEF TypeOK, broker, sent
<1>4. CASE LoseConnection(s)
  <2>1. /\ link' \in [Streams -> {"none", "connecting", "open", "lost", "dead"}]
        /\ channel' \in [Streams -> {"none", "open", "closed"}] /\ slot' = Absent
    BY <1>4 DEF TypeOK, LoseConnection, SlotAfterLoss
  <2>2. /\ closed' \in [Streams -> BOOLEAN] /\ heartbeat' \in [Streams -> BOOLEAN]
        /\ release' \in [Streams -> {"none", "cancel", "channel", "done"}]
    BY <1>4, CleanupFacts DEF LoseConnection, OnClosed
  <2> QED
    BY <1>4, <2>1, <2>2 DEF TypeOK, LoseConnection, broker, sent
<1>5. CASE Deliver(s)
  <2>1. Head(queued[s]) \in Nat /\ Tail(queued[s]) \in Seq(Nat) /\ relayed[s] \in Seq(Nat)
    BY <1>5, HeadTailProperties DEF TypeOK, Deliver
  <2>2. Append(relayed[s], Head(queued[s])) \in Seq(Nat)
    BY <2>1
  <2>3. queued' \in [Streams -> Seq(Nat)] /\ relayed' \in [Streams -> Seq(Nat)]
    BY <1>5, <2>1, <2>2 DEF TypeOK, Deliver
  <2> QED
    BY <1>5, <2>3 DEF TypeOK, Deliver, client
<1>6. CASE LoseChannel(s)
  <2>1. faults' \in Nat /\ channel' \in [Streams -> {"none", "open", "closed"}]
    BY <1>6 DEF TypeOK, LoseChannel
  <2> QED
    BY <1>6, <2>1, CleanupFacts, DeleteFacts DEF TypeOK, LoseChannel, OnClosed, sent
<1>7. CASE LoseQueue(s)
  BY <1>7, DeleteFacts DEF TypeOK, LoseQueue, client, sent
<1> QED
  BY <1>1, <1>2, <1>3, <1>4, <1>5, <1>6, <1>7

(* So does every step.                                                     *)
LEMMA TypeStep == TypeOK /\ [Next]_vars => TypeOK'
<1> SUFFICES ASSUME TypeOK, [Next]_vars PROVE TypeOK'
  OBVIOUS
<1>1. CASE Publish
  <2>1. published' \in Nat
    BY <1>1 DEF TypeOK, Publish
  <2>2. \A s \in Streams : Append(queued[s], published') \in Seq(Nat)
    BY <2>1 DEF TypeOK
  <2>3. queued' \in [Streams -> Seq(Nat)]
    BY <1>1, <2>2 DEF TypeOK, Publish
  <2> QED
    BY <1>1, <2>1, <2>3 DEF TypeOK, Publish, client, sent
<1>2. CASE Crash
  <2>1. link' \in [Streams -> {"none", "connecting", "open", "lost", "dead"}]
    BY <1>2 DEF TypeOK, Crash
  <2>2. up' = FALSE /\ faults' \in Nat
    BY <1>2 DEF TypeOK, Crash
  <2>3. /\ queue' \in [Streams -> {"none", "declared", "consuming"}]
        /\ bound' \in [Streams -> BOOLEAN] /\ queued' \in [Streams -> Seq(Nat)]
    BY <1>2, DeleteFacts DEF Crash
  <2> QED
    BY <1>2, <2>1, <2>2, <2>3 DEF TypeOK, Crash, client, sent
<1>3. CASE Restart
  BY <1>3 DEF TypeOK, Restart, client, sent
<1>4. CASE UNCHANGED vars
  BY <1>4 DEF TypeOK, vars, broker, client, sent
<1>5. CASE \E s \in Streams : Open(s) \/ Progress(s) \/ Abort(s)
                              \/ Deliver(s) \/ LoseChannel(s) \/ LoseQueue(s)
  BY <1>5, StreamType, EventType, Zenon DEF Progress
<1> QED
  BY <1>1, <1>2, <1>3, <1>4, <1>5 DEF Next

-----------------------------------------------------------------------------
(* The connection.                                                         *)

(* Nobody connects while the slot holds a connection, and the slot is only *)
(* emptied when the connection in it has died.                             *)
LEMMA SlotStep == TypeOK /\ SlotHoldsLive /\ [Next]_vars => SlotHoldsLive'
<1> SUFFICES ASSUME TypeOK, SlotHoldsLive, [Next]_vars PROVE SlotHoldsLive'
  OBVIOUS
<1>1. ASSUME NEW s \in Streams, Open(s) PROVE SlotHoldsLive'
  <2>1. CASE slot = Absent
    <3>1. \A c \in Streams : link[c] \notin Live
      BY <2>1, SseAssumption DEF SlotHoldsLive
    <3> QED
      BY <1>1, <2>1, <3>1 DEF Open, NoConnection, SlotHoldsLive, Live, TypeOK
  <2>2. CASE slot # Absent
    BY <1>1, <2>2 DEF Open, NoConnection, SlotHoldsLive
  <2> QED
    BY <2>1, <2>2
<1>2. ASSUME NEW s \in Streams, Connect(s) PROVE SlotHoldsLive'
  <2>1. slot = s /\ \A c \in Streams : link[c] \in Live => c = s
    BY <1>2 DEF Connect, SlotHoldsLive, Live
  <2> QED
    BY <1>2, <2>1 DEF Connect, SlotHoldsLive, Live, TypeOK
<1>3. ASSUME NEW s \in Streams, LoseConnection(s) PROVE SlotHoldsLive'
  <2>1. \A c \in Streams : link[c] \in Live => c = s
    BY <1>3 DEF LoseConnection, SlotHoldsLive, Live
  <2> QED
    BY <1>3, <2>1 DEF LoseConnection, SlotHoldsLive, Live, TypeOK
<1>4. CASE Crash
  BY <1>4 DEF Crash, SlotHoldsLive, Live, TypeOK
<1>5. CASE UNCHANGED <<slot, link>>
  BY <1>5 DEF SlotHoldsLive
<1>6. ASSUME NEW s \in Streams,
             \/ Connected(s) \/ Reply(s) \/ Consume(s) \/ Fail(s) \/ Cancel(s) \/ CloseChannel(s)
             \/ CloseFails(s) \/ Abort(s) \/ Deliver(s) \/ LoseChannel(s) \/ LoseQueue(s)
      PROVE  UNCHANGED <<slot, link>>
  BY <1>6 DEF Connected, Reply, Consume, Fail, Cancel, CloseChannel, CloseFails, Abort, Deliver,
              LoseChannel, LoseQueue, client
<1>7. Publish \/ Restart \/ UNCHANGED vars => UNCHANGED <<slot, link>>
  BY DEF Publish, Restart, vars
<1> QED
  BY <1>1, <1>2, <1>3, <1>4, <1>5, <1>6, <1>7, Zenon DEF Next, Progress

-----------------------------------------------------------------------------
(* The events.                                                             *)

(* A step that gives a stream nothing, though it may end it.               *)
Steady(s) ==
  /\ published' = published
  /\ pc'[s] = pc[s] /\ conn'[s] = conn[s] /\ subscription'[s] = subscription[s]
  /\ ready'[s] = ready[s] /\ readyAt'[s] = readyAt[s] /\ relayed'[s] = relayed[s]
  /\ pc[s] = "new" => link'[s] = link[s]
  /\ pc[s] \in Joined => /\ link'[conn[s]] \in {"open", "lost", "dead"}
                         /\ link'[conn[s]] = "open" => link[conn[s]] = "open"
  /\ channel[s] = "closed" => channel'[s] = "closed"
  /\ closed[s] => closed'[s]
  /\ release'[s] = "cancel" => subscription[s]
  /\ \/ queue'[s] = queue[s] /\ bound'[s] = bound[s] /\ queued'[s] = queued[s]
     \/ /\ queue'[s] = "none" /\ ~bound'[s] /\ queued'[s] = <<>>
        /\ pc[s] \notin {"bind", "consume"} \/ ~Alive(s)'

(* Such a step leaves the stream without gaps.                             *)
LEMMA SteadyKeeps ==
  ASSUME TypeOK, NEW s \in Streams, StreamInv(s), QueueInv(s), Steady(s)
  PROVE  StreamInv(s)' /\ QueueInv(s)'
<1>1. pc[s] \in Joined /\ Alive(s)' => Alive(s)
  BY DEF Steady, Alive
<1>2. StreamInv(s)'
  <2>1. pc[s] \in {"bind", "consume"} => pc[s] \in Joined
    BY DEF Joined, Calling
  <2>2. queue'[s] \in {queue[s], "none"}
    BY DEF Steady
  <2>3. pc[s] \in {"bind", "consume"} /\ Alive(s)' => queue'[s] # "none"
    BY <1>1, <2>1 DEF StreamInv, Steady
  <2>4. pc[s] = "consume" /\ Alive(s)' => bound'[s]
    BY <1>1, <2>1 DEF StreamInv, Steady
  <2>5. /\ pc'[s] = "new" => link'[s] = "none"
        /\ pc'[s] # "new" => conn'[s] \in Streams
        /\ pc'[s] \in Joined => link'[conn'[s]] \in {"open", "lost", "dead"}
        /\ ready'[s] \/ subscription'[s] => pc'[s] = "serving"
        /\ release'[s] = "cancel" => subscription'[s]
        /\ pc'[s] # "serving" => relayed'[s] = <<>> /\ queue'[s] # "consuming"
    BY <2>2 DEF StreamInv, Steady
  <2> QED
    BY <2>3, <2>4, <2>5 DEF StreamInv, Steady
<1>3. QueueInv(s)'
  <2>1. CASE queue'[s] = queue[s] /\ bound'[s] = bound[s] /\ queued'[s] = queued[s]
    BY <2>1 DEF Steady, QueueInv, Gapless, All, Doomed
  <2>2. CASE queue'[s] = "none" /\ ~bound'[s] /\ queued'[s] = <<>>
    BY <2>2 DEF QueueInv, Doomed
  <2> QED
    BY <2>1, <2>2 DEF Steady
<1> QED
  BY <1>2, <1>3

(* What is about the connection, the channel or the end of streams is      *)
(* steady for all of them.                                                 *)
LEMMA QuietStep ==
  ASSUME Inv, NEW s \in Streams,
         \/ Connect(s) \/ Cancel(s) \/ CloseChannel(s) \/ CloseFails(s) \/ Abort(s)
         \/ LoseConnection(s) \/ LoseChannel(s) \/ LoseQueue(s),
         NEW t \in Streams
  PROVE  Steady(t)
<1>0. TypeOK /\ StreamInv(t) /\ StreamInv(s) /\ QueueInv(s)
  BY DEF Inv
<1>a. release[t] = "cancel" => subscription[t]
  BY <1>0 DEF StreamInv
<1>1. CASE Connect(s)
  <2>1. /\ link[s] = "connecting" /\ \A c \in Streams : c # s => link'[c] = link[c]
        /\ UNCHANGED <<broker, client, sent>>
    BY <1>0, <1>1 DEF Connect, TypeOK
  <2>2. pc[t] = "new" => t # s
    BY <1>0, <2>1 DEF StreamInv
  <2>3. pc[t] \in Joined => conn[t] \in Streams /\ conn[t] # s
    BY <1>0, <2>1 DEF StreamInv, Joined, Calling
  <2> QED
    BY <1>0, <1>a, <2>1, <2>2, <2>3 DEF Steady, StreamInv, broker, client, sent
<1>2. CASE Cancel(s)
  <2>1. pc[s] = "serving"
    BY <1>0, <1>2 DEF Cancel, StreamInv
  <2>2. release'[t] = "cancel" => release[t] = "cancel"
    BY <1>0, <1>2 DEF Cancel, TypeOK
  <2> QED
    BY <1>0, <1>2, <1>a, <2>1, <2>2, DeleteFacts DEF Cancel, Steady, StreamInv, sent
<1>3. CASE CloseChannel(s) \/ CloseFails(s)
  BY <1>0, <1>3, <1>a DEF CloseChannel, CloseFails, Steady, StreamInv, TypeOK, broker, sent
<1>4. CASE Abort(s)
  BY <1>0, <1>4, <1>a, CleanupFacts DEF Abort, Steady, StreamInv, broker, sent
<1>5. CASE LoseConnection(s)
  BY <1>0, <1>5, <1>a, CleanupFacts
     DEF LoseConnection, OnClosed, Steady, StreamInv, TypeOK, broker, sent
<1>6. CASE LoseChannel(s)
  <2>1. channel[t] = "closed" => channel'[t] = "closed"
    BY <1>0, <1>6 DEF LoseChannel, TypeOK
  <2>2. queue[t] = "consuming" => pc[t] = "serving"
    BY <1>0 DEF StreamInv
  <2>3. \/ queue'[t] = queue[t] /\ bound'[t] = bound[t] /\ queued'[t] = queued[t]
        \/ /\ queue'[t] = "none" /\ ~bound'[t] /\ queued'[t] = <<>> /\ pc[t] = "serving"
    BY <1>0, <1>6, <2>2, DeleteFacts DEF LoseChannel
  <2>4. closed[t] => closed'[t]
    BY <1>0, <1>6, CleanupFacts DEF LoseChannel, OnClosed
  <2>5. release'[t] = "cancel" => subscription[t]
    BY <1>0, <1>6, <1>a, CleanupFacts DEF LoseChannel, OnClosed
  <2> QED
    BY <1>0, <1>6, <2>1, <2>3, <2>4, <2>5 DEF LoseChannel, Steady, StreamInv, sent
<1>7. CASE LoseQueue(s)
  <2>1. pc[s] = "serving"
    BY <1>0, <1>7 DEF LoseQueue, StreamInv
  <2> QED
    BY <1>0, <1>7, <1>a, <2>1, DeleteFacts DEF LoseQueue, Steady, StreamInv, client, sent
<1> QED
  BY <1>1, <1>2, <1>3, <1>4, <1>5, <1>6, <1>7

(* So is what happens to the broker.                                       *)
LEMMA BrokerStep ==
  ASSUME Inv, Crash \/ Restart \/ UNCHANGED vars, NEW t \in Streams
  PROVE  Steady(t)
<1>0. TypeOK /\ StreamInv(t)
  BY DEF Inv
<1>1. CASE Crash
  <2>1. queue'[t] = "none" /\ ~bound'[t] /\ queued'[t] = <<>>
    BY <1>0, <1>1, DeleteFacts DEF Crash
  <2>2. \A c \in Streams : link'[c] = IF link[c] = "open" THEN "lost" ELSE link[c]
    BY <1>1 DEF Crash
  <2>3. UNCHANGED <<published, client, sent>>
    BY <1>1 DEF Crash
  <2>4. pc[t] # "new" => ~Alive(t)'
    BY <1>0, <2>2, <2>3 DEF Alive, StreamInv, client
  <2>5. pc[t] \in Joined => link'[conn[t]] \in {"lost", "dead"}
    BY <1>0, <2>2 DEF StreamInv, Joined, Calling
  <2> QED
    BY <1>0, <2>1, <2>2, <2>3, <2>4, <2>5 DEF Steady, StreamInv, client, sent
<1>2. CASE Restart \/ UNCHANGED vars
  BY <1>0, <1>2 DEF Restart, vars, Steady, StreamInv, broker, client, sent
<1> QED
  BY <1>1, <1>2

(* The calls a stream makes are steady for the others ...                  *)
LEMMA OthersStep ==
  ASSUME Inv, NEW s \in Streams,
         Open(s) \/ Connected(s) \/ Reply(s) \/ Consume(s) \/ Fail(s) \/ Deliver(s),
         NEW t \in Streams, t # s
  PROVE  Steady(t)
<1>0. TypeOK /\ StreamInv(t) /\ StreamInv(s)
  BY DEF Inv
<1>a. release[t] = "cancel" => subscription[t]
  BY <1>0 DEF StreamInv
<1>1. CASE Open(s)
  <2>1. link[s] = "none"
    BY <1>0, <1>1 DEF Open, StreamInv
  <2>2. \A c \in Streams : c # s => link'[c] = link[c]
    <3>1. CASE NoConnection
      BY <1>0, <1>1, <3>1 DEF Open, TypeOK
    <3>2. CASE ~NoConnection
      BY <1>1, <3>2 DEF Open
    <3> QED
      BY <3>1, <3>2
  <2>3. pc'[t] = pc[t] /\ conn'[t] = conn[t]
    <3>1. CASE NoConnection
      BY <1>0, <1>1, <3>1 DEF Open, TypeOK
    <3>2. CASE ~NoConnection
      BY <1>0, <1>1, <3>2 DEF Open, TypeOK
    <3> QED
      BY <3>1, <3>2
  <2>4. pc[t] \in Joined => conn[t] \in Streams /\ conn[t] # s
    BY <1>0, <2>1 DEF StreamInv, Joined, Calling
  <2> QED
    BY <1>0, <1>1, <1>a, <2>2, <2>3, <2>4 DEF Open, Steady, StreamInv, broker, sent
<1>2. CASE Connected(s)
  BY <1>0, <1>2, <1>a DEF Connected, Steady, StreamInv, TypeOK, broker, sent
<1>3. CASE Reply(s)
  BY <1>0, <1>3, <1>a DEF Reply, Steady, StreamInv, TypeOK, sent
<1>4. CASE Consume(s)
  BY <1>0, <1>4, <1>a DEF Consume, Steady, StreamInv, TypeOK
<1>5. CASE Fail(s)
  <2>1. pc'[t] = pc[t] /\ UNCHANGED <<broker, link, conn, channel, subscription, sent>>
    BY <1>0, <1>5 DEF Fail, TypeOK
  <2>2. (closed[t] => closed'[t]) /\ (release'[t] = "cancel" => subscription[t])
    BY <1>0, <1>5, <1>a, CleanupFacts DEF Fail
  <2> QED
    BY <1>0, <2>1, <2>2 DEF Steady, StreamInv, broker, sent
<1>6. CASE Deliver(s)
  BY <1>0, <1>6, <1>a DEF Deliver, Steady, StreamInv, TypeOK, client
<1> QED
  BY <1>1, <1>2, <1>3, <1>4, <1>5, <1>6

(* Taking the first of what waits and relaying it changes nothing of all.  *)
LEMMA Shift ==
  ASSUME NEW r \in Seq(Nat), NEW q \in Seq(Nat), q # <<>>
  PROVE  Append(r, Head(q)) \o Tail(q) = r \o q
<1> DEFINE a == Append(r, Head(q))
           b == Tail(q)
<1>1. /\ Head(q) \in Nat /\ b \in Seq(Nat) /\ Len(b) = Len(q) - 1 /\ Head(q) = q[1]
      /\ \A i \in 1..Len(b) : b[i] = q[i + 1]
  BY HeadTailProperties
<1>2. /\ a \in Seq(Nat) /\ Len(a) = Len(r) + 1 /\ a[Len(r) + 1] = q[1]
      /\ \A i \in 1..Len(r) : a[i] = r[i]
  BY <1>1
<1> HIDE DEF a, b
<1>3. Len(r) \in Nat /\ Len(q) \in Nat /\ Len(q) # 0
  BY LenProperties, EmptySeq
<1>4. /\ a \o b \in Seq(Nat) /\ Len(a \o b) = Len(a) + Len(b)
      /\ \A i \in 1..Len(a) + Len(b) : (a \o b)[i] = IF i <= Len(a) THEN a[i] ELSE b[i - Len(a)]
  BY <1>1, <1>2, ConcatProperties
<1>5. /\ r \o q \in Seq(Nat) /\ Len(r \o q) = Len(r) + Len(q)
      /\ \A i \in 1..Len(r) + Len(q) : (r \o q)[i] = IF i <= Len(r) THEN r[i] ELSE q[i - Len(r)]
  BY ConcatProperties
<1>6. Len(a) + Len(b) = Len(r) + Len(q)
  BY <1>1, <1>2, <1>3
<1>7. ASSUME NEW i \in 1..Len(r) + Len(q) PROVE (a \o b)[i] = (r \o q)[i]
  <2>1. CASE i <= Len(r)
    <3>1. (a \o b)[i] = a[i] /\ a[i] = r[i]
      BY <1>2, <1>3, <1>4, <1>6, <2>1
    <3> QED
      BY <1>5, <2>1, <3>1
  <2>2. CASE i = Len(r) + 1
    <3>1. (a \o b)[i] = q[1]
      BY <1>2, <1>3, <1>4, <1>6, <2>2
    <3>2. ~(i <= Len(r)) /\ i - Len(r) = 1
      BY <1>3, <2>2
    <3> QED
      BY <1>5, <3>1, <3>2
  <2>3. CASE i > Len(r) + 1
    <3>1. i - (Len(r) + 1) \in 1..Len(b) /\ i - (Len(r) + 1) + 1 = i - Len(r)
          /\ ~(i <= Len(r)) /\ ~(i <= Len(a))
      BY <1>1, <1>2, <1>3, <2>3
    <3>2. b[i - (Len(r) + 1)] = q[i - Len(r)]
      BY <1>1, <3>1
    <3>3. (a \o b)[i] = b[i - (Len(r) + 1)]
      BY <1>2, <1>4, <1>6, <3>1
    <3> QED
      BY <1>5, <3>1, <3>2, <3>3
  <2>4. i <= Len(r) \/ i = Len(r) + 1 \/ i > Len(r) + 1
    BY <1>3
  <2> QED
    BY <2>1, <2>2, <2>3, <2>4, Zenon
<1>8. Len(a \o b) = Len(r \o q) /\ Len(r \o q) = Len(r) + Len(q)
  BY <1>4, <1>5, <1>6
<1>9. a \o b = r \o q
  BY <1>4, <1>5, <1>7, <1>8, SeqEqual
<1> QED
  BY <1>9 DEF a, b

(* One more event in the queue leaves no gap.                              *)
LEMMA OneMore ==
  ASSUME NEW r \in Seq(Nat), NEW q \in Seq(Nat), NEW p \in Nat,
         \A k \in 1..Len(r \o q) : (r \o q)[k] = p - Len(r \o q) + k
  PROVE  LET all == r \o Append(q, p + 1) IN
         /\ Len(all) = Len(r \o q) + 1
         /\ \A k \in 1..Len(all) : all[k] = p + 1 - Len(all) + k
<1> DEFINE b == Append(q, p + 1)
           all == r \o b
<1>1. /\ b \in Seq(Nat) /\ Len(b) = Len(q) + 1 /\ b[Len(q) + 1] = p + 1
      /\ \A i \in 1..Len(q) : b[i] = q[i]
  OBVIOUS
<1> HIDE DEF b
<1>2. Len(r) \in Nat /\ Len(q) \in Nat
  BY LenProperties
<1>3. /\ r \o q \in Seq(Nat) /\ Len(r \o q) = Len(r) + Len(q)
      /\ \A i \in 1..Len(r) + Len(q) : (r \o q)[i] = IF i <= Len(r) THEN r[i] ELSE q[i - Len(r)]
  BY ConcatProperties
<1>4. /\ all \in Seq(Nat) /\ Len(all) = Len(r) + Len(b)
      /\ \A i \in 1..Len(r) + Len(b) : all[i] = IF i <= Len(r) THEN r[i] ELSE b[i - Len(r)]
  BY <1>1, ConcatProperties
<1> HIDE DEF all
<1>5. Len(all) = Len(r) + Len(q) + 1
  BY <1>1, <1>2, <1>4
<1>6. ASSUME NEW k \in 1..Len(r) + Len(q) + 1 PROVE all[k] = p + 1 - (Len(r) + Len(q) + 1) + k
  <2>1. CASE k \in 1..Len(r) + Len(q)
    <3>1. (r \o q)[k] = p - (Len(r) + Len(q)) + k
      BY <1>3, <2>1
    <3>2. all[k] = (r \o q)[k]
      <4>1. CASE k <= Len(r)
        <5>1. k \in 1..Len(r) + Len(b)
          BY <1>1, <1>2, <2>1
        <5>2. all[k] = r[k]
          BY <1>4, <4>1, <5>1
        <5> QED
          BY <1>3, <2>1, <4>1, <5>2
      <4>2. CASE k > Len(r)
        <5>1. k - Len(r) \in 1..Len(q) /\ ~(k <= Len(r)) /\ k \in 1..Len(r) + Len(b)
          BY <1>1, <1>2, <2>1, <4>2
        <5>2. all[k] = b[k - Len(r)] /\ (r \o q)[k] = q[k - Len(r)]
          BY <1>3, <1>4, <2>1, <5>1
        <5> QED
          BY <1>1, <5>1, <5>2
      <4>3. k <= Len(r) \/ k > Len(r)
        BY <1>2
      <4> QED
        BY <4>1, <4>2, <4>3, Zenon
    <3> QED
      BY <1>2, <3>1, <3>2
  <2>2. CASE k = Len(r) + Len(q) + 1
    <3>1. k - Len(r) = Len(q) + 1 /\ ~(k <= Len(r)) /\ k \in 1..Len(r) + Len(b)
      BY <1>1, <1>2, <2>2
    <3>2. all[k] = p + 1
      BY <1>1, <1>4, <3>1
    <3> QED
      BY <1>2, <2>2, <3>2
  <2>3. k \in 1..Len(r) + Len(q) \/ k = Len(r) + Len(q) + 1
    BY <1>2
  <2> QED
    BY <2>1, <2>2, <2>3, Zenon
<1> QED
  BY <1>3, <1>5, <1>6 DEF all, b

(* ... and leave the stream itself without gaps.                           *)
LEMMA OwnStep ==
  ASSUME Inv, TypeOK', NEW s \in Streams,
         Open(s) \/ Connected(s) \/ Reply(s) \/ Consume(s) \/ Fail(s) \/ Deliver(s)
  PROVE  StreamInv(s)' /\ QueueInv(s)'
<1>0. TypeOK /\ StreamInv(s) /\ QueueInv(s)
  BY DEF Inv
<1>1. CASE Open(s)
  <2>1. conn'[s] \in Streams /\ pc'[s] = "connect" /\ pc[s] = "new"
    <3>1. CASE NoConnection
      BY <1>0, <1>1, <3>1 DEF Open, TypeOK
    <3>2. CASE ~NoConnection
      BY <1>0, <1>1, <3>2 DEF Open, TypeOK, NoConnection
    <3> QED
      BY <3>1, <3>2
  <2>2. StreamInv(s)'
    BY <1>0, <1>1, <2>1 DEF Open, StreamInv, Joined, Calling, broker, sent
  <2>3. QueueInv(s)'
    BY <1>0, <1>1 DEF Open, QueueInv, Gapless, All, Doomed, broker, sent
  <2> QED
    BY <2>2, <2>3
<1>2. CASE Connected(s)
  <2>1. StreamInv(s)'
    BY <1>0, <1>2 DEF Connected, StreamInv, Joined, Calling, TypeOK, broker, sent
  <2>2. QueueInv(s)'
    BY <1>0, <1>2 DEF Connected, QueueInv, Gapless, All, Doomed, broker, sent
  <2> QED
    BY <2>1, <2>2
<1>3. CASE Reply(s)
  <2>1. /\ pc[s] \in {"channel", "exchange", "queue", "bind"} /\ Alive(s) /\ pc'[s] = After[pc[s]]
        /\ queue'[s] = (IF pc[s] = "queue" THEN "declared" ELSE queue[s])
        /\ bound'[s] = (bound[s] \/ pc[s] = "bind")
        /\ UNCHANGED <<published, queued, link, conn, subscription, closed, release, sent>>
    BY <1>0, <1>3 DEF Reply, After, TypeOK
  <2>2. pc'[s] \in {"exchange", "queue", "bind", "consume"} /\ pc[s] \in Joined
        /\ (pc'[s] = "consume" => pc[s] = "bind") /\ (pc'[s] = "bind" => pc[s] = "queue")
    BY <2>1 DEF After, Joined, Calling
  <2>3. StreamInv(s)'
    BY <1>0, <2>1, <2>2 DEF StreamInv, Joined, Calling, sent
  <2>4. pc[s] # "serving" /\ ~ready[s] /\ relayed[s] = <<>>
    BY <1>0, <2>1 DEF StreamInv
  <2>5. bound'[s] => queue'[s] # "none"
    BY <1>0, <2>1 DEF StreamInv, QueueInv
  <2>6. ~bound'[s] => queued'[s] = <<>>
    BY <1>0, <2>1 DEF QueueInv
  <2>7. bound'[s] /\ ~closed'[s] => Gapless(s)'
    <3>1. CASE bound[s]
      BY <1>0, <2>1, <3>1 DEF QueueInv, Gapless, All, sent
    <3>2. CASE ~bound[s]
      <4>1. All(s)' = <<>> \o <<>>
        BY <1>0, <2>1, <2>4, <3>2 DEF QueueInv, All, sent
      <4>2. Len(All(s)') = 0
        BY <4>1
      <4> QED
        BY <4>2 DEF Gapless
    <3> QED
      BY <3>1, <3>2
  <2>8. ~ready'[s]
    BY <2>1, <2>4 DEF sent
  <2> QED
    BY <2>3, <2>5, <2>6, <2>7, <2>8 DEF QueueInv
<1>4. CASE Consume(s)
  <2>1. /\ pc[s] = "consume" /\ Alive(s) /\ pc'[s] = "serving" /\ queue'[s] = "consuming"
        /\ subscription'[s] /\ readyAt'[s] = published
        /\ UNCHANGED <<published, bound, queued, link, conn, closed, release, relayed>>
    BY <1>0, <1>4 DEF Consume, TypeOK
  <2>2. bound[s] /\ pc[s] \in Joined
    BY <1>0, <2>1 DEF StreamInv, Joined, Calling
  <2>3. StreamInv(s)'
    BY <1>0, <2>1, <2>2 DEF StreamInv, Joined
  <2>4. relayed[s] \in Seq(Nat) /\ queued[s] \in Seq(Nat) /\ published \in Nat
    BY <1>0 DEF TypeOK
  <2>5. Len(All(s)) \in Nat
    BY <2>4, ConcatProperties, LenProperties DEF All
  <2>6. All(s)' = All(s) /\ (Gapless(s) => Gapless(s)')
    BY <2>1 DEF All, Gapless
  <2>7. Len(All(s)') >= published' - readyAt'[s]
    BY <2>1, <2>4, <2>5, <2>6
  <2>8. bound'[s] /\ queue'[s] # "none"
    BY <2>1, <2>2
  <2>9. bound'[s] /\ ~closed'[s] => Gapless(s)'
    BY <1>0, <2>1, <2>2, <2>6 DEF QueueInv
  <2> QED
    BY <2>3, <2>7, <2>8, <2>9 DEF QueueInv
<1>5. CASE Fail(s)
  <2>1. /\ pc[s] \in Waiting /\ pc'[s] = "failed"
        /\ UNCHANGED <<broker, link, conn, subscription, sent>>
    BY <1>0, <1>5 DEF Fail, TypeOK
  <2>2. pc[s] # "serving" /\ pc[s] # "new"
    BY <2>1 DEF Waiting, Calling
  <2>3. ~subscription[s] /\ ~ready[s] /\ release'[s] # "cancel"
    BY <1>0, <1>5, <2>2, CleanupFacts DEF Fail, StreamInv
  <2>4. StreamInv(s)'
    BY <1>0, <2>1, <2>2, <2>3 DEF StreamInv, Joined, Calling, broker, sent
  <2>5. closed[s] => closed'[s]
    BY <1>0, <1>5, CleanupFacts DEF Fail
  <2>6. QueueInv(s)'
    BY <1>0, <2>1, <2>3, <2>5 DEF QueueInv, Gapless, All, broker, sent
  <2> QED
    BY <2>4, <2>6
<1>6. CASE Deliver(s)
  <2>1. /\ queue[s] = "consuming" /\ queued[s] # <<>>
        /\ queued'[s] = Tail(queued[s])
        /\ relayed'[s] = (IF closed[s] THEN relayed[s] ELSE Append(relayed[s], Head(queued[s])))
        /\ UNCHANGED <<published, queue, bound, link, client, ready, readyAt>>
    BY <1>0, <1>6 DEF Deliver, TypeOK
  <2>2. pc[s] = "serving" /\ bound[s]
    BY <1>0, <2>1 DEF StreamInv, QueueInv
  <2>3. StreamInv(s)'
    BY <1>0, <2>1, <2>2 DEF StreamInv, client
  <2>4. CASE closed[s]
    BY <2>1, <2>2, <2>3, <2>4 DEF QueueInv, client
  <2>5. CASE ~closed[s]
    <3>1. All(s)' = All(s)
      <4>1. relayed[s] \in Seq(Nat) /\ queued[s] \in Seq(Nat)
        BY <1>0 DEF TypeOK
      <4>2. All(s)' = Append(relayed[s], Head(queued[s])) \o Tail(queued[s])
        BY <2>1, <2>5 DEF All
      <4> QED
        BY <2>1, <4>1, <4>2, Shift, Zenon DEF All
    <3>2. Gapless(s)'
      BY <1>0, <2>1, <2>2, <2>5, <3>1 DEF QueueInv, Gapless
    <3> QED
      BY <1>0, <2>1, <2>2, <2>3, <2>5, <3>1, <3>2 DEF QueueInv, Doomed, client
  <2> QED
    BY <2>4, <2>5
<1> QED
  BY <1>1, <1>2, <1>3, <1>4, <1>5, <1>6

(* An event goes to the end of every queue that is bound.                  *)
LEMMA PublishStep ==
  ASSUME Inv, Publish, NEW t \in Streams
  PROVE  StreamInv(t)' /\ QueueInv(t)'
<1>0. TypeOK /\ StreamInv(t) /\ QueueInv(t)
  BY DEF Inv
<1>1. /\ published \in Nat /\ published' = published + 1
      /\ queued'[t] = (IF bound[t] THEN Append(queued[t], published + 1) ELSE queued[t])
      /\ UNCHANGED <<queue, bound, link, client, sent>>
  BY <1>0 DEF Publish, TypeOK
<1>2. StreamInv(t)'
  BY <1>0, <1>1 DEF StreamInv, Alive, client, sent
<1>3. CASE ~bound[t]
  BY <1>0, <1>1, <1>2, <1>3 DEF QueueInv, Doomed, client, sent
<1>4. CASE bound[t]
  <2>1. relayed[t] \in Seq(Nat) /\ queued[t] \in Seq(Nat) /\ readyAt[t] \in Nat
    BY <1>0 DEF TypeOK
  <2>2. All(t)' = relayed[t] \o Append(queued[t], published + 1)
    BY <1>1, <1>4 DEF All, sent
  <2>3. CASE closed[t]
    BY <1>0, <1>1, <1>2, <1>4, <2>3 DEF QueueInv, client, sent
  <2>4. CASE ~closed[t]
    <3>1. \A k \in 1..Len(relayed[t] \o queued[t]) :
            (relayed[t] \o queued[t])[k] = published - Len(relayed[t] \o queued[t]) + k
      BY <1>0, <1>4, <2>4 DEF QueueInv, Gapless, All
    <3>2. /\ Len(All(t)') = Len(All(t)) + 1
          /\ \A k \in 1..Len(All(t)') : All(t)'[k] = published + 1 - Len(All(t)') + k
      <4> DEFINE more == relayed[t] \o Append(queued[t], published + 1)
      <4>1. /\ Len(more) = Len(relayed[t] \o queued[t]) + 1
            /\ \A k \in 1..Len(more) : more[k] = published + 1 - Len(more) + k
        BY <1>1, <2>1, <3>1, OneMore, Zenon
      <4>2. All(t)' = more /\ All(t) = relayed[t] \o queued[t]
        BY <2>2 DEF All
      <4> HIDE DEF more
      <4> QED
        BY <4>1, <4>2
    <3>3. Gapless(t)'
      BY <1>1, <3>2 DEF Gapless
    <3>4. Len(All(t)) \in Nat
      BY <2>1, ConcatProperties, LenProperties DEF All
    <3>5. ready[t] /\ ~Doomed(t) => Len(All(t)') >= published' - readyAt[t]
      BY <1>0, <1>1, <2>1, <2>4, <3>2, <3>4 DEF QueueInv
    <3> QED
      BY <1>0, <1>1, <1>2, <1>4, <3>3, <3>5 DEF QueueInv, Doomed, client, sent
  <2> QED
    BY <2>3, <2>4
<1> QED
  BY <1>3, <1>4

-----------------------------------------------------------------------------
(* Before the first request nothing is connected, declared or sent.        *)
LEMMA InvInit == Init => Inv
<1> SUFFICES ASSUME Init PROVE Inv
  OBVIOUS
<1>1. TypeOK
  BY DEF Init, TypeOK
<1>2. SlotHoldsLive
  BY DEF Init, SlotHoldsLive, Live
<1>3. \A s \in Streams : StreamInv(s) /\ QueueInv(s)
  BY DEF Init, StreamInv, QueueInv, Joined, Calling
<1> QED
  BY <1>1, <1>2, <1>3 DEF Inv

(* Every step keeps the invariant.                                         *)
LEMMA InvStep == Inv /\ [Next]_vars => Inv'
<1> SUFFICES ASSUME Inv, [Next]_vars PROVE Inv'
  OBVIOUS
<1>1. TypeOK' /\ SlotHoldsLive'
  BY TypeStep, SlotStep DEF Inv
<1>2. ASSUME NEW t \in Streams PROVE StreamInv(t)' /\ QueueInv(t)'
  <2>0. TypeOK /\ StreamInv(t) /\ QueueInv(t)
    BY DEF Inv
  <2>1. CASE Steady(t)
    BY <2>0, <2>1, SteadyKeeps
  <2>2. ASSUME NEW s \in Streams,
               Open(s) \/ Connected(s) \/ Reply(s) \/ Consume(s) \/ Fail(s) \/ Deliver(s)
        PROVE  StreamInv(t)' /\ QueueInv(t)'
    <3>1. CASE s = t
      BY <1>1, <2>2, <3>1, OwnStep
    <3>2. CASE s # t
      BY <2>1, <2>2, <3>2, OthersStep
    <3> QED
      BY <3>1, <3>2
  <2>3. ASSUME NEW s \in Streams,
               \/ Connect(s) \/ Cancel(s) \/ CloseChannel(s) \/ CloseFails(s) \/ Abort(s)
               \/ LoseConnection(s) \/ LoseChannel(s) \/ LoseQueue(s)
        PROVE  Steady(t)
    BY <2>3, QuietStep
  <2>4. Crash \/ Restart \/ UNCHANGED vars => Steady(t)
    BY BrokerStep
  <2>5. CASE Publish
    BY <2>5, PublishStep
  <2> QED
    BY <2>1, <2>2, <2>3, <2>4, <2>5, Zenon DEF Next, Progress
<1> QED
  BY <1>1, <1>2 DEF Inv

(* It holds in every reachable state.                                      *)
LEMMA InvAlways == Spec => []Inv
BY InvInit, InvStep, PTL DEF Spec

(* Every variable keeps its type.                                          *)
THEOREM TypeCorrect == Spec => []TypeOK
<1>1. Inv => TypeOK
  BY DEF Inv
<1> QED
  BY <1>1, InvAlways, PTL

(* However many tabs open streams, and however often connections are lost, *)
(* at most one is open or opening (rabbitmq.ts, getConnection).            *)
THEOREM AtMostOneConnection == Spec => []OneConnection
<1>1. Inv => OneConnection
  BY DEF Inv, SlotHoldsLive, Live, OneConnection
<1> QED
  BY <1>1, InvAlways, PTL

(* Between "ready" and its end a stream relays every event, once and in    *)
(* the order of the broker, unless the broker has deleted its queue        *)
(* (rabbitmq.ts, subscribeToOrders).                                       *)
THEOREM NoEventIsMissed == Spec => []ReadyMissesNothing
<1>1. ASSUME Inv PROVE ReadyMissesNothing
  <2> SUFFICES ASSUME NEW s \in Streams, ready[s], ~closed[s], ~Doomed(s)
               PROVE  /\ Len(All(s)) >= published - readyAt[s]
                      /\ \A k \in 1..Len(All(s)) : All(s)[k] = published - Len(All(s)) + k
    BY DEF ReadyMissesNothing, All
  <2>1. QueueInv(s)
    BY <1>1 DEF Inv
  <2> QED
    BY <2>1 DEF QueueInv, Gapless
<1> QED
  BY <1>1, InvAlways, PTL
=============================================================================
