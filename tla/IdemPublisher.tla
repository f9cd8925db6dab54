--------------------------- MODULE IdemPublisher ---------------------------
(***************************************************************************)
(* Idempotweet: the POST handler and its two ways to the database.  Either *)
(* it inserts the idem itself, or, with ENABLE_RABBITMQ, it puts it on the *)
(* queue idem-events, from which a consumer inserts it, and answers 202.   *)
(*                                                                         *)
(* The channel to the queue is made by the first post.  The handler checks *)
(* the module variable, awaits three times and assigns it, so posts that   *)
(* come close together each make one; it is never cleared when it dies.    *)
(* A channel goes by the name of the post that made it.  An idem is named  *)
(* by its post.                                                            *)
(***************************************************************************)
EXTENDS IdemTable

CONSTANTS
  Posts,     \* the idems that are posted
  None,      \* null
  Start, MaxTime, \* the clock starts and stops here; the latter bounds the model
  MaxFaults  \* how many requests to the database or the broker fail; bounds the model

ASSUME IdemAssumption ==
  /\ None \notin Posts /\ DOMAIN Seed \cap Posts = {}
  /\ Start \in Nat /\ MaxTime \in Nat /\ MaxFaults \in Nat

VARIABLES
  clock,            \* Date.now()
  mode,             \* "queue" when ENABLE_RABBITMQ is "true", otherwise "direct"
  pc, createdAt, answer,  \* per post: where its handler is, its time, its status code
                    \* (500 stands for 503 too; a post that is not valid gets 400, and nothing else happens)
  channel,          \* the variable of lib/rabbitmq.ts
  link,             \* the channels; a "broken" one is dead and nobody has noticed
  declared, queue,  \* the broker: idem-events exists, and its messages
  faults            \* so far

broker == <<channel, link, declared, queue>>
publisher == <<clock, mode, pc, createdAt, answer, broker, faults>>

PublisherTypeOK ==
  /\ stored \in [DOMAIN stored -> Nat] /\ DOMAIN stored \subseteq Posts \cup DOMAIN Seed
  /\ initialized \subseteq {"feed", "post"}
  /\ clock \in Nat /\ mode \in {"direct", "queue"}
  /\ pc \in [Posts -> {"new", "insert", "getChannel", "connect", "create", "assert", "done"}]
  /\ createdAt \in [Posts -> Nat]
  /\ answer \in [Posts -> {None, 201, 202, 500}]
  /\ channel \in Posts \cup {None}
  /\ link \in [Posts -> {"none", "open", "broken", "closed"}]
  /\ declared \in BOOLEAN /\ queue \subseteq Posts
  /\ faults \in Nat

PublisherInit ==
  /\ TableInit /\ clock = Start /\ mode \in {"direct", "queue"}
  /\ pc = [p \in Posts |-> "new"]
  /\ createdAt = [p \in Posts |-> 0]
  /\ answer = [p \in Posts |-> None]
  /\ channel = None /\ link = [p \in Posts |-> "none"]
  /\ declared \in BOOLEAN /\ queue = {}
  /\ faults = 0

Goto(p, place) == pc' = [pc EXCEPT ![p] = place]

Answer(p, code) == Goto(p, "done") /\ answer' = [answer EXCEPT ![p] = code]

\* The createdAt of the idem is that of the request, not that of the insert.
Post(p) ==
  /\ pc[p] = "new"
  /\ createdAt' = [createdAt EXCEPT ![p] = clock]
  /\ Goto(p, IF mode = "queue" THEN "getChannel" ELSE "insert")
  /\ UNCHANGED <<table, clock, mode, answer, broker, faults>>

\* Two posts that are first may both do so, to the same effect.
PreparePost(p) ==
  /\ pc[p] = "insert"
  /\ InitializeDatabase("post")
  /\ UNCHANGED publisher

Insert(p) ==
  /\ pc[p] = "insert" /\ "post" \in initialized
  /\ Store(p, createdAt[p])
  /\ Answer(p, 201)
  /\ UNCHANGED <<initialized, clock, mode, createdAt, broker, faults>>

-----------------------------------------------------------------------------
(* publishIdemCreated and getChannel.                                      *)

\* sendToQueue only writes to a buffer, and the answer does not wait for it.
\* A message for a queue that does not exist is dropped.
Send(p, c) ==
  /\ Answer(p, IF link[c] = "closed" THEN 500 ELSE 202)
  /\ queue' = IF link[c] = "open" /\ declared THEN queue \cup {p} ELSE queue

UseChannel(p) ==
  /\ pc[p] = "getChannel" /\ channel # None
  /\ Send(p, channel)
  /\ UNCHANGED <<table, clock, mode, createdAt, channel, link, declared, faults>>

NeedChannel(p) ==
  /\ pc[p] = "getChannel" /\ channel = None
  /\ Goto(p, "connect")
  /\ UNCHANGED <<table, clock, mode, createdAt, answer, broker, faults>>

Connect(p) ==
  /\ pc[p] = "connect"
  /\ link' = [link EXCEPT ![p] = "open"]
  /\ Goto(p, "create")
  /\ UNCHANGED <<table, clock, mode, createdAt, answer, channel, declared, queue, faults>>

\* Faulty: the queue is left to others.
AssertNothing == declared' = declared

AssertQueue == declared' = TRUE

\* The channel is assigned and assertQueue is written at once: whoever sees the
\* channel writes after it.
CreateChannel(p) ==
  /\ pc[p] = "create" /\ link[p] = "open"
  /\ channel' = p
  /\ AssertQueue
  /\ Goto(p, "assert")
  /\ UNCHANGED <<table, clock, mode, createdAt, answer, link, queue, faults>>

\* getChannel returns the variable, which may hold another's channel by now.
Asserted(p) ==
  /\ pc[p] = "assert" /\ link[p] = "open"
  /\ Send(p, channel)
  /\ UNCHANGED <<table, clock, mode, createdAt, channel, link, declared, faults>>

\* An await that is not served throws.
Throws(p) ==
  /\ pc[p] \in {"create", "assert"} /\ link[p] # "open"
  /\ Answer(p, 500)
  /\ UNCHANGED <<table, clock, mode, createdAt, broker, faults>>

-----------------------------------------------------------------------------
(* The database, the broker and the consumer.                              *)

\* A request to the database or the connection to the broker is refused.
Refuse(p) ==
  /\ pc[p] \in {"insert", "connect"} /\ faults < MaxFaults
  /\ faults' = faults + 1
  /\ Answer(p, 500)
  /\ UNCHANGED <<table, clock, mode, createdAt, broker>>

Break(c) ==
  /\ link[c] = "open" /\ faults < MaxFaults
  /\ faults' = faults + 1
  /\ link' = [link EXCEPT ![c] = "broken"]
  /\ UNCHANGED <<table, clock, mode, pc, createdAt, answer, channel, declared, queue>>

Notice(c) ==
  /\ link[c] = "broken"
  /\ link' = [link EXCEPT ![c] = "closed"]
  /\ UNCHANGED <<table, clock, mode, pc, createdAt, answer, channel, declared, queue, faults>>

\* The consumer is of workshop 2; its migration makes the table if need be.
Consume(p) ==
  /\ p \in queue
  /\ Store(p, createdAt[p])
  /\ queue' = queue \ {p}
  /\ UNCHANGED <<initialized, clock, mode, pc, createdAt, answer, channel, link, declared, faults>>

TimePasses ==
  /\ clock < MaxTime
  /\ clock' = clock + 1
  /\ UNCHANGED <<table, mode, pc, createdAt, answer, broker, faults>>

PublisherNext ==
  \/ \E p \in Posts : \/ Post(p) \/ PreparePost(p) \/ Insert(p) \/ Refuse(p)
                      \/ UseChannel(p) \/ NeedChannel(p) \/ Connect(p) \/ CreateChannel(p)
                      \/ Asserted(p) \/ Throws(p)
                      \/ Break(p) \/ Notice(p) \/ Consume(p)
  \/ TimePasses
-----------------------------------------------------------------------------
(* An idem the form was told of as published gets to the feed's table, as  *)
(* long as nothing breaks: however posts overlap, no message is sent to a  *)
(* queue that is not there yet (lib/rabbitmq.ts:9-18, route.ts:55-58).     *)
AcceptedIdemsArrive ==
  \A p \in Posts : answer[p] \in {201, 202} /\ faults = 0 ~> p \in DOMAIN stored \/ faults > 0
=============================================================================
