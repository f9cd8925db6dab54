-------------------------- MODULE DotnetPublisher --------------------------
(***************************************************************************)
(* OrderEventPublisher of the .NET solution.  Every event is published by  *)
(* a task of its own, in the background.  The tasks share one connection   *)
(* and one channel, in two fields: they are created by whoever finds no    *)
(* open channel, one task at a time behind _gate, and thrown away, without *)
(* the gate, by whoever fails.                                             *)
(*                                                                         *)
(* A connection or a channel goes by the name of the task that created it. *)
(* Each await, and each read of a field that is read twice, is a step.     *)
(***************************************************************************)
EXTENDS Naturals, FiniteSets

CONSTANTS
  Tasks,     \* the events to publish
  None,      \* null
  MaxFaults  \* how often the broker is down; bounds the model

ASSUME PublisherAssumption == None \notin Tasks /\ MaxFaults \in Nat \ {0}

VARIABLES
  connection, channel,  \* the fields
  gate,                 \* the task that holds the semaphore
  pc, got,              \* per task: where it is, the channel it was given
  link, chan,           \* the connections and the channels
  up, exchange, faults, \* the broker, and whether it has the exchange
  delivered, refused,   \* the messages it has routed, and those it had no exchange for
  clean                 \* ghost: the tasks begun when all was well again

fields == <<connection, channel>>
broker == <<up, exchange, faults>>
sent   == <<delivered, refused>>
vars   == <<fields, gate, pc, got, link, chan, broker, sent, clean>>

Holding == {"recheck", "connect", "open", "opened", "declare", "return"}
Places  == Holding \cup {"new", "take", "gate", "publish", "done"}
             \cup {"reset", "disposeChannel", "resetConnection", "disposeConnection", "clear"}

TypeOK ==
  /\ connection \in Tasks \cup {None} /\ channel \in Tasks \cup {None}
  /\ gate \in Tasks \cup {None}
  /\ pc \in [Tasks -> Places]
  /\ got \in [Tasks -> Tasks \cup {None}]
  /\ link \in [Tasks -> {"none", "open", "lost", "disposed"}]
  /\ chan \in [Tasks -> {"none", "open", "refused", "closed"}]
  /\ up \in BOOLEAN /\ exchange \in BOOLEAN /\ faults \in 0..MaxFaults
  /\ delivered \subseteq Tasks /\ refused \subseteq Tasks /\ clean \subseteq Tasks
  /\ \A t \in Tasks : gate = t <=> pc[t] \in Holding

Init ==
  /\ connection = None /\ channel = None /\ gate = None
  /\ pc = [t \in Tasks |-> "new"]
  /\ got = [t \in Tasks |-> None]
  /\ link = [t \in Tasks |-> "none"] /\ chan = [t \in Tasks |-> "none"]
  /\ up \in BOOLEAN /\ exchange \in BOOLEAN
  /\ faults = IF up THEN 0 ELSE 1
  /\ delivered = {} /\ refused = {} /\ clean = {}

Goto(t, place) == pc' = [pc EXCEPT ![t] = place]

\* _channel is { IsOpen: true }.  A client learns of a refusal later.
Usable(c) == c # None /\ chan[c] \in {"open", "refused"} /\ link[c] = "open"

-----------------------------------------------------------------------------
(* EnsureChannelAsync.                                                     *)

\* The broker is up for good, and whatever went wrong has been cleaned up.
Calm ==
  /\ up /\ exchange /\ faults = MaxFaults
  /\ \A t \in Tasks : /\ pc[t] \in {"new", "done"} \/ t \in clean
                      /\ chan[t] # "refused" /\ link[t] # "lost"

FastPath(t) ==
  /\ pc[t] = "new"
  /\ clean' = IF Calm THEN clean \cup {t} ELSE clean
  /\ Goto(t, IF Usable(channel) THEN "take" ELSE "gate")
  /\ UNCHANGED <<fields, gate, got, link, chan, broker, sent>>

\* The field is read again for the result.
Take(t) ==
  /\ pc[t] = "take"
  /\ got' = [got EXCEPT ![t] = channel]
  /\ Goto(t, "publish")
  /\ UNCHANGED <<fields, gate, link, chan, broker, sent, clean>>

EnterGate(t) ==
  /\ pc[t] = "gate" /\ gate = None
  /\ gate' = t
  /\ Goto(t, "recheck")
  /\ UNCHANGED <<fields, got, link, chan, broker, sent, clean>>

\* Faulty: whoever got the gate connects, though another just has.
AfterGateUnchecked == "connect"

AfterGate == IF Usable(channel) THEN "return" ELSE "connect"

Recheck(t) ==
  /\ pc[t] = "recheck"
  /\ Goto(t, AfterGate)
  /\ UNCHANGED <<fields, gate, got, link, chan, broker, sent, clean>>

\* An exception under the gate; the finally block releases it.  In the faulty
\* variant there is none.
ThrowHolding(t) ==
  /\ Goto(t, "reset")
  /\ UNCHANGED <<fields, gate, got, link, chan, broker, sent, clean>>

Throw(t) ==
  /\ gate' = None
  /\ Goto(t, "reset")
  /\ UNCHANGED <<fields, got, link, chan, broker, sent, clean>>

\* Whatever connection the field held is overwritten.
Connect(t) ==
  /\ pc[t] = "connect" /\ up
  /\ link' = [link EXCEPT ![t] = "open"]
  /\ connection' = t
  /\ Goto(t, "open")
  /\ UNCHANGED <<channel, gate, got, chan, broker, sent, clean>>

CanOpen == connection # None /\ link[connection] = "open"

OpenChannel(t) ==
  /\ pc[t] = "open" /\ CanOpen
  /\ chan' = [chan EXCEPT ![t] = "open"]
  /\ Goto(t, "opened")
  /\ UNCHANGED <<fields, gate, got, link, broker, sent, clean>>

\* From here on everybody sees the channel ...
Assign(t) ==
  /\ pc[t] = "opened"
  /\ channel' = t
  /\ Goto(t, "declare")
  /\ UNCHANGED <<connection, gate, got, link, chan, broker, sent, clean>>

CanDeclare == Usable(channel) /\ chan[channel] = "open"

\* ... and only here the exchange is there.
Declare(t) ==
  /\ pc[t] = "declare" /\ CanDeclare
  /\ exchange' = TRUE
  /\ Goto(t, "return")
  /\ UNCHANGED <<fields, gate, got, link, chan, up, faults, sent, clean>>

Fail(t) ==
  /\ \/ pc[t] = "connect" /\ ~up
     \/ pc[t] = "open" /\ ~CanOpen
     \/ pc[t] = "declare" /\ ~CanDeclare
  /\ Throw(t)

\* The field is read once more for the result.
Return(t) ==
  /\ pc[t] = "return"
  /\ got' = [got EXCEPT ![t] = channel]
  /\ gate' = None
  /\ Goto(t, "publish")
  /\ UNCHANGED <<fields, link, chan, broker, sent, clean>>

-----------------------------------------------------------------------------
(* Publish.  Without publisher confirms a message is gone once it is       *)
(* written; a broker without the exchange closes the channel in return.    *)

\* Faulty: cleaning up is not reserved for failures.
AfterPublishReset == "reset"

AfterPublish == "done"

Publish(t) ==
  LET c == got[t] IN
  /\ pc[t] = "publish" /\ Usable(c)
  /\ IF chan[c] = "open" /\ exchange
     THEN delivered' = delivered \cup {t} /\ UNCHANGED <<refused, chan>>
     ELSE refused' = refused \cup {t} /\ chan' = [chan EXCEPT ![c] = "refused"] /\ UNCHANGED delivered
  /\ Goto(t, AfterPublish)
  /\ UNCHANGED <<fields, gate, got, link, broker, clean>>

PublishFails(t) ==
  /\ pc[t] = "publish" /\ ~Usable(got[t])
  /\ Goto(t, "reset")
  /\ UNCHANGED <<fields, gate, got, link, chan, broker, sent, clean>>

-----------------------------------------------------------------------------
(* ResetAsync.  Each field is tested, and read again to dispose of what it *)
(* holds: when another task has cleared it in between, the exception skips *)
(* the rest.  To dispose of what is lost may fail, too.                    *)
Test(t, at, field, nonNull, null) ==
  /\ pc[t] = at
  /\ Goto(t, IF field # None THEN nonNull ELSE null)
  /\ UNCHANGED <<fields, gate, got, link, chan, broker, sent, clean>>

TestChannel(t)    == Test(t, "reset", channel, "disposeChannel", "resetConnection")
TestConnection(t) == Test(t, "resetConnection", connection, "disposeConnection", "clear")

DisposeChannel(t) ==
  /\ pc[t] = "disposeChannel"
  /\ channel # None
  /\ chan' = [chan EXCEPT ![channel] = "closed"]
  /\ Goto(t, "resetConnection")
  /\ UNCHANGED <<fields, gate, got, link, broker, sent, clean>>

DisposeConnection(t) ==
  /\ pc[t] = "disposeConnection"
  /\ connection # None
  /\ link' = [link EXCEPT ![connection] = "disposed"]
  /\ Goto(t, "clear")
  /\ UNCHANGED <<fields, gate, got, chan, broker, sent, clean>>

MayFail(field) == IF field = None THEN TRUE ELSE link[field] = "lost"

DisposeFails(t) ==
  /\ \/ pc[t] = "disposeChannel" /\ MayFail(channel)
     \/ pc[t] = "disposeConnection" /\ MayFail(connection)
  /\ Goto(t, "clear")
  /\ UNCHANGED <<fields, gate, got, link, chan, broker, sent, clean>>

Clear(t) ==
  /\ pc[t] = "clear"
  /\ channel' = None /\ connection' = None
  /\ Goto(t, "done")
  /\ UNCHANGED <<gate, got, link, chan, broker, sent, clean>>

-----------------------------------------------------------------------------
(* RabbitMQ and its client.                                                *)

\* The client hears that its message was refused, and that closes the channel.
HearRefusal(c) ==
  /\ chan[c] = "refused" /\ link[c] = "open"
  /\ chan' = [chan EXCEPT ![c] = "closed"]
  /\ UNCHANGED <<fields, gate, pc, got, link, broker, sent, clean>>

\* A refusal that was under way is lost.
Crash ==
  /\ up /\ faults < MaxFaults
  /\ up' = FALSE /\ faults' = faults + 1
  /\ link' = [c \in Tasks |-> IF link[c] = "open" THEN "lost" ELSE link[c]]
  /\ chan' = [c \in Tasks |-> IF chan[c] = "refused" THEN "open" ELSE chan[c]]
  /\ UNCHANGED <<fields, gate, pc, got, exchange, sent, clean>>

Restart ==
  /\ ~up
  /\ up' = TRUE
  /\ UNCHANGED <<fields, gate, pc, got, link, chan, exchange, faults, sent, clean>>

\* AutomaticRecoveryEnabled: the client restores connections and their channels.
Recover(c) ==
  /\ up /\ link[c] = "lost"
  /\ link' = [link EXCEPT ![c] = "open"]
  /\ UNCHANGED <<fields, gate, pc, got, chan, broker, sent, clean>>

Ensure(t) == FastPath(t) \/ Take(t) \/ EnterGate(t) \/ Recheck(t) \/ Connect(t) \/ OpenChannel(t)
               \/ Assign(t) \/ Declare(t) \/ Fail(t) \/ Return(t)

Reset(t) == TestChannel(t) \/ DisposeChannel(t) \/ TestConnection(t) \/ DisposeConnection(t)
              \/ DisposeFails(t) \/ Clear(t)

Run(t) == Ensure(t) \/ Publish(t) \/ PublishFails(t) \/ Reset(t)

Next == \/ \E t \in Tasks : Run(t) \/ HearRefusal(t) \/ Recover(t)
        \/ Crash \/ Restart

Spec == Init /\ [][Next]_vars

\* A task that has been started runs on; the broker owes nothing.
FairSpec == Spec /\ \A t \in Tasks : WF_vars(Run(t))
-----------------------------------------------------------------------------
(* While the broker stays up, and has the exchange ...                     *)
NoTrouble == faults = 0 /\ refused = {}

(* ... one connection serves every task, however they overlap when the     *)
(* first events are published (OrderEventPublisher.cs:119-125) ...         *)
OneConnectionUnlessTrouble ==
  NoTrouble => Cardinality({c \in Tasks : link[c] # "none"}) <= 1

(* ... and every event gets to the exchange: no task disturbs another's    *)
(* channel (OrderEventPublisher.cs:84-104).                                *)
DeliveredUnlessTrouble ==
  NoTrouble => \A t \in Tasks : pc[t] = "done" => t \in delivered

(* No task waits at the gate for ever (OrderEventPublisher.cs:143-146).    *)
EveryPublishEnds ==
  \A t \in Tasks : pc[t] = "gate" ~> pc[t] = "done"

(* Whatever went wrong before, and whatever it has left in the fields: an  *)
(* event published when the broker is up for good and nobody is cleaning   *)
(* up is delivered (OrderEventPublisher.cs:114, 122, 166-171).             *)
RecoversWhenCalm == \A t \in clean : pc[t] = "done" => t \in delivered

-----------------------------------------------------------------------------
(* OrderEventPublisher.cs:109-110: the exchange is guaranteed to be there  *)
(* before the first message.                                               *)
ExchangeBeforeFirstMessage == refused = {}
=============================================================================
