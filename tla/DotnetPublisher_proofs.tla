---------------------- MODULE DotnetPublisher_proofs ----------------------
(***************************************************************************)
(* Proofs about DotnetPublisher, for any number of events and of outages.  *)
(***************************************************************************)
EXTENDS DotnetPublisher, FiniteSetTheorems, TLAPS

Resetting == {"reset", "disposeChannel", "resetConnection", "disposeConnection", "clear"}

(* All is well: nobody cleans up, and whoever is about to use the fields   *)
(* finds in them what he needs.                                            *)
Good ==
  /\ up
  /\ \A c \in Tasks : link[c] # "lost" /\ chan[c] # "refused"
  /\ \A t \in Tasks :
       /\ pc[t] \notin Resetting
       /\ pc[t] \in {"take", "return"} => Usable(channel)
       /\ pc[t] = "publish" => Usable(got[t])
       /\ pc[t] \in {"open", "opened", "declare"} => connection = t /\ link[t] = "open"
       /\ pc[t] \in {"opened", "declare"} => chan[t] = "open"
       /\ pc[t] = "declare" => channel = t

(* The connection there is is the one in the field, and it has a channel   *)
(* or is about to get one.                                                 *)
Single ==
  /\ \A c \in Tasks : link[c] \in {"none", "open"}
  /\ \A c \in Tasks : link[c] = "open" =>
       connection = c /\ (Usable(channel) \/ pc[c] \in {"open", "opened"})
  /\ \A t \in Tasks : pc[t] = "connect" => \A c \in Tasks : link[c] = "none"

Delivered(T) == \A t \in T : pc[t] = "done" => t \in delivered

NoTroubleInv == NoTrouble => Good /\ Single /\ Delivered(Tasks)

\* From the first task that began when all was well again.
CalmInv ==
  clean # {} =>
    /\ Good /\ Delivered(clean) /\ exchange /\ faults = MaxFaults
    /\ \A t \in Tasks : pc[t] \in {"new", "done"} \/ t \in clean

Inv == TypeOK /\ NoTroubleInv /\ CalmInv

-----------------------------------------------------------------------------
(* Types, and the gate.                                                    *)

(* A step to another place on the same side of the gate.                   *)
LEMMA SameSide ==
  ASSUME TypeOK, NEW t \in Tasks, NEW place \in Places, Goto(t, place), gate' = gate,
         pc[t] \in Holding <=> place \in Holding
  PROVE  pc' \in [Tasks -> Places] /\ \A u \in Tasks : gate' = u <=> pc'[u] \in Holding
BY DEF TypeOK, Goto

(* One task at a time gets in, ...                                         *)
LEMMA GoesIn ==
  ASSUME TypeOK, NEW t \in Tasks, NEW place \in Places, Goto(t, place), gate = None, gate' = t,
         place \in Holding
  PROVE  pc' \in [Tasks -> Places] /\ \A u \in Tasks : gate' = u <=> pc'[u] \in Holding
BY PublisherAssumption DEF TypeOK, Goto

(* ... and lets the next one in when it gets out.                          *)
LEMMA GoesOut ==
  ASSUME TypeOK, NEW t \in Tasks, NEW place \in Places, Goto(t, place), pc[t] \in Holding,
         gate' = None, place \notin Holding
  PROVE  pc' \in [Tasks -> Places] /\ \A u \in Tasks : gate' = u <=> pc'[u] \in Holding
BY PublisherAssumption DEF TypeOK, Goto

(* The steps of a task, up to the channel it is to use, ...                *)
LEMMA EnsureType ==
  ASSUME TypeOK, NEW t \in Tasks, Ensure(t)
  PROVE  TypeOK'
<1> USE DEF Places, Holding
<1>1. CASE FastPath(t)
  <2>1. PICK place \in {"take", "gate"} : Goto(t, place)
    BY <1>1 DEF FastPath
  <2>2. pc' \in [Tasks -> Places] /\ \A u \in Tasks : gate' = u <=> pc'[u] \in Holding
    BY <1>1, <2>1, SameSide DEF FastPath
  <2>3. clean' \subseteq Tasks
    BY <1>1 DEF FastPath, TypeOK
  <2> QED
    BY <1>1, <2>2, <2>3 DEF FastPath, TypeOK, fields, broker, sent
<1>2. CASE Take(t)
  <2>1. pc' \in [Tasks -> Places] /\ \A u \in Tasks : gate' = u <=> pc'[u] \in Holding
    BY <1>2, SameSide DEF Take
  <2>2. got' \in [Tasks -> Tasks \cup {None}]
    BY <1>2 DEF Take, TypeOK
  <2> QED
    BY <1>2, <2>1, <2>2 DEF Take, TypeOK, fields, broker, sent
<1>3. CASE EnterGate(t)
  <2>1. pc' \in [Tasks -> Places] /\ \A u \in Tasks : gate' = u <=> pc'[u] \in Holding
    BY <1>3, GoesIn DEF EnterGate
  <2> QED
    BY <1>3, <2>1 DEF EnterGate, TypeOK, fields, broker, sent
<1>4. CASE Recheck(t)
  <2>1. PICK place \in {"return", "connect"} : Goto(t, place)
    BY <1>4 DEF Recheck, AfterGate
  <2>2. pc' \in [Tasks -> Places] /\ \A u \in Tasks : gate' = u <=> pc'[u] \in Holding
    BY <1>4, <2>1, SameSide DEF Recheck
  <2> QED
    BY <1>4, <2>2 DEF Recheck, TypeOK, fields, broker, sent
<1>5. CASE Connect(t)
  <2>1. pc' \in [Tasks -> Places] /\ \A u \in Tasks : gate' = u <=> pc'[u] \in Holding
    BY <1>5, SameSide DEF Connect
  <2>2. link' \in [Tasks -> {"none", "open", "lost", "disposed"}]
    BY <1>5 DEF Connect, TypeOK
  <2> QED
    BY <1>5, <2>1, <2>2 DEF Connect, TypeOK, broker, sent
<1>6. CASE OpenChannel(t)
  <2>1. pc' \in [Tasks -> Places] /\ \A u \in Tasks : gate' = u <=> pc'[u] \in Holding
    BY <1>6, SameSide DEF OpenChannel
  <2>2. chan' \in [Tasks -> {"none", "open", "refused", "closed"}]
    BY <1>6 DEF OpenChannel, TypeOK
  <2> QED
    BY <1>6, <2>1, <2>2 DEF OpenChannel, TypeOK, fields, broker, sent
<1>7. CASE Assign(t)
  <2>1. pc' \in [Tasks -> Places] /\ \A u \in Tasks : gate' = u <=> pc'[u] \in Holding
    BY <1>7, SameSide DEF Assign
  <2> QED
    BY <1>7, <2>1 DEF Assign, TypeOK, broker, sent
<1>8. CASE Declare(t)
  <2>1. pc' \in [Tasks -> Places] /\ \A u \in Tasks : gate' = u <=> pc'[u] \in Holding
    BY <1>8, SameSide DEF Declare
  <2> QED
    BY <1>8, <2>1 DEF Declare, TypeOK, fields, sent
<1>9. CASE Fail(t)
  <2>1. pc[t] \in Holding /\ Throw(t)
    BY <1>9 DEF Fail
  <2>2. pc' \in [Tasks -> Places] /\ \A u \in Tasks : gate' = u <=> pc'[u] \in Holding
    BY <2>1, GoesOut DEF Throw
  <2> QED
    BY <2>1, <2>2 DEF Throw, TypeOK, fields, broker, sent
<1>10. CASE Return(t)
  <2>1. pc' \in [Tasks -> Places] /\ \A u \in Tasks : gate' = u <=> pc'[u] \in Holding
    BY <1>10, GoesOut DEF Return
  <2>2. got' \in [Tasks -> Tasks \cup {None}]
    BY <1>10 DEF Return, TypeOK
  <2> QED
    BY <1>10, <2>1, <2>2 DEF Return, TypeOK, fields, broker, sent
<1> QED
  BY <1>1, <1>2, <1>3, <1>4, <1>5, <1>6, <1>7, <1>8, <1>9, <1>10 DEF Ensure

(* ... with it, and with what is left of it keep the types; ...            *)
LEMMA OutsideType ==
  ASSUME TypeOK, NEW t \in Tasks, Publish(t) \/ PublishFails(t) \/ Reset(t)
  PROVE  TypeOK'
<1> USE DEF Places, Holding
<1>1. CASE Publish(t)
  <2>1. pc' \in [Tasks -> Places] /\ \A u \in Tasks : gate' = u <=> pc'[u] \in Holding
    BY <1>1, SameSide DEF Publish, AfterPublish
  <2>2. delivered' \subseteq Tasks /\ refused' \subseteq Tasks
    BY <1>1 DEF Publish, TypeOK
  <2>3. chan' \in [Tasks -> {"none", "open", "refused", "closed"}]
    BY <1>1 DEF Publish, TypeOK
  <2> QED
    BY <1>1, <2>1, <2>2, <2>3 DEF Publish, TypeOK, fields, broker
<1>2. CASE PublishFails(t)
  <2>1. pc' \in [Tasks -> Places] /\ \A u \in Tasks : gate' = u <=> pc'[u] \in Holding
    BY <1>2, SameSide DEF PublishFails
  <2> QED
    BY <1>2, <2>1 DEF PublishFails, TypeOK, fields, broker, sent
<1>3. CASE TestChannel(t) \/ TestConnection(t) \/ DisposeFails(t)
  <2>1. PICK place \in Resetting : Goto(t, place)
    BY <1>3 DEF TestChannel, TestConnection, DisposeFails, Test, Resetting
  <2>2. pc[t] \notin Holding /\ UNCHANGED <<fields, gate, got, link, chan, broker, sent, clean>>
    BY <1>3 DEF TestChannel, TestConnection, DisposeFails, Test
  <2>3. pc' \in [Tasks -> Places] /\ \A u \in Tasks : gate' = u <=> pc'[u] \in Holding
    BY <2>1, <2>2, SameSide DEF Resetting
  <2> QED
    BY <2>2, <2>3 DEF TypeOK, fields, broker, sent
<1>4. CASE DisposeChannel(t)
  <2>1. pc' \in [Tasks -> Places] /\ \A u \in Tasks : gate' = u <=> pc'[u] \in Holding
    BY <1>4, SameSide DEF DisposeChannel
  <2>2. chan' \in [Tasks -> {"none", "open", "refused", "closed"}]
    BY <1>4 DEF DisposeChannel, TypeOK
  <2> QED
    BY <1>4, <2>1, <2>2 DEF DisposeChannel, TypeOK, fields, broker, sent
<1>5. CASE DisposeConnection(t)
  <2>1. pc' \in [Tasks -> Places] /\ \A u \in Tasks : gate' = u <=> pc'[u] \in Holding
    BY <1>5, SameSide DEF DisposeConnection
  <2>2. link' \in [Tasks -> {"none", "open", "lost", "disposed"}]
    BY <1>5 DEF DisposeConnection, TypeOK
  <2> QED
    BY <1>5, <2>1, <2>2 DEF DisposeConnection, TypeOK, fields, broker, sent
<1>6. CASE Clear(t)
  <2>1. pc' \in [Tasks -> Places] /\ \A u \in Tasks : gate' = u <=> pc'[u] \in Holding
    BY <1>6, SameSide DEF Clear
  <2> QED
    BY <1>6, <2>1 DEF Clear, TypeOK, broker, sent
<1> QED
  BY <1>1, <1>2, <1>3, <1>4, <1>5, <1>6 DEF Reset

(* ... so does whatever happens to the broker.                             *)
LEMMA TypeStep == TypeOK /\ [Next]_vars => TypeOK'
<1> SUFFICES ASSUME TypeOK, [Next]_vars PROVE TypeOK'
  OBVIOUS
<1>1. ASSUME NEW t \in Tasks, Run(t) PROVE TypeOK'
  BY <1>1, EnsureType, OutsideType DEF Run
<1>2. ASSUME NEW c \in Tasks, HearRefusal(c) PROVE TypeOK'
  <2>1. chan' \in [Tasks -> {"none", "open", "refused", "closed"}]
    BY <1>2 DEF HearRefusal, TypeOK
  <2> QED
    BY <1>2, <2>1 DEF HearRefusal, TypeOK, fields, broker, sent
<1>3. ASSUME NEW c \in Tasks, Recover(c) PROVE TypeOK'
  <2>1. link' \in [Tasks -> {"none", "open", "lost", "disposed"}]
    BY <1>3 DEF Recover, TypeOK
  <2> QED
    BY <1>3, <2>1 DEF Recover, TypeOK, fields, broker, sent
<1>4. CASE Crash
  <2>1. link' \in [Tasks -> {"none", "open", "lost", "disposed"}]
    BY <1>4 DEF Crash, TypeOK
  <2>2. chan' \in [Tasks -> {"none", "open", "refused", "closed"}]
    BY <1>4 DEF Crash, TypeOK
  <2>3. up' = FALSE /\ faults' \in 0..MaxFaults
    BY <1>4, PublisherAssumption DEF Crash, TypeOK
  <2> QED
    BY <1>4, <2>1, <2>2, <2>3 DEF Crash, TypeOK, fields, sent
<1>5. CASE Restart
  BY <1>5 DEF Restart, TypeOK, fields, sent
<1>6. CASE UNCHANGED vars
  BY <1>6 DEF vars, TypeOK, fields, broker, sent
<1> QED
  BY <1>1, <1>2, <1>3, <1>4, <1>5, <1>6 DEF Next

-----------------------------------------------------------------------------
(* While all is well.                                                      *)

(* What is routed is acknowledged, in the state where all is well.         *)
LEMMA Routed ==
  ASSUME TypeOK, Good, NEW t \in Tasks, Publish(t), exchange \/ refused' = {}
  PROVE  delivered' = delivered \cup {t} /\ UNCHANGED <<refused, chan>>
<1>1. chan[got[t]] = "open"
  BY PublisherAssumption DEF Publish, Usable, Good, TypeOK
<1>2. exchange
  BY DEF Publish
<1> QED
  BY <1>1, <1>2 DEF Publish

(* A step of one task that leaves connections, channels and fields alone.  *)
LEMMA LeavesAlone ==
  ASSUME TypeOK, Good, NEW t \in Tasks, NEW place \in Places, Goto(t, place),
         up' = up, link' = link, chan' = chan, fields' = fields,
         place \notin Resetting,
         place \in {"take", "return"} => Usable(channel),
         place = "publish" => Usable(got'[t]),
         place \in {"open", "opened"} => FALSE,
         place = "declare" => FALSE,
         \A u \in Tasks \ {t} : got'[u] = got[u]
  PROVE  Good'
<1>1. \A c : Usable(c)' <=> Usable(c)
  BY DEF Usable
<1>2. pc'[t] = place /\ \A u \in Tasks \ {t} : pc'[u] = pc[u]
  BY DEF Goto, TypeOK
<1>3. channel' = channel /\ connection' = connection
  BY DEF fields
<1>4. Usable(channel)' <=> Usable(channel)
  BY <1>3 DEF Usable
<1>5. \A u \in Tasks : Usable(got[u])' <=> Usable(got'[u])
  BY DEF Usable
<1>6. \A u \in Tasks \ {t} : Usable(got'[u]) <=> Usable(got[u])
  OBVIOUS
<1> QED
  BY <1>2, <1>3, <1>4, <1>5, <1>6 DEF Good

(* All stays well when a task looks for a channel, ...                     *)
LEMMA EnsureKeepsGood ==
  ASSUME TypeOK, Good, NEW t \in Tasks, Ensure(t)
  PROVE  Good'
<1> USE DEF Places, Resetting, Holding
<1>1. CASE FastPath(t)
  <2>1. PICK place \in {"take", "gate"} : Goto(t, place) /\ (place = "take" => Usable(channel))
    BY <1>1 DEF FastPath
  <2> QED
    BY <1>1, <2>1, LeavesAlone DEF FastPath, broker
<1>2. CASE Take(t)
  <2>1. got'[t] = channel /\ \A u \in Tasks \ {t} : got'[u] = got[u]
    BY <1>2 DEF Take, TypeOK
  <2>2. Usable(got'[t])
    BY <1>2, <2>1 DEF Take, Good
  <2> QED
    BY <1>2, <2>1, <2>2, LeavesAlone DEF Take, broker
<1>3. CASE EnterGate(t)
  BY <1>3, LeavesAlone DEF EnterGate, broker
<1>4. CASE Recheck(t)
  <2>1. PICK place \in {"return", "connect"} : Goto(t, place) /\ (place = "return" => Usable(channel))
    BY <1>4 DEF Recheck, AfterGate
  <2> QED
    BY <1>4, <2>1, LeavesAlone DEF Recheck, broker
<1>8. CASE Declare(t)
  <2>1. Usable(channel)
    BY <1>8 DEF Declare, CanDeclare
  <2> QED
    BY <1>8, <2>1, LeavesAlone DEF Declare
<1>10. CASE Return(t)
  <2>1. got'[t] = channel /\ \A u \in Tasks \ {t} : got'[u] = got[u]
    BY <1>10 DEF Return, TypeOK
  <2>2. Usable(got'[t])
    BY <1>10, <2>1 DEF Return, Good
  <2> QED
    BY <1>10, <2>1, <2>2, LeavesAlone DEF Return, broker
<1>9. ~Fail(t)
  BY PublisherAssumption DEF Fail, Good, CanOpen, CanDeclare, Usable
<1>11. CASE Connect(t)
  <2>1. \A u \in Tasks \ {t} : pc[u] \notin Holding
    BY <1>11 DEF Connect, TypeOK, Holding
  <2>2. pc'[t] = "open" /\ \A u \in Tasks \ {t} : pc'[u] = pc[u]
    BY <1>11 DEF Connect, TypeOK, Goto
  <2>3. link'[t] = "open" /\ \A c \in Tasks \ {t} : link'[c] = link[c]
    BY <1>11 DEF Connect, TypeOK
  <2>4. connection' = t /\ channel' = channel /\ chan' = chan /\ got' = got /\ up' = up
    BY <1>11 DEF Connect, broker
  <2>5. Usable(channel) => Usable(channel)'
    BY <2>3, <2>4 DEF Usable, TypeOK
  <2>6. \A u \in Tasks : Usable(got[u]) => Usable(got[u])'
    BY <2>3, <2>4 DEF Usable, TypeOK
  <2> QED
    BY <2>1, <2>2, <2>3, <2>4, <2>5, <2>6 DEF Good, Holding
<1>12. CASE OpenChannel(t)
  <2>2. pc'[t] = "opened" /\ \A u \in Tasks \ {t} : pc'[u] = pc[u]
    BY <1>12 DEF OpenChannel, TypeOK, Goto
  <2>3. chan'[t] = "open" /\ \A c \in Tasks \ {t} : chan'[c] = chan[c]
    BY <1>12 DEF OpenChannel, TypeOK
  <2>4. connection' = connection /\ channel' = channel /\ link' = link /\ got' = got /\ up' = up
    BY <1>12 DEF OpenChannel, broker, fields
  <2>5. Usable(channel) => Usable(channel)'
    BY <2>3, <2>4 DEF Usable, TypeOK
  <2>6. \A u \in Tasks : Usable(got[u]) => Usable(got[u])'
    BY <2>3, <2>4 DEF Usable, TypeOK
  <2>7. pc[t] = "open"
    BY <1>12 DEF OpenChannel
  <2> QED
    BY <2>2, <2>3, <2>4, <2>5, <2>6, <2>7 DEF Good
<1>13. CASE Assign(t)
  <2>1. \A u \in Tasks \ {t} : pc[u] \notin Holding
    BY <1>13 DEF Assign, TypeOK, Holding
  <2>2. pc'[t] = "declare" /\ \A u \in Tasks \ {t} : pc'[u] = pc[u]
    BY <1>13 DEF Assign, TypeOK, Goto
  <2>4. connection' = connection /\ channel' = t /\ link' = link /\ chan' = chan /\ got' = got /\ up' = up
    BY <1>13 DEF Assign, broker
  <2>5. pc[t] = "opened"
    BY <1>13 DEF Assign
  <2>6. \A u \in Tasks : Usable(got[u]) <=> Usable(got[u])'
    BY <2>4 DEF Usable
  <2>7. Usable(channel)'
    BY <2>4, <2>5, PublisherAssumption DEF Usable, Good
  <2> QED
    BY <2>1, <2>2, <2>4, <2>5, <2>6, <2>7 DEF Good, Holding
<1> QED
  BY <1>1, <1>2, <1>3, <1>4, <1>8, <1>9, <1>10, <1>11, <1>12, <1>13 DEF Ensure

(* ... when it publishes through the one it was given, ...                 *)
LEMMA PublishKeepsGood ==
  ASSUME TypeOK, Good, NEW t \in Tasks, Publish(t), exchange \/ refused' = {}
  PROVE  Good'
BY Routed, LeavesAlone DEF Publish, AfterPublish, Places, Resetting, Holding, broker

(* ... and there is nothing else to do: nobody fails, nobody cleans up.    *)
LEMMA NothingElse ==
  ASSUME TypeOK, Good, Next, up'
  PROVE  \E t \in Tasks : Ensure(t) \/ Publish(t)
<1>1. ASSUME NEW t \in Tasks PROVE ~PublishFails(t) /\ ~Reset(t)
  BY DEF PublishFails, Reset, TestChannel, TestConnection, Test, DisposeChannel, DisposeConnection,
         DisposeFails, Clear, Good, Resetting
<1>2. ASSUME NEW c \in Tasks PROVE ~HearRefusal(c) /\ ~Recover(c)
  BY DEF HearRefusal, Recover, Good
<1>3. ~Crash /\ ~Restart
  BY DEF Crash, Restart, Good
<1> QED
  BY <1>1, <1>2, <1>3 DEF Next, Run

-----------------------------------------------------------------------------
(* One connection.                                                         *)

(* While all is well nobody connects when there is a connection.           *)
LEMMA EnsureKeepsSingle ==
  ASSUME TypeOK, Good, Single, NEW t \in Tasks, Ensure(t)
  PROVE  Single'
<1>1. ASSUME link' = link, chan' = chan, fields' = fields, NEW place \in Places, Goto(t, place),
             pc[t] \notin {"open", "opened"}, place # "connect"
      PROVE  Single'
  <2>1. pc'[t] = place /\ \A u \in Tasks \ {t} : pc'[u] = pc[u]
    BY <1>1 DEF Goto, TypeOK
  <2>2. (Usable(channel)' <=> Usable(channel)) /\ connection' = connection
    BY <1>1 DEF Usable, fields
  <2> QED
    BY <1>1, <2>1, <2>2 DEF Single
<1>2. CASE FastPath(t) \/ Take(t) \/ EnterGate(t) \/ Declare(t) \/ Return(t)
  <2>1. PICK place \in {"take", "gate", "publish", "recheck", "return"} : Goto(t, place)
    BY <1>2 DEF FastPath, Take, EnterGate, Declare, Return
  <2>2. pc[t] \notin {"open", "opened"} /\ link' = link /\ chan' = chan /\ fields' = fields
    BY <1>2 DEF FastPath, Take, EnterGate, Declare, Return
  <2> QED
    BY <1>1, <2>1, <2>2 DEF Places, Holding
<1>3. ~Fail(t)
  BY PublisherAssumption DEF Fail, Good, CanOpen, CanDeclare, Usable
<1>4. CASE Recheck(t)
  <2>1. CASE Usable(channel)
    BY <1>1, <1>4, <2>1 DEF Recheck, AfterGate, Places, Holding
  <2>2. CASE ~Usable(channel)
    <3>1. \A c \in Tasks : link[c] = "none"
      BY <1>4, <2>2 DEF Recheck, Single, TypeOK, Holding
    <3>2. link' = link
      BY <1>4 DEF Recheck
    <3> QED
      BY <3>1, <3>2 DEF Single
  <2> QED
    BY <2>1, <2>2
<1>5. CASE Connect(t)
  <2>1. \A u \in Tasks \ {t} : pc[u] \notin Holding
    BY <1>5 DEF Connect, TypeOK, Holding
  <2>2. pc'[t] = "open" /\ \A u \in Tasks \ {t} : pc'[u] = pc[u]
    BY <1>5 DEF Connect, TypeOK, Goto
  <2>3. link'[t] = "open" /\ \A c \in Tasks \ {t} : link'[c] = "none"
    BY <1>5 DEF Connect, TypeOK, Single
  <2>4. connection' = t
    BY <1>5 DEF Connect
  <2> QED
    BY <2>1, <2>2, <2>3, <2>4 DEF Single, Holding
<1>6. CASE OpenChannel(t)
  <2>1. pc'[t] = "opened" /\ \A u \in Tasks \ {t} : pc'[u] = pc[u]
    BY <1>6 DEF OpenChannel, TypeOK, Goto
  <2>2. connection' = connection /\ link' = link
    BY <1>6 DEF OpenChannel, fields
  <2>3. Usable(channel) => Usable(channel)'
    BY <1>6 DEF OpenChannel, Usable, TypeOK, fields
  <2> QED
    BY <2>1, <2>2, <2>3 DEF Single
<1>7. CASE Assign(t)
  <2>1. pc[t] = "opened" /\ pc'[t] = "declare" /\ \A u \in Tasks \ {t} : pc'[u] = pc[u]
    BY <1>7 DEF Assign, TypeOK, Goto
  <2>2. connection' = connection /\ channel' = t /\ link' = link /\ chan' = chan
    BY <1>7 DEF Assign
  <2>3. Usable(channel)'
    BY <2>1, <2>2, PublisherAssumption DEF Usable, Good
  <2> QED
    BY <2>1, <2>2, <2>3 DEF Single
<1> QED
  BY <1>2, <1>3, <1>4, <1>5, <1>6, <1>7 DEF Ensure

(* To publish touches neither.                                             *)
LEMMA PublishKeepsSingle ==
  ASSUME TypeOK, Good, Single, NEW t \in Tasks, Publish(t), exchange \/ refused' = {}
  PROVE  Single'
<1>1. pc[t] = "publish" /\ pc'[t] = "done" /\ \A u \in Tasks \ {t} : pc'[u] = pc[u]
  BY DEF Publish, AfterPublish, Goto, TypeOK
<1>2. connection' = connection /\ channel' = channel /\ link' = link /\ chan' = chan
  BY Routed DEF Publish, fields
<1>3. Usable(channel)' <=> Usable(channel)
  BY <1>2 DEF Usable
<1> QED
  BY <1>1, <1>2, <1>3 DEF Single

-----------------------------------------------------------------------------
(* Nothing is lost.                                                        *)

(* Who looks for a channel is not done then, and nobody else is concerned. *)
LEMMA EnsureEndsNothing ==
  ASSUME TypeOK, NEW t \in Tasks, Ensure(t)
  PROVE  /\ pc'[t] # "done" /\ pc[t] # "done" /\ delivered' = delivered
         /\ \A u \in Tasks \ {t} : pc'[u] = pc[u]
<1>1. PICK place \in Places \ {"new", "done"} : Goto(t, place)
  BY DEF Ensure, FastPath, Take, EnterGate, Recheck, AfterGate, Connect, OpenChannel, Assign, Declare, Fail,
         Throw, Return, Places, Holding
<1>2. delivered' = delivered
  BY DEF Ensure, FastPath, Take, EnterGate, Recheck, Connect, OpenChannel, Assign, Declare, Fail,
         Throw, Return, sent
<1>3. pc[t] # "done"
  BY DEF Ensure, FastPath, Take, EnterGate, Recheck, Connect, OpenChannel, Assign, Declare, Fail, Return
<1> QED
  BY <1>1, <1>2, <1>3 DEF Goto, TypeOK

(* Who publishes has delivered when he is done.                            *)
LEMMA PublishDelivers ==
  ASSUME TypeOK, Good, NEW t \in Tasks, Publish(t), exchange \/ refused' = {}
  PROVE  /\ delivered' = delivered \cup {t} /\ clean' = clean
         /\ \A u \in Tasks \ {t} : pc'[u] = pc[u]
BY Routed DEF Publish, Goto, TypeOK

(* Only an outage takes the broker down.                                   *)
LEMMA UpUntilCrash ==
  ASSUME [Next]_vars, up, ~Crash
  PROVE  up'
BY DEF Next, Run, Ensure, FastPath, Take, EnterGate, Recheck, Connect, OpenChannel, Assign, Declare, Fail,
       Throw, Return, Publish, PublishFails, Reset, TestChannel, TestConnection, Test, DisposeChannel,
       DisposeConnection, DisposeFails, Clear, HearRefusal, Recover, Restart, vars, broker

(* Trouble stays trouble.                                                  *)
LEMMA TroubleStays ==
  ASSUME TypeOK, [Next]_vars, NoTrouble'
  PROVE  NoTrouble /\ ~Crash
<1>1. refused \subseteq refused'
  BY DEF Next, Run, Ensure, FastPath, Take, EnterGate, Recheck, Connect, OpenChannel, Assign, Declare, Fail,
         Throw, Return, Publish, PublishFails, Reset, TestChannel, TestConnection, Test, DisposeChannel,
         DisposeConnection, DisposeFails, Clear, HearRefusal, Recover, Crash, Restart, vars, sent
<1>2. faults' = faults \/ Crash
  BY DEF Next, Run, Ensure, FastPath, Take, EnterGate, Recheck, Connect, OpenChannel, Assign, Declare, Fail,
         Throw, Return, Publish, PublishFails, Reset, TestChannel, TestConnection, Test, DisposeChannel,
         DisposeConnection, DisposeFails, Clear, HearRefusal, Recover, Restart, vars, broker
<1>3. ~Crash
  BY PublisherAssumption DEF Crash, NoTrouble, TypeOK
<1> QED
  BY <1>1, <1>2, <1>3 DEF NoTrouble

-----------------------------------------------------------------------------
(* The invariant.                                                          *)

(* At the start nobody has begun, and nothing is there.                    *)
LEMMA InitInv == Init => Inv
<1> SUFFICES ASSUME Init PROVE Inv
  OBVIOUS
<1>1. TypeOK
  BY PublisherAssumption DEF Init, TypeOK, Places, Holding
<1>2. NoTrouble => up
  BY DEF Init, NoTrouble
<1>3. up => Good /\ Single
  BY DEF Init, Good, Single, Resetting
<1>4. Delivered(Tasks) /\ clean = {}
  BY DEF Init, Delivered
<1> QED
  BY <1>1, <1>2, <1>3, <1>4 DEF Inv, NoTroubleInv, CalmInv

(* As long as there was no trouble.                                        *)
LEMMA NoTroubleStep == Inv /\ [Next]_vars => NoTroubleInv'
<1> SUFFICES ASSUME Inv, [Next]_vars, NoTrouble'
             PROVE  (Good /\ Single /\ Delivered(Tasks))'
  BY DEF NoTroubleInv
<1>1. NoTrouble
  BY TroubleStays DEF Inv
<1>2. TypeOK /\ Good /\ Single /\ Delivered(Tasks)
  BY <1>1 DEF Inv, NoTroubleInv
<1>3. refused' = {}
  BY DEF NoTrouble
<1>4. CASE UNCHANGED vars
  BY <1>2, <1>4 DEF vars, fields, broker, sent, Good, Single, Delivered, Usable
<1>5. CASE Next
  <2>1. up'
    BY <1>1, <1>2, <1>5, TroubleStays, UpUntilCrash DEF Good
  <2>2. PICK t \in Tasks : Ensure(t) \/ Publish(t)
    BY <1>2, <1>5, <2>1, NothingElse
  <2>3. CASE Ensure(t)
    <3>1. Good' /\ Single'
      BY <1>2, <2>3, EnsureKeepsGood, EnsureKeepsSingle
    <3>2. Delivered(Tasks)'
      BY <1>2, <2>3, EnsureEndsNothing DEF Delivered
    <3> QED
      BY <3>1, <3>2
  <2>4. CASE Publish(t)
    <3>1. Good' /\ Single'
      BY <1>2, <1>3, <2>4, PublishKeepsGood, PublishKeepsSingle
    <3>2. Delivered(Tasks)'
      BY <1>2, <1>3, <2>4, PublishDelivers DEF Delivered
    <3> QED
      BY <3>1, <3>2
  <2> QED
    BY <2>2, <2>3, <2>4
<1> QED
  BY <1>4, <1>5

(* From the first task that begins when all is well again.                 *)
LEMMA CalmBegins ==
  ASSUME Inv, Next, clean = {}, clean' # {}
  PROVE  CalmInv'
<1>1. TypeOK
  BY DEF Inv
<1>2. PICK t \in Tasks : FastPath(t) /\ Calm /\ clean' = {t}
  BY DEF Next, Run, Ensure, FastPath, Take, EnterGate, Recheck, Connect, OpenChannel, Assign, Declare, Fail,
         Throw, Return, Publish, PublishFails, Reset, TestChannel, TestConnection, Test, DisposeChannel,
         DisposeConnection, DisposeFails, Clear, HearRefusal, Recover, Crash, Restart
<1>3. Good
  BY <1>2 DEF Calm, Good, Resetting
<1>4. Ensure(t)
  BY <1>2 DEF Ensure
<1>5. Good'
  BY <1>1, <1>3, <1>4, EnsureKeepsGood
<1>6. Delivered(clean)'
  BY <1>1, <1>2, <1>4, EnsureEndsNothing DEF Delivered
<1>7. exchange' /\ faults' = MaxFaults
  BY <1>2 DEF FastPath, Calm, broker
<1>8. \A u \in Tasks : pc'[u] \in {"new", "done"} \/ u \in clean'
  BY <1>1, <1>2, <1>4, EnsureEndsNothing DEF Calm
<1> QED
  BY <1>5, <1>6, <1>7, <1>8 DEF CalmInv

(* Whoever begins then is among those that must deliver.                   *)
LEMMA CalmCounts ==
  ASSUME TypeOK, Good, exchange, faults = MaxFaults, NEW t \in Tasks, Ensure(t),
         \A u \in Tasks : pc[u] \in {"new", "done"} \/ u \in clean
  PROVE  t \in clean' /\ clean \subseteq clean' /\ clean' \subseteq clean \cup {t}
         /\ exchange' /\ faults' = MaxFaults
<1>1. CASE FastPath(t)
  <2>1. Calm
    BY DEF Calm, Good
  <2> QED
    BY <1>1, <2>1 DEF FastPath, broker
<1>2. CASE ~FastPath(t)
  <2>1. pc[t] \notin {"new", "done"} /\ clean' = clean /\ exchange' /\ faults' = faults
    BY <1>2 DEF Ensure, Take, EnterGate, Recheck, Connect, OpenChannel, Assign, Declare, Fail,
                Throw, Return, broker
  <2> QED
    BY <2>1
<1> QED
  BY <1>1, <1>2

(* While the calm lasts, and it does.                                      *)
LEMMA CalmStep == Inv /\ [Next]_vars => CalmInv'
<1> SUFFICES ASSUME Inv, [Next]_vars, clean' # {}
             PROVE  CalmInv'
  BY DEF CalmInv
<1>1. CASE UNCHANGED vars
  BY <1>1 DEF vars, fields, broker, sent, Inv, CalmInv, Good, Delivered, Usable
<1>2. CASE Next /\ clean = {}
  BY <1>2, CalmBegins
<1>3. CASE Next /\ clean # {}
  <2>1. /\ TypeOK /\ Good /\ Delivered(clean) /\ exchange /\ faults = MaxFaults
        /\ \A u \in Tasks : pc[u] \in {"new", "done"} \/ u \in clean
    BY <1>3 DEF Inv, CalmInv
  <2>2. up'
    <3>1. ~(faults < MaxFaults)
      BY <2>1, PublisherAssumption
    <3>2. ~Crash
      BY <3>1 DEF Crash
    <3> QED
      BY <1>3, <2>1, <3>2, UpUntilCrash DEF Good
  <2>3. PICK t \in Tasks : Ensure(t) \/ Publish(t)
    BY <1>3, <2>1, <2>2, NothingElse
  <2>4. CASE Ensure(t)
    <3>1. Good'
      BY <2>1, <2>4, EnsureKeepsGood
    <3>2. t \in clean' /\ clean \subseteq clean' /\ clean' \subseteq clean \cup {t}
          /\ exchange' /\ faults' = MaxFaults
      BY <2>1, <2>4, CalmCounts
    <3>3. Delivered(clean)'
      <4>1. clean \subseteq Tasks
        BY <2>1 DEF TypeOK
      <4> QED
        BY <2>1, <2>4, <3>2, <4>1, EnsureEndsNothing DEF Delivered
    <3>4. \A u \in Tasks : pc'[u] \in {"new", "done"} \/ u \in clean'
      BY <2>1, <2>4, <3>2, EnsureEndsNothing
    <3> QED
      BY <3>1, <3>2, <3>3, <3>4 DEF CalmInv
  <2>5. CASE Publish(t)
    <3>1. Good'
      BY <2>1, <2>5, PublishKeepsGood
    <3>2. Delivered(clean)' /\ clean' = clean /\ \A u \in Tasks \ {t} : pc'[u] = pc[u]
      BY <2>1, <2>5, PublishDelivers DEF Delivered, TypeOK
    <3>3. pc[t] = "publish" /\ exchange' /\ faults' = MaxFaults
      BY <2>1, <2>5 DEF Publish, broker
    <3> QED
      BY <2>1, <3>1, <3>2, <3>3 DEF CalmInv
  <2> QED
    BY <2>3, <2>4, <2>5
<1> QED
  BY <1>1, <1>2, <1>3

(* The invariant holds throughout.                                         *)
LEMMA Invariance == Spec => []Inv
<1>1. Inv /\ [Next]_vars => Inv'
  BY TypeStep, NoTroubleStep, CalmStep DEF Inv
<1> QED
  BY InitInv, <1>1, PTL DEF Spec

-----------------------------------------------------------------------------
(* Every state has the declared types, and the semaphore lets one task in  *)
(* at a time.                                                              *)
THEOREM TypeCorrect == Spec => []TypeOK
<1>1. Inv => TypeOK
  BY DEF Inv
<1> QED
  BY Invariance, <1>1, PTL

(* Without trouble one connection serves all tasks, however they overlap   *)
(* (OrderEventPublisher.cs:119-125).                                       *)
THEOREM OneConnectionServesAll == Spec => []OneConnectionUnlessTrouble
<1>1. Inv => OneConnectionUnlessTrouble
  <2> SUFFICES ASSUME Inv, NoTrouble
               PROVE  Cardinality({c \in Tasks : link[c] # "none"}) <= 1
    BY DEF OneConnectionUnlessTrouble
  <2> DEFINE made == {c \in Tasks : link[c] # "none"}
  <2>1. \A c \in made : c = connection
    BY DEF Inv, NoTroubleInv, Single
  <2>2. made = {} \/ made = {connection}
    BY <2>1
  <2>3. Cardinality(made) = 0 \/ Cardinality(made) = 1
    BY <2>2, FS_EmptySet, FS_Singleton
  <2> QED
    BY <2>3
<1> QED
  BY Invariance, <1>1, PTL

(* Without trouble every event gets to the exchange: no task takes from    *)
(* another what it is about to use (OrderEventPublisher.cs:84-104).        *)
THEOREM AllAreDelivered == Spec => []DeliveredUnlessTrouble
<1>1. Inv => DeliveredUnlessTrouble
  BY DEF Inv, NoTroubleInv, Delivered, DeliveredUnlessTrouble
<1> QED
  BY Invariance, <1>1, PTL

(* After any number of outages and refusals, in any state they leave the   *)
(* fields in, what is published once all is well is delivered              *)
(* (OrderEventPublisher.cs:114, 122, 166-171).                             *)
THEOREM DeliveredWhenCalm == Spec => []RecoversWhenCalm
<1>1. Inv => RecoversWhenCalm
  BY DEF Inv, CalmInv, Delivered, RecoversWhenCalm
<1> QED
  BY Invariance, <1>1, PTL
=============================================================================
