---------------------------- MODULE Idempotweet ----------------------------
(***************************************************************************)
(* Idempotweet as a whole: a feed in a browser, and the posts of that      *)
(* browser and of others, over one table.  The form refetches the feed a   *)
(* second after its post was accepted, whatever has become of it by then.  *)
(***************************************************************************)
EXTENDS IdemPublisher, IdemFeed

CONSTANT Mine  \* the posts made with the form next to the feed

ASSUME MineAssumption == Mine \subseteq Posts

VARIABLE fired  \* the posts whose timer has fired

vars == <<table, publisher, feed, fired>>

TypeOK ==
  /\ PublisherTypeOK
  /\ fired \subseteq Mine
  /\ error \in BOOLEAN
  /\ request = Idle \/ request.of \in {"next", "all"}
  /\ \A k \in DOMAIN pages : /\ Len(pages[k].items) <= PageSize
                             /\ pages[k].nextPage \in {0, k + 1}

Init == PublisherInit /\ FeedInit /\ fired = {}

Submitting == {p \in Mine : pc[p] \notin {"new", "done"}}

\* The form's button is disabled while it submits.
Publish ==
  /\ PublisherNext /\ Cardinality(Submitting') <= 1
  /\ UNCHANGED <<feed, fired>>

\* The form's timer.
Refetch(p) ==
  /\ answer[p] \in {201, 202} /\ p \notin fired
  /\ fired' = fired \cup {p}
  /\ Invalidate
  /\ UNCHANGED publisher

Browse == FeedNext /\ UNCHANGED <<publisher, fired>>

Next == Publish \/ Browse \/ \E p \in Mine : Refetch(p)

\* A consumer takes what is in the queue; nothing else has to happen.
Spec ==
  /\ Init /\ [][Next]_vars
  /\ \A p \in Posts : WF_vars(Consume(p) /\ UNCHANGED <<feed, fired>>)
=============================================================================
