--------------------------- MODULE CustomerScreen ---------------------------
(***************************************************************************)
(* The customer's screen: the form, the card "your order" beside it, and   *)
(* the list of orders the card finds its order in (useOrders).  Nothing    *)
(* but the list says what has become of the order, and the list is cut.    *)
(***************************************************************************)
EXTENDS OrderContract, Sequences, SequencesExt

CONSTANTS None  \* no order yet

VARIABLES
  posts,     \* the requests of the form that are under way
  myOrder,   \* myOrderId
  cache,     \* the query's data
  fetch      \* the fetch in flight

screen == <<posts, myOrder, cache, fetch>>

Idle == [at |-> "idle"]
AList == [Orders -> Status \cup {Absent}]

ScreenTypeOK ==
  /\ posts \in Seq([at : {"sent"}] \cup [at : {"served"}, order : Orders]) /\ Len(posts) <= 1
  /\ myOrder \in Orders \cup {None}
  /\ cache \in AList
  /\ fetch \in {Idle} \cup [at : {"sent"}, tries : 0..1]
                      \cup [at : {"served"}, tries : 0..1, data : AList]

\* The page was rendered with a list of its own.
ScreenInit(list) ==
  /\ posts = <<>> /\ myOrder = None
  /\ cache = list /\ fetch = Idle

-----------------------------------------------------------------------------
(* The list.                                                               *)

\* Faulty: a fetch that is under way is shared.
InvalidateShared ==
  IF fetch = Idle THEN fetch' = [at |-> "sent", tries |-> 0] ELSE UNCHANGED fetch

Invalidate == fetch' = [at |-> "sent", tries |-> 0]

OnEvent == Invalidate /\ UNCHANGED <<posts, myOrder, cache>>

ServeList(list) ==
  /\ fetch.at = "sent"
  /\ fetch' = [at |-> "served", tries |-> fetch.tries, data |-> list]
  /\ UNCHANGED <<posts, myOrder, cache>>

Respond ==
  /\ fetch.at = "served"
  /\ cache' = fetch.data /\ fetch' = Idle
  /\ UNCHANGED <<posts, myOrder>>

\* A failed fetch is tried once more.
FetchFails ==
  /\ fetch # Idle
  /\ fetch' = IF fetch.tries = 0 THEN [at |-> "sent", tries |-> 1] ELSE Idle
  /\ UNCHANGED <<posts, myOrder, cache>>

-----------------------------------------------------------------------------
(* The form.                                                               *)

\* Faulty: the button stays.
NeverDisabled == FALSE

\* The button, which Enter presses too.  That a name is typed is left out.
Disabled == posts # <<>>

Submit ==
  /\ ~Disabled
  /\ posts' = Append(posts, [at |-> "sent"])
  /\ UNCHANGED <<myOrder, cache, fetch>>

ServePost(k, order) ==
  /\ posts[k].at = "sent"
  /\ posts' = [posts EXCEPT ![k] = [at |-> "served", order |-> order]]
  /\ UNCHANGED <<myOrder, cache, fetch>>

\* Faulty: the list is left to the events.
RefetchNothing == UNCHANGED fetch

Refetch == Invalidate

\* onSuccess: the form is cleared, and the card gets the order.
OnSuccess(k) ==
  /\ posts[k].at = "served"
  /\ posts' = RemoveAt(posts, k)
  /\ Refetch
  /\ myOrder' = posts[k].order
  /\ UNCHANGED cache

\* The request or the answer is lost; the customer sees an error either way.
PostFails(k) ==
  /\ posts' = RemoveAt(posts, k)
  /\ UNCHANGED <<myOrder, cache, fetch>>

\* What the card shows.
Shown == IF myOrder = None THEN Absent ELSE cache[myOrder]
=============================================================================
