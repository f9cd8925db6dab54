--------------------------- MODULE BaristaAlerts ---------------------------
(***************************************************************************)
(* The alerts at the top of the barista's board: one per order that has    *)
(* come into the queue, which goes away when it is dismissed or after five *)
(* seconds.  The alerts are state of React, the timers a ref: the two are  *)
(* kept together by hand.                                                  *)
(***************************************************************************)
EXTENDS OrderContract, FiniteSets

VARIABLES
  alerts,    \* the orders there is an alert for
  timeouts,  \* the timeouts that are running, each with the event it was set for
  timers,    \* timers.current: the timeout of each order, or 0
  seen,      \* seenEvents.current
  raised     \* ghost: how many alerts there have been for each order

board == <<alerts, timeouts, timers, seen, raised>>

BoardInit ==
  /\ alerts = {} /\ timeouts = {}
  /\ timers = [o \in Orders |-> 0]
  /\ seen = {}
  /\ raised = [o \in Orders |-> 0]

BoardTypeOK ==
  /\ alerts \subseteq Orders
  /\ timeouts \subseteq Orders \X Nat /\ timers \in [Orders -> Nat]
  /\ seen \subseteq Orders \X Nat
  /\ raised \in [Orders -> Nat]

\* It is created, or moved back to the queue.
IsNewQueuedOrder(e) == e.status = "PENDING" /\ e.prev # "PENDING"

\* eventKey; n stands for the type and the timestamp.
Key(e) == <<e.order, e.n>>

\* Faulty: an order is known by its identifier.
UnseenOrder(e) == \A key \in seen : key[1] # e.order

Unseen(e) == Key(e) \notin seen

\* Faulty: the timeout that is replaced runs on.
ClearNothing(o) == timeouts

\* clearTimeout(timers.current.get(o))
ClearTimeout(o) == timeouts \ {<<o, timers[o]>>}

OnOrderEvent(e) ==
  IF IsNewQueuedOrder(e) /\ Unseen(e)
  THEN /\ seen' = seen \cup {Key(e)}
       /\ alerts' = alerts \cup {e.order}
       /\ timeouts' = ClearTimeout(e.order) \cup {Key(e)}
       /\ timers' = [timers EXCEPT ![e.order] = e.n]
       /\ raised' = [raised EXCEPT ![e.order] = @ + 1]
  ELSE UNCHANGED board

\* The cross of an alert.
DismissAlert(o) ==
  /\ o \in alerts
  /\ timeouts' = ClearTimeout(o)
  /\ timers' = [timers EXCEPT ![o] = 0]
  /\ alerts' = alerts \ {o}
  /\ UNCHANGED <<seen, raised>>

\* Five seconds are over; the callback is dismissAlert.
TimesOut(t) ==
  /\ t \in timeouts
  /\ timeouts' = ClearTimeout(t[1]) \ {t}
  /\ timers' = [timers EXCEPT ![t[1]] = 0]
  /\ alerts' = alerts \ {t[1]}
  /\ UNCHANGED <<seen, raised>>
=============================================================================
