------------------------------ MODULE MockCafe ------------------------------
(***************************************************************************)
(* The web application in mock mode: a customer at the form, a barista who *)
(* sees the alerts, and others, over the mock kaffebar and its bus.        *)
(***************************************************************************)
EXTENDS MockKaffebar, BaristaAlerts, CustomerScreen

CONSTANTS
  Customer, Barista,  \* the two tabs
  PageLimit,          \* of the list the customer's page is rendered with
  ListLimit           \* of the list that is fetched

ASSUME CafeAssumption == /\ \A d \in Days : d.tabs \subseteq {Customer, Barista}
                         /\ Customer # Barista /\ None \notin Orders
                         /\ PageLimit \in Nat /\ ListLimit \in Nat

VARIABLE
  missed   \* ghost: whether a stream was not there for an event

vars == <<mock, board, screen, missed>>

TypeOK == MockTypeOK /\ BoardTypeOK /\ ScreenTypeOK /\ missed \in BOOLEAN

Init ==
  /\ MockInit /\ BoardInit /\ ScreenInit(List(PageLimit))
  /\ missed = FALSE

MissesOne(t) == \/ announced' # announced /\ stream[t] # "open"
                \/ stream'[t] = "none" /\ inbox[t] # <<>>

Missed == missed' = (missed \/ \E t \in day.tabs : MissesOne(t))

Kitchen == MockNext /\ Missed /\ UNCHANGED <<board, screen>>

-----------------------------------------------------------------------------
BaristaReceives ==
  /\ Barista \in day.tabs
  /\ Take(Barista)
  /\ OnOrderEvent(Head(inbox[Barista]))
  /\ UNCHANGED <<screen, missed>>

\* Brokers deliver a message again; the alerts are made for that.
Redelivery ==
  /\ Barista \in day.tabs /\ inbox[Barista] # <<>> /\ Fault
  /\ OnOrderEvent(Head(inbox[Barista]))
  /\ UNCHANGED <<day, orders, created, stream, inbox, changes, demo, announced, screen, missed>>

AlertGoes ==
  /\ \/ \E o \in Orders : DismissAlert(o)
     \/ \E t \in timeouts : TimesOut(t)
  /\ UNCHANGED <<mock, screen, missed>>

-----------------------------------------------------------------------------
CustomerReceives ==
  /\ Customer \in day.tabs /\ Take(Customer)
  /\ OnEvent
  /\ UNCHANGED <<board, missed>>

Order ==
  \E k \in DOMAIN posts :
    /\ MockCreateOrder /\ ServePost(k, created')
    /\ Missed
    /\ UNCHANGED <<changes, board>>

GetOrders == ServeList(List(ListLimit))

CustomerSees ==
  /\ Respond \/ \E k \in DOMAIN posts : OnSuccess(k)
  /\ UNCHANGED <<mock, board, missed>>

CustomerOrders == Customer \in day.tabs /\ Submit /\ UNCHANGED <<mock, board, missed>>

Fails ==
  /\ Fault
  /\ FetchFails \/ \E k \in DOMAIN posts : PostFails(k)
  /\ UNCHANGED <<day, orders, created, stream, inbox, changes, demo, announced, board, missed>>

Next == \/ Kitchen
        \/ BaristaReceives \/ Redelivery \/ AlertGoes
        \/ CustomerReceives \/ Order \/ CustomerSees \/ CustomerOrders \/ Fails
        \/ GetOrders /\ UNCHANGED <<mock, board, missed>>

Spec == Init /\ [][Next]_vars

Still == UNCHANGED <<board, screen>> /\ Missed

\* Timers fire, the browser reconnects, and the network delivers or fails.
\* Nobody has to order, or to dismiss an alert.
FairSpec ==
  /\ Spec
  /\ WF_vars(Tick /\ Still)
  /\ \A t \in {Customer, Barista} :
       WF_vars(t \in day.tabs /\ (Connect(t) \/ SubscribeToMockOrders(t)) /\ Still)
  /\ WF_vars(CustomerReceives) /\ WF_vars(CustomerSees)
  /\ WF_vars(GetOrders /\ UNCHANGED <<mock, board, missed>>)
-----------------------------------------------------------------------------
Entries(o) == {k \in DOMAIN announced[o] : announced[o][k].status = "PENDING"}

(* The barista is alerted once for each time an order comes into the       *)
(* queue: never for a PENDING that is set again or an event that is        *)
(* delivered again, and each time if the stream was there, also for an     *)
(* order that comes back (BaristaBoard:27-28, lib/orders:31-40,            *)
(* mocks/api:44-55).                                                       *)
AlertedOncePerEntry ==
  \A o \in Orders :
    /\ raised[o] <= Cardinality(Entries(o))
    /\ Barista \in day.tabs /\ ~missed /\ inbox[Barista] = <<>> => raised[o] = Cardinality(Entries(o))

(* Each alert has exactly one timeout running, the one that dismissAlert   *)
(* would clear: an alert neither stays for ever nor is taken away by the   *)
(* timeout of an earlier alert for the same order (BaristaBoard:31-55).    *)
AlertsHaveTimers ==
  /\ {t[1] : t \in timeouts} = alerts
  /\ timeouts = {<<o, timers[o]>> : o \in {p \in Orders : timers[p] # 0}}

Behind(o) == created - o >= ListLimit

(* With no request of the form and no fetch under way the card shows the   *)
(* last order that was confirmed to the customer, whatever the events do,  *)
(* unless a request failed, the order was deleted, or so many orders are   *)
(* newer that it is not on the list (OrderForm:54-59, MyOrderTracker:23). *)
ConfirmedIsShown ==
  posts = <<>> /\ fetch = Idle /\ myOrder # None /\ faults = 0 =>
    Shown # Absent \/ orders[myOrder] = Absent \/ Behind(myOrder)

(* The demonstration the application is for (MyOrderTracker:8-13): in the  *)
(* end the customer's order is READY on the card, without the customer     *)
(* doing anything and whatever others do over the bus, unless the stream   *)
(* was not there for an event, a request failed, a demo stream moves       *)
(* orders, or the order was deleted or is not on the list.                 *)
OrderIsShownReady ==
  <>[](myOrder # None =>
         \/ Shown = "READY"
         \/ missed \/ faults > 0 \/ demo \/ orders[myOrder] = Absent \/ Behind(myOrder))
=============================================================================
