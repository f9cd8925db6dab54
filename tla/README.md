# Code Academy 2026 in TLA+

The repository is the material of a course: workshops on DevOps, event-driven systems,
APIs, frontends and AI. Two programs in it are more than exercises, and both are
distributed systems in the small:

- **Kaffebar**, a coffee bar. Two interchangeable APIs (`3-APIs/kaffebar-dotnet-solution`,
  `3-APIs/kaffebar-java-solution`) keep orders in memory, a timer plays the barista, and
  every change is published to RabbitMQ. A Next.js application
  (`4-Frontend/kaffebar-web`) relays the events to browsers as server-sent events, and
  shows the barista a board with buttons.
- **Idempotweet**, a feed of short messages (`1-DevOps/idempotweet`). A form posts to an
  API that inserts into PostgreSQL or puts the message on a queue, from which a consumer
  inserts it. The feed scrolls without end.

These modules say what the two programs do, step by step, and what can be relied on.

## 1. Inventory

Paths below are relative to `src/`.

### Kaffebar

| Component | State | Operations | Hard behaviour | Correct when |
|---|---|---|---|---|
| .NET orders: `OrdersController`, `InMemoryOrderRepository`, `AutoBarista` | a concurrent dictionary of immutable orders | POST, PATCH (and its alias), tick of the timer | read, compute and write are three steps, so requests on one order and the timer overlap | events carry stored versions; changes are announced once; the barista moves orders forward; every order gets ready |
| .NET publisher: `OrderEventPublisher` | one connection, one channel, a semaphore | publish (a background task per event), connect, reset | check, lock, check again; a reset outside the lock; a broker that is down | one connection; the exchange is declared first; events are delivered; nobody waits for ever |
| Java orders and events: `OrdersController`, `OrderStore`, `AutoBarista`, `OrderEventPublisher` | a map of mutable orders | the same | threads write fields of an object other threads read and serialise | the change an order ends on is announced; an event is as new as its update |
| Relay: `app/api/events/route.ts`, `lib/rabbitmq.ts` | a promise of a connection in `globalThis`; per stream a channel, a queue, `closed`, `subscription`, `heartbeat` | GET, abort, callbacks of the broker's client | six awaited calls, between which tabs close and the broker dies | one connection; a stream misses nothing; it ends rather than being silent; nothing is left at the broker |
| Board: `useOrders`, `useEventSource`, `BaristaBoard` | the cached list, the fetch under way, mutations, `busyOrderId`, the state of the stream | fetch, retry, invalidate, click, event | events, answers and clicks in any order | the list ends up as new as what the tab was told of; buttons come back on a list that has the change, or that is about to be replaced by one |
| Optimistic board: `useOrders-solution`, `useEventSource-solution` | the list with guesses in it; per mutation a snapshot; a refetch timer | event, fetch, click, rollback, timer | guesses, events, answers and rollbacks overwrite one another; two clocks | the list ends as the server told it; a click is not undone by an older fetch; an event never goes back |
| Alerts: `BaristaBoard`, `isNewQueuedOrder` | alerts (state), timers and seen events (refs) | event, dismissal, timeout | redelivery; a new alert while the timeout of the last one runs | one alert per entry into the queue, with one timeout |
| Customer's screen: `OrderForm`, `MyOrderTracker` | the post under way, `myOrderId`, the list | order, fetch, event | the event before the answer, an old list after it, a list that is cut | the card shows the confirmed order, and READY in the end |
| Mock kaffebar: `mocks/*`, `api/events/demo`, `instrumentation.ts` | a Map and an `EventEmitter` in `globalThis` | the four operations, tick, load of a bundle, stream, demo tick | several bundles over one store; changes past the bus | it announces as the API does |
| Active customers: `customers.ts` | | | | counts each waiting order once |

The API publishes to the topic exchange `kaffebar`; the relay binds a queue per tab to
it; the board takes an event only as a hint to fetch the list again, through the
application's own `/api/orders`, from the API. The barista's button is a PATCH through
`/api/orders/[orderId]`, which makes the API publish, which brings an event back. With
`USE_MOCK_API` the application calls the mock instead of the API, and its streams listen
to the mock's bus instead of a queue.

### Idempotweet

| Component | State | Operations | Hard behaviour | Correct when |
|---|---|---|---|---|
| Publishing: `api/publish/route.ts`, `lib/rabbitmq.ts`, `IdemForm` | the channel, and whether the table was made: module variables | POST, getChannel, the form's timer | check, three awaits, assign; a message is sent without waiting | what was accepted arrives |
| Feed: `api/idems/route.ts`, `lib/db.ts`, `useIdems`, `IdemsFeed` | the table; the pages in the browser | GET, scroll, refetch | two queries for a page; a table that grows at the front; demo data when the database fails; a table that the first request makes | nothing is left out, nothing is shown twice |

### The rest

Skeletons the participants fill in, generated types, configuration, pipelines, texts, and
the consumers of workshop 2, whose bodies are comments. `PROJECT.json` lists each with
the reason why it is not modelled.

## 2. The modules

| Module | Models | State |
|---|---|---|
| `OrderContract` | the statuses, a version of an order (what both APIs and the contract share) | |
| `AtomicOrders` | the abstract service: each update and its announcement is one step | `orders`, `announced` |
| `DotnetOrders` | the .NET store, requests and timer | `store`; per request `pc` and its locals; ghosts `history`, `base`, `slot`, `picked` |
| `DotnetOrders_proofs` | proofs about it | |
| `JavaOrders` | the Java store, with orders as mutable objects, and the publisher | `heap`; per thread `pc` and its locals; ghosts `writes`, `base`, `slot`, `seen` |
| `JavaOrders_proofs` | proofs about it | |
| `DotnetPublisher` | `OrderEventPublisher.cs`: gate, connection, channel, reset | `connection`, `channel`, `gate`; per task `pc`, `got`; the broker |
| `DotnetPublisher_proofs` | proofs about it | |
| `SseRelay` | `/api/events` and the subscription, in `rabbitmq.ts` or `rabbitmq-solution.ts`: the same awaited calls | `slot` (the global promise), `link`; per stream the variables of `start()`; the broker's queues |
| `SseRelay_proofs` | proofs about it | |
| `LiveOrders` | the board, its query cache and mutations, the stream, and a server | `cache`, `fetch`, `patch`, `busy`, `connection` |
| `LiveOrders_proofs` | proofs about it | |
| `OptimisticOrders` | the board with the optimistic hook, and a server with a clock of its own | `cache`, `fetch`, `timer`, `patch`, `events`, `skew` |
| `OptimisticOrders_proofs` | proofs about it | |
| `MockKaffebar` | the mock: store, bus, barista, streams, demo streams | `orders`, `stream`, `inbox` |
| `BaristaAlerts` | the alerts of the board | `alerts`, `timeouts`, `timers`, `seen` |
| `CustomerScreen` | the form, the card and the list of a customer's tab | `posts`, `myOrder`, `cache`, `fetch` |
| `MockCafe` | a barista's and a customer's tab over the mock | the three together |
| `MockCafe_proofs` | proofs about the three together | |
| `Customers` | `activeCustomers`, as a fold | |
| `IdemTable` | the table of idems, how it is made, and the queries on it | `stored`, `initialized` |
| `IdemPublisher` | POST in both modes, getChannel, a consumer | per post `pc`; `channel`, `link`, `queue` |
| `IdemFeed` | the pages of the feed and GET | `pages`, `request`, `error` |
| `Idempotweet` | the two over one table, and the form's timer | `fired` |
| `Idempotweet_proofs` | proofs about the whole of it | |

An `MC...` module only gives a constant a value that a `.cfg` cannot hold. `AtomicOrders`
has no run of its own: it is the PROPERTY `ImplementsAtomicOrders` of two runs.

**How code becomes actions.** In C# and Java a thread may be interrupted anywhere, so
every access to shared state is a step and what touches only locals is folded into the
step before or after it. In JavaScript one callback runs to its end, so a step reaches
from one `await` to the next. A `pc` per request, task or stream says where it is; the
locals that are read later are variables. Orders, idems, requests and streams are model
values. Validation, formatting and the wording of answers are left out: an invalid
request changes nothing.

**Faulty variants.** A definition whose comment says *faulty* is not used by the
specification. Each is a mistake one could plausibly make in the code (a missing second
check, a reset of another task's channel, a fetch that is not awaited), and each breaks
one property when it is put in the place of the definition it stands beside:
that is how we know that the property is about the code.

**Ghosts.** `history`, `writes`, `base`, `slot`, `picked`, `seen` (of `JavaOrders`),
`readyAt`, `clean`, `known`, `version`, `heard`, `clicks` (of the fetch in
`OptimisticOrders`), `announced`, `raised` and `missed` record what happened, for the
properties; no guard of the code depends on them.
(`version` in `OptimisticOrders` also makes the stamps of the server's clock.)

**TanStack Query** (`^5.94.5`) is not in the repository; what the board's modules assume
of it is this. `invalidateQueries` cancels a fetch in flight, drops its answer and starts
another (`cancelRefetch`, the default). A fetch that fails is tried once more (`retry: 1`).
The promise of `invalidateQueries`, for which a mutation waits in `onSuccess` or
`onSettled`, is handed over once: when its fetch is replaced it becomes the bare promise
of the fetch that took its place. When that one is replaced too, the bare promise is
rejected, the library ignores the rejection, and the wait is over although a third fetch
is under way (`HandOver`: "refetching", "replaced", "cut short"). It is over as well when
the fetch is, answered or given up, and when `cancelQueries` ends it without a
replacement. The callbacks given to `mutate()`, which reset `busyOrderId`, run for the
latest call only.

## 3. What is checked

| Run | Question | Bounds | States |
|---|---|---|---|
| `dotnet_overlap` | what holds however requests and the barista overlap; what is not overtaken is a step of the atomic service | 2 orders, 2 requests, the timer for ever, 2 clock values | 0.8 M |
| `dotnet_noise` | *violated*: `OrdersController.cs:132` promises no event without a change | the same | |
| `java_overlap` | the same for the mutable store | 2 orders, 2 requests, symmetric, 2 clock values | 4.2 M |
| `publisher_shared` | three events at once, a broker that is or goes down, an exchange that may be missing | 3 tasks, 1 outage | 0.7 M |
| `publisher_exchange` | *violated*: `OrderEventPublisher.cs:109` promises the exchange is there before the first message | 2 tasks | |
| `sse_streams` | streams that open, are aborted, and lose their channel or the broker | 2 faults, 1 event | |
| `sse_leak` | *violated*: `route.ts:26` promises that closing a tab leaves no queue | | |
| `live_board` | clicks, events, fetches and failures in any order | 2 orders, 2 clicks, 1 other change, 2 failures, 1 broken stream | 0.6 M |
| `live_missed` | *violated*: `useOrders.ts:53` says the events tell us when something changed | the same | |
| `optimistic_board` | guesses, snapshots, events out of order and answers over one list | 1 or 2 orders to begin with, 2 clicks, 2 faults, a browser's clock behind or ahead, 2 changes per millisecond | 0.7 M |
| `mock_cafe` | the application without containers, whole days of it | 3 orders, one of them seeded; four kinds of days | 0.5 M |
| `idem_feed` | posts while the channel and the table are made and the feed scrolls | 1 seeded idem or none, shown or not, 2 posts, pages of 1, one failure of each kind | 1.7 M |

The bounds are small, and enough for what the properties speak of: a lost update needs
two writers and an order; the difference between "overtaken" and not needs a third
(the barista, who is always there); a second connection needs two tasks at the gate and
one that is inside; a torn page needs an insert between two queries, and a repeated idem
one between two pages; a stale answer needs one fetch and two changes. What a bound cuts
off is named where it is declared (`MaxTime`, `MaxFaults`, `MaxVersion`, ...).

`mock_cafe` does not take every combination of tabs, changes by others and faults, which
would be out of reach, but a set of days (`Some` in `MCMockCafe`): both tabs undisturbed;
a customer with others about; a customer when two things fail; a barista with three
changes by others (an order goes back to the queue, is deleted, the seed returns) and a
redelivery. The two tabs share the mock and nothing else, so what one of them sees does
not need the other. `ListLimit` and `PageLimit` are 1 instead of 100 and 50: with two
orders one is already beyond the list, which is all the limit can do. `MCMockCafe` also
has TLC evaluate `ActiveCustomersAsDefined`: for every list of up to four orders of two
customers, one with two spellings, the loop over a Map gives what the comment defines.

### What the passing runs show

*Kaffebar, either API.* Both stores implement the atomic service
(`ImplementsAtomicOrders`), order by order, though an update takes three steps in one and
seven in the other. What the clients of an order have been told, and what its updates
still owe them, is what the atomic service would have announced, change by change. A step
is excused only if a write disturbs an update of that order when it is taken (`Disturbed`:
the update is about to replace a version it did not read, or was replaced before it
announced, or the barista found another version than the one he chose the order for).
Afterwards the order is atomic again, from wherever the disturbed updates left it. With
overlap:
- .NET: an event always carries a version that was stored, with the status it was
  computed from; a change nobody else overlapped is announced; an event without a change
  and a step of the barista that is not one forward each need an update that was
  overtaken. Every order gets ready in the end.
- Java: an event is never older than the update it announces, and the change that gave
  an order its present status is announced unless it was overtaken.

*.NET publisher.* While the broker is up and has the exchange, one connection serves all
tasks and all events are delivered, although the fast path takes no lock and a reset
none either. Whatever an outage leaves in the fields, an event published after it is
delivered. The gate is always released.

*Relay.* One connection for all streams, and a new one after a loss; no event is lost or
repeated between binding and "ready"; a request never hangs; a dead channel closes its
stream.

*Board.* Whatever the tab hears of is shown in the end, unless a fetch failed twice. A
button comes back on a list with its change, because `onSuccess` returns the promise of
the fetch, with two exceptions: a fetch failed twice, or the one that was waited for was
replaced twice. The latter takes the answer to the PATCH and then two events before a list
has come, the tab's own and one of another order: the button is back on the old list,
and pressed then it asks for the same status again. `SettledMeansShown` says that in this
case a list with the change is on its way or yet to be read.

*Optimistic board.* A rollback restores the list as it was at its click, over the events
and the other clicks since; with a browser whose clock is ahead the guard on `updatedAt`
refuses real events. Neither lasts: each leaves a fetch to come, the one `onSettled` asks
for or the timer's, and with nothing under way the list is the server's. The model
shows what `cancelQueries` and the guard are for: without the first a click is undone by
an older answer, without the second an event takes an order back.

*Mock mode.* The mock announces every change as the API does, but for deletions, demo
streams and the seed that comes back (below). The barista has one alert for each time an
order comes into the queue, with one timeout. The customer's order is on the card
whenever nothing is under way, and becomes READY there by itself. What excuses these: a
stream that was not there for an event, a request that failed, an order that was deleted
or is beyond the list.

*Idempotweet.* However posts overlap in `getChannel`, no message is sent to a queue that
is not there: a channel is assigned in the same step in which `assertQueue` is written
to it. A feed that has come to its end has shown all that was there when it began, and
shows an idem twice only when one was inserted in between.

### What the violated runs show

Four sentences of the repository that the code does not keep; see `findings` in
`PROJECT.json`. `dotnet_noise`: two requests that both read PENDING and both set BREWING
both announce. `publisher_exchange`: the channel is assigned before the exchange is
declared, and the fast path does not wait. `sse_leak`: a tab that is closed while
`subscribeToOrders` is under way finds no subscription to close. `live_missed`: a change
between the rendering and "ready" is followed by no event.

Some hazards have no property. One `busyOrderId` for all buttons (`BaristaBoard.tsx:70`)
is in `LiveOrders` and `OptimisticOrders`, where it lets a button be pressed again while
its request is under way; no document promises otherwise. A consumer cancelled by the
broker (`lib/rabbitmq.ts:142`) is in `SseRelay` as the fault `"queue"`: the stream then
stays silent, and `DeadSubscriptionClosesStream` speaks of the loss of a channel or a
connection only. Ties of `created_at` and pages of demo data are in `IdemFeed`, and
`Plain` excludes them. A post whose answer is lost has made an order all the same, and the
customer, who sees an error, may order twice (`OrderForm.tsx:44`; the model has it).

Three things met on the way that no run states. `mocks/store.ts:73` says the seed is
"bare første gang"; it comes back when a bundle is loaded after the last order was
deleted (`Load` in `MockKaffebar`). The demo streams move orders past the bus, so
another tab on `/api/events` is not told. The banner at `BaristaBoard.tsx:98` waits for
the state `"closed"`, which `useEventSource` never sets.

## 4. Fairness

- `DotnetOrders`: weak fairness of the timer's steps and of every request that has begun.
  Threads are scheduled and `PeriodicTimer` ticks; nobody has to send a request.
- `DotnetPublisher`: weak fairness of every task that has been started. The broker need
  not come up again: every await of the client ends, if need be with an exception.
- `SseRelay`: weak fairness of the callbacks of each stream and of deliveries; a broker
  that is up answers and one that is down is noticed. No fairness of tabs, events, restarts.
- `LiveOrders`: weak fairness of the stream's reconnecting, which `EventSource` does of
  itself, of delivery, and of answers. No fairness of clicks, other changes or breaks.
- `OptimisticOrders`: weak fairness of deliveries, of the refetch timer and of answers.
  No fairness of clicks, of other changes or of the reconnecting: the property excuses
  what was never heard of.
- `MockCafe`: weak fairness of the mock's timer, of the two steps in which a stream is
  made (`EventSource` retries of itself), of deliveries to the customer's tab and of the
  answers to its fetches and posts. Nobody has to order, dismiss or delete anything.
- `Idempotweet`: weak fairness of the consumer, the only thing the property waits for.

No property needs strong fairness.

## 5. What is proved

Eight modules of proofs, which TLAPS checks for any sets of orders, requests, streams and
tasks, any seed and any clock or bound.

| Theorem | States |
|---|---|
| **`DotnetOrders_proofs`** | from `DotnetAssumption`: the timer is no request, the seed is of existing orders |
| `TypeCorrect` | `Spec => []TypeOK` |
| `EventsAreTruthful` | `Spec => [](AnnouncementsAreStoredVersions /\ AnnouncedOnce)` |
| `ChangesAreAnnounced` | `Spec => []ChangesAnnouncedUnlessOvertaken` |
| `NoNoiseUnlessOvertaken` | `Spec => []NoiseOnlyWhenOvertaken` |
| `BaristaMovesForward` | `Spec => []BaristaMovesForwardUnlessPatched` |
| `DotnetImplementsAtomicOrders` | `Spec => ImplementsAtomicOrders` |
| `UndisturbedDotnetOrdersReplay` | for each order `o`, `Spec /\ []Calm(o) => []Promise(o)!ReplayGivesOrders`: if no update of `o` is ever disturbed, replaying its events gives its status |
| **`JavaOrders_proofs`** | from `JavaAssumption`: the same, and that `Absent` is neither an order's identifier nor an `Order` |
| `TypeCorrect` | `Spec => []TypeOK` |
| `LatestChangeAnnounced` | `Spec => []LatestChangeAnnouncedUnlessOvertaken` |
| `EventsAreAsNewAsTheirUpdate` | `Spec => []EventsAreAtLeastAsNewAsTheirUpdate` |
| `JavaImplementsAtomicOrders` | `Spec => ImplementsAtomicOrders` |
| `UndisturbedJavaOrdersReplay` | `Spec /\ []Calm(o) => []Promise(o)!ReplayGivesOrders`, as above |
| **`MockCafe_proofs`** | from `MockAssumption`, `CafeAssumption`, `AbsentAssumption`: orders are numbered from one, the seed is of the first of them, the tabs are two |
| `TypeCorrect` | `Spec => []TypeOK` |
| `AlertsHaveTimersAlways` | `Spec => []AlertsHaveTimers` |
| `AlertedOnce` | `Spec => []AlertedOncePerEntry` |
| `ConfirmedOrderIsShown` | `Spec => []ConfirmedIsShown` |
| `MockKeepsThePromise` | `Spec => KeepsThePromise`: the mock refines the atomic service, one order at a time |
| **`SseRelay_proofs`** | from `SseAssumption`: the limits are numbers |
| `TypeCorrect` | `Spec => []TypeOK` |
| `AtMostOneConnection` | `Spec => []OneConnection` |
| `NoEventIsMissed` | `Spec => []ReadyMissesNothing` |
| **`DotnetPublisher_proofs`** | from `PublisherAssumption`: null is no task, there may be an outage |
| `TypeCorrect` | `Spec => []TypeOK`: one task at a time behind the gate, too |
| `OneConnectionServesAll` | `Spec => []OneConnectionUnlessTrouble` |
| `AllAreDelivered` | `Spec => []DeliveredUnlessTrouble` |
| `DeliveredWhenCalm` | `Spec => []RecoversWhenCalm` |
| **`LiveOrders_proofs`** | from `LiveAssumption`: null is no order, the limits are numbers |
| `TypeCorrect` | `Spec => []TypeOK` |
| `SettledShowsTheChange` | `Spec => []SettledMeansShown` |
| **`OptimisticOrders_proofs`** | from `OptimisticAssumption`: an absent order is no version, clocks differ by integers, the limits are numbers |
| `TypeCorrect` | `Spec => []TypeOK` |
| `QuietListIsTheServers` | `Spec => []QuietMeansServer` |
| `ClicksHold` | `Spec => ClickHolds`, an action property |
| `EventsGoForward` | `Spec => EventsNeverGoBack`, an action property |
| **`Idempotweet_proofs`** | from `SeedAssumption`, `IdemAssumption`, `FeedAssumption`, `MineAssumption`: the seed is finite and no post, times are numbers, a page has at least one row |
| `TypeCorrect` | `Spec => []TypeOK` |
| `NothingIsSkipped` | `Spec => []NothingSkippedUnlessTorn` |
| `TwiceOnlyAfterAnInsert` | `Spec => []TwiceOnlyIfInserted` |

None of the safety properties is inductive.

*.NET.* That an event carries a stored version follows only if the
writer that is about to announce holds one, so `SafetyInv` adds: the store is the last
version of the history (`StoreIsLastWritten`); what a writer has read was stored, at the
place `base` (`ReadsWereStored`); what it wrote is in the history, at `slot`
(`WritesAreInHistory`), at a place no other writer has (`SlotsAreDistinct`), and not
announced yet (`OwedIsUnannounced`). For the noise: what a request announces is a change
with respect to what it read (`RequestsAnnounceChanges`). For the barista: the version
that made him choose the order has the status he is looking for (`ChoiceWasRight`), and a
history only grows (`HistoryGrows`); the version he reads is that one unless somebody
wrote in between. `TypeInv` is `TypeOK` and
`BusyHasOrder`, that a writer under way has an order. The steps of the proof are one
lemma for storing, one for announcing, one for the steps that leave the history alone.

*Java.* The map holds what was written last (`HeapIsLastWritten`), a write names an
earlier one as its base (`BasesAreEarlier`), the barista's stream only visits orders of
the map (`ScanSeesOrders`), and what a thread remembers was written at the place it
remembers (`Sane`). The interesting step is the one where a thread reads the status back
and says nothing (`NothingToSay`): had it made the last change, and not been overtaken,
it would have found a status other than the one it had read. A step that neither writes
nor announces is one lemma (`QuietStep`), a write of any kind another (`WriteStep`).

*Both stores refine the atomic service.* The mapping counts the updates that have written
a change and have yet to announce it (`Late`), in the order of their writes (`InOrder`):
what was told and what is owed (`Told \o Owing`) is the abstract `announced`. A write adds
at the end of that line, an announcement moves its head, and no other step shows. The
argument is that an order nothing disturbs owes at most one announcement (`CalmQueue`),
for of two writes that are not yet announced the earlier is no longer the newest. A write
by a request is a change from the status it read, which is the stored one; a write by the
barista is a change because he read the version he had chosen. For .NET `SafetyInv` and
`ChoiceWasRight` say all this. For Java a thread knows less, since it meets the same
object at several places, and the proof needs `More`: an order that is being created is
nobody else's and has no status yet (`Fresh`), what a thread wrote is still where it
remembers it, and is no other thread's (`OwnWrite`), and the barista chose the order for
the status it had (`ChoiceWasRight`). TLC had found no state that violates `More` before
it was proved.

*What that is worth to a client.* Of an order that no write ever disturbs, each event
begins with the status the one before it ended with, and the last one ends with the
status that is stored (`ReplayGivesOrders` of `AtomicOrders`). By the refinement each
step adds one change to that line (`ReplaysOn`) or leaves it alone (`ChangeReplays`).
`Calm(o)` is a hypothesis that behaviours satisfy: requests for the order one after
another, and none while the barista is at work on it.

*Mock mode.* `KitchenInv` is the types of the mock, with events numbered from 1, so that
a 0 in `timers` means no timeout; `BoardInv` is `AlertsHaveTimers` and that `timers` are
numbers. For the refinement: orders beyond `created` are not there (`Numbering`), and
what goes over the bus in one step is about different orders, each of which really
changes (`RealMoves`): the second half of a tick takes an order that the first has not.
A step that leaves an order alone is a stutter of its service, a move a step of it. For
the alerts: what is in the barista's inbox the bus has said, and each time it was a change
(`BusInv`), so that a PENDING among it is an entry; what the board has seen are entries,
as many as it has been alerted of (`SeenIsRight`); and if nothing was missed each entry has
been seen or is in the inbox (`AllAreHeard`), for an open stream gets all of it. For
the card (`CardInv`): the list that is shown, or the one that has been served, has the
confirmed order, unless it is gone or behind newer ones (`ListHasIt`), and neither is ever
undone: only orders of the seed come back, and the form's are numbered after them
(`OrdersAreNew`, `GoneForGood`). A list cut at the limit has every order that few enough
are newer than (`FewAreNewer`).

*The relay.* A connection that is open or opening is the one in the slot (`SlotHoldsLive`),
so there is no second. For the events: how far `start()` has come decides what the stream
has (`StreamInv`), and from the moment its queue is bound, what it has relayed and what is
still queued are the events up to the last one published, none left out (`QueueInv`).
Most steps concern a stream not at all, or only end it (`Steady`), and a publication adds
the same event to the queue and to what is expected (`OneMore`).

*The publisher.* The invariant describes the state in which all is well (`Good`): nobody
cleans up, and whoever is about to use a field finds in it what he needs. In it no action
that fails or cleans up is enabled (`NothingElse`), and the rest lead back to it. It holds
as long as there was no trouble, together with `Single`: whoever is about to connect knows
that there is no connection, because he alone is behind the gate. And it holds from the
first task that begins when all is well again, whatever is left in the fields: `Good` says
nothing of a field that nobody is about to read, and a channel in it that is dead is
found dead.

*The board.* A list that is coming is no older than the one that is shown
(`ListsAreInOrder`): an invalidation cancels the fetch before it starts another. A
mutation that waits for a list waits for a fetch, and what it brings has the change
(`WaitsForItsChange`). When the fetch is replaced the new one is yet to be read, so what it
brings has the change, too, whether the mutation still waits for it or no longer does
(`FetchAgainSafe`); for one that no longer does this is kept until such a list is shown
(`ItsChangeIsShown`). A second try means that the first has failed (`TriesAreCounted`),
which is where "unless a fetch failed twice" comes from.

*The optimistic board.* Four parts. What events and answers tell of is at the server, and
no newer than it (`ServerIsAhead`). A version bears the server's stamp unless it is a guess
(`StampsAreTrue`), so that comparing stamps compares versions, and an event that is let
through is no older. What is wrong in the list is put right by a fetch, under way or
planned (`FetchIsDue`): this is the argument for `QuietMeansServer`, and it does not ask
how the list was spoilt. A fetch that is under way was asked for after all the clicks so
far, because each has cancelled the fetch before it (`FetchIsNewer`): this is the argument
for `ClickHolds`. The property says that a further click may overwrite what a first one
shows, for there is one `busyOrderId` for all the buttons (`BaristaBoard.tsx:70`): a click
on another order frees the first button, and with three clicks the first order can be
asked for two steps at once.

*Idempotweet.* A page of the feed is cut from rows that were sorted as some query may have
sorted them, and a table only grows, so what was read of it is still in it (`IsRead`,
`GrowingKeepsPages`); the pages, and those of a fetch under way, are in the order of what
they saw (`IsFeed`, `IsRequest`). Both properties follow from that by arguments about
lists and not about steps. When rows are inserted a row never moves up (`NeverUp`: the
rows above it are among those above it later, and an injection between finite sets does
not shrink them). So of the pages that end after a row, the first begins before it
(`EndIsTheEnd`), and there is one, because the last page ends after the whole table. And a
row's place in a table is one place, so pages of the same table share none
(`PagesAreApart`).

`AnnouncedOnce`, that no write is announced twice, is proved and in no run of its own:
`ImplementsAtomicOrders` would show it broken.

Every invariant, action property and refinement that a passing run checks is proved. Only
model-checked: all liveness, which needs ENABLED and fairness and is beyond the prover
(`EveryOrderGetsReady` and the others of section 4), and the fold of `Customers`, which
would need induction over lists.

## 6. Plan

1. *(done)* the two order APIs against one abstract service; the relay; the board; the
   .NET publisher; Idempotweet; the optimistic board; the mock, the alerts and the
   customer's screen together.
2. *Models to come*: `SseRelay` and `LiveOrders` composed, so that what the relay loses
   is what the board does not hear; the seed script run beside the application.
3. *Proofs*: *(done)* all safety, and the refinements of both stores and of the mock. *To
   come*: the steps that liveness rests on, for each property the action that brings it
   nearer and that nothing takes back what it has done.

## 7. Not modelled

Authentication, validation, error documents, menus and health; reads that change nothing;
rendering; hot reload and StrictMode; tabs that are closed, but for their streams (an
unmounted board clears its timers, and what it held is gone); the fields of the forms; a
refetch by TanStack Query when the browser is online again; orders of the same
`createdAt`; the listener a tab leaves at the mock's bus when it is closed while the bus
is imported, which writes to nobody; in the relay the flag that `send()` sets when a write
fails (`route.ts:49-53`), since a stream is cancelled and its request aborted together;
messages that are not JSON; the connection the .NET publisher forgets after a failure,
which nobody closes; in the Java publisher the declaration of the exchange, the flag for
`/health` and `updatedAt`, which only clients read; the texts the seed makes up;
skeletons, generated types, pipelines, containers and texts.
