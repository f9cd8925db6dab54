------------------------------ MODULE IdemFeed ------------------------------
(***************************************************************************)
(* Idempotweet: the feed with infinite scroll, useInfiniteQuery over the   *)
(* pages of GET /api/idems, and the table they are cut from.  A page is    *)
(* two queries, which run at the same time: the rows at an offset, newest  *)
(* first, and the number of rows.  When a query fails the answer is a page *)
(* of the demo data, with status 200.                                      *)
(*                                                                         *)
(* The table changes between the pages, and between the two queries.  The  *)
(* order of rows with the same created_at is up to each query.             *)
(***************************************************************************)
EXTENDS IdemTable

CONSTANTS
  PageSize,    \* DEFAULT_PAGE_SIZE
  Demo,        \* demoIdems
  Unread,      \* no answer yet
  MaxFailures  \* how many GETs fail or are answered with demo data; bounds the model

ASSUME FeedAssumption ==
  /\ PageSize \in Nat \ {0}
  /\ Demo \in Seq(Range(Demo))
  /\ MaxFailures \in Nat

VARIABLES
  includeSeeded,  \* NEXT_PUBLIC_SHOW_SEEDED_IDEMS, fixed when the page is built
  pages,     \* data.pages, each with two ghosts: what was stored when its rows
             \* were read, and the number of rows it was told of
  request,   \* the pages being fetched
  error,     \* the last fetch has failed, and the feed shows that instead of its pages
  failures   \* so far

feed == <<includeSeeded, pages, request, error, failures>>

Idle == [of |-> "nothing"]

FeedInit ==
  /\ includeSeeded \in BOOLEAN
  /\ pages = <<>> /\ request = Idle
  /\ error = FALSE /\ failures = 0

Offset(page) == (page - 1) * PageSize

\* Faulty: the last row of a page is the first of the next one.
EndThrough(page) == Offset(page) + PageSize + 1

End(page) == Offset(page) + PageSize

\* LIMIT PageSize OFFSET Offset(page)
Slice(rows, page) == SubSeq(rows, Offset(page) + 1, Min({End(page), Len(rows)}))

\* Faulty: the pages are counted from 0.
HasMoreFromZero(page, count) == (page + 1) * PageSize < count

HasMore(page, count) == page * PageSize < count

NextPage(page, count) == IF HasMore(page, count) THEN page + 1 ELSE 0

\* The idems of all pages.
Shown == UNION {Range(pages[k].items) : k \in DOMAIN pages}

\* What IdemsFeed renders.  The sentinel is below the idems, and only there; the
\* spinner is there from the first render on, and again when nothing was ever
\* loaded and the next attempt is under way.
Screen ==
  CASE pages = <<>> /\ (request # Idle \/ ~error) -> "LoadingSpinner"
    [] error /\ (pages # <<>> \/ request = Idle)  -> "ErrorState"
    [] pages # <<>> /\ ~error /\ Shown = {}       -> "EmptyState"
    [] OTHER -> IF Last(pages).nextPage = 0 THEN "EndOfFeed" ELSE "Sentinel"

-----------------------------------------------------------------------------
(* useInfiniteQuery.  A refetch fetches as many pages as there are, one    *)
(* after the other, and replaces them at the end.                          *)
Fetch(of, page, done, want) ==
  request' = [of |-> of, page |-> page, done |-> done, want |-> want,
              items |-> Unread, known |-> {}, count |-> Unread]

Load ==
  /\ request = Idle /\ pages = <<>> /\ ~error
  /\ Fetch("next", 1, <<>>, 1)
  /\ UNCHANGED <<table, includeSeeded, pages, error, failures>>

\* The sentinel comes into view, hasNextPage, and no next page is being fetched;
\* a refetch that is under way is cancelled.
Scroll ==
  /\ Screen = "Sentinel" /\ request.of # "next"
  /\ Fetch("next", Last(pages).nextPage, pages, Len(pages) + 1)
  /\ UNCHANGED <<table, includeSeeded, pages, error, failures>>

FetchAll == Fetch("all", 1, <<>>, Max({Len(pages), 1}))

\* The button of ErrorState.
Retry ==
  /\ Screen = "ErrorState" /\ request = Idle
  /\ FetchAll
  /\ UNCHANGED <<table, includeSeeded, pages, error, failures>>

\* invalidateQueries cancels what is being fetched, unless it is the first load.
Invalidate ==
  /\ IF pages = <<>> /\ (request # Idle \/ ~error) THEN UNCHANGED request ELSE FetchAll
  /\ UNCHANGED <<table, includeSeeded, pages, error, failures>>

-----------------------------------------------------------------------------
(* GET /api/idems.                                                         *)
PrepareFeed ==
  /\ request # Idle
  /\ InitializeDatabase("feed")
  /\ UNCHANGED feed

ReadRows ==
  /\ request # Idle /\ request.items = Unread /\ "feed" \in initialized
  /\ \E rows \in Rows(includeSeeded) :
       request' = [request EXCEPT !.items = Slice(rows, request.page), !.known = Visible(includeSeeded)]
  /\ UNCHANGED <<table, includeSeeded, pages, error, failures>>

ReadCount ==
  /\ request # Idle /\ request.count = Unread /\ "feed" \in initialized
  /\ request' = [request EXCEPT !.count = Count(includeSeeded)]
  /\ UNCHANGED <<table, includeSeeded, pages, error, failures>>

\* The page is one of those wanted; with the last of them the feed is shown.
Receive(page) ==
  LET done == Append(request.done, page) IN
  /\ IF Len(done) < request.want /\ page.nextPage # 0
     THEN Fetch(request.of, page.nextPage, done, request.want) /\ UNCHANGED <<pages, error>>
     ELSE pages' = done /\ request' = Idle /\ error' = FALSE
  /\ UNCHANGED <<table, includeSeeded>>

Respond ==
  /\ request # Idle /\ request.items # Unread /\ request.count # Unread
  /\ Receive([items |-> request.items, nextPage |-> NextPage(request.page, request.count),
              demoMode |-> FALSE, known |-> request.known, count |-> request.count])
  /\ UNCHANGED failures

RespondDemo ==
  /\ request # Idle /\ failures < MaxFailures
  /\ failures' = failures + 1
  /\ Receive([items |-> Slice(Demo, request.page), nextPage |-> NextPage(request.page, Len(Demo)),
              demoMode |-> TRUE, known |-> {}, count |-> Len(Demo)])

\* No answer, or none with status 200.  The fetch is tried three times more;
\* that it is given up counts as one failure here.
GetFails ==
  /\ request # Idle /\ failures < MaxFailures
  /\ failures' = failures + 1
  /\ \/ Fetch(request.of, request.page, request.done, request.want) /\ UNCHANGED error
     \/ request' = Idle /\ error' = TRUE
  /\ UNCHANGED <<table, includeSeeded, pages>>

FeedNext == Load \/ Scroll \/ PrepareFeed \/ ReadRows \/ ReadCount \/ Respond \/ RespondDemo
            \/ GetFails \/ Retry
-----------------------------------------------------------------------------
\* No page is demo data, and no two rows have the same created_at.
Plain ==
  /\ \A k \in DOMAIN pages : ~pages[k].demoMode
  /\ \A i, j \in DOMAIN stored : i # j => stored[i] # stored[j]

\* An insert fell between the two queries of a page.
Torn(page) == page.count # Cardinality(page.known)

(* The end of the feed is the end of the table: whatever was there when    *)
(* the first page was read is shown, however many idems were inserted      *)
(* while the user scrolled and wherever, unless an insert fell between the *)
(* two queries of a page (idems/route.ts:58-63).                           *)
NothingSkippedUnlessTorn ==
  pages # <<>> /\ Last(pages).nextPage = 0 /\ Plain /\ (\A k \in DOMAIN pages : ~Torn(pages[k]))
    => Head(pages).known \subseteq Shown

(* An idem is shown on two pages only when one was inserted between them   *)
(* (IdemsFeed:49, 70, which uses the id as the key of the list).           *)
TwiceOnlyIfInserted ==
  \A k, l \in DOMAIN pages :
    k < l /\ Plain /\ Range(pages[k].items) \cap Range(pages[l].items) # {}
      => pages[k].known # pages[l].known
=============================================================================
