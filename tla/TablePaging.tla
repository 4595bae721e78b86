---------------------------- MODULE TablePaging ----------------------------
(***************************************************************************)
(* The rows a data table shows, and how scrolling extends them: the        *)
(* client store of packages/ui's Table, its load-more action, the optional *)
(* prefetch buffer and the re-seed that a finished route navigation does.  *)
(*                                                                         *)
(* A navigation (new sort, filter or URL) does not remount the table: the  *)
(* provider overwrites the same store, while the in-flight flag, the       *)
(* prefetch buffer and any request still on the wire live on in refs.      *)
(* That survival is what every property here is about.                     *)
(*                                                                         *)
(* A row is named by the query it was read for and its rank in that        *)
(* query's order.  A request for more rows sends their number so far and,  *)
(* where the table enables it, the last of them: the server reads after    *)
(* that row in the new request's order, or else after that many rows.      *)
(* After a navigation the last row may be another query's.                 *)
(*                                                                         *)
(* A call, a prefetch and a buffered page carry the number of navigations  *)
(* at the render whose onLoadMore asked for them (`nav`). A response       *)
(* settles at the instant its continuation runs: JavaScript runs the       *)
(* continuations of one settled promise with no other event between them,  *)
(* so each settlement is one step.                                         *)
(***************************************************************************)
EXTENDS Integers, Sequences

CONSTANTS
  Queries,          \* the queries the route can be navigated to
  Rows,             \* [Queries -> Nat]: how many rows each query selects
  Keyset,           \* the queries whose pages are read after a cursor
  Seek,             \* [Queries -> [Row -> Nat]]: rows up to a row's place
  FirstPage,        \* rows the loader reads (50 in the code)
  Page,             \* rows one load-more asks for (150 in the code)
  EnablePrefetch,   \* metaState.enablePrefetch
  LoadSlots,        \* bound: load-more calls that could be in flight at once
  Pids,             \* bound: prefetch requests that can be in flight at once
  FaultKinds,       \* the ways a response may go wrong, of those below
  MaxNavs,          \* bound: navigations
  MaxFaults         \* bound: responses that go wrong

Row == UNION {[query : {q}, rank : 1..Rows[q]] : q \in Queries}

\* Any row has a place in a query's order; a row of its own, that of its rank.
ASSUME PagingAssumption ==
  /\ Queries # {}
  /\ Rows \in [Queries -> Nat]
  /\ Keyset \subseteq Queries
  /\ Seek \in [Queries -> [Row -> Nat]]
  /\ \A r \in Row : Seek[r.query][r] = r.rank
  /\ FirstPage \in Nat \ {0}
  /\ Page \in Nat \ {0}
  /\ EnablePrefetch \in BOOLEAN
  /\ Pids \subseteq Nat \ {0}
  /\ FaultKinds \subseteq {"rejected", "refused", "short"}
  /\ MaxNavs \in Nat
  /\ MaxFaults \in Nat

VARIABLES
  query,      \* the query of the latest render: what onLoadMore closes over
  store,      \* the DataState the table renders
  isFetching, \* isFetchingRef.current
  loads,      \* [LoadSlots -> load-more call awaiting its response]
  cache,      \* prefetchRef.current
  prefetches, \* [Pids -> prefetch request on the wire]
  armed,      \* an observer callback for the sentinel is due
  navs,       \* navigations so far
  faults      \* faulty responses so far

vars == <<query, store, isFetching, loads, cache, prefetches, armed, navs, faults>>

-----------------------------------------------------------------------------
(* Values *)

\* The number of rows a read after the first `skip` finds.
Available(q, skip, limit) ==
  IF Rows[q] <= skip THEN 0
  ELSE IF Rows[q] - skip <= limit THEN Rows[q] - skip ELSE limit

\* `count` rows of query q after the first `skip`.
RowsAfter(q, skip, count) == [i \in 1..count |-> [query |-> q, rank |-> skip + i]]

DataState == [data : Seq(Row), total : Nat, hasMore : BOOLEAN,
              isLoadingMore : BOOLEAN, error : BOOLEAN]

\* getInitialDataState over a resolved loader response of q.
Seeded(q) ==
  LET first == Available(q, 0, FirstPage)
  IN  [data |-> RowsAfter(q, 0, first), total |-> Rows[q],
       hasMore |-> Rows[q] > first, isLoadingMore |-> FALSE, error |-> FALSE]

\* The same over the refusal the loader answers with: no rows, and the reason.
SeededRefusal == [data |-> <<>>, total |-> 0, hasMore |-> FALSE,
                  isLoadingMore |-> FALSE, error |-> TRUE]

\* A load-more response names no total (-1); a refusal names total 0.
Response == [query : Queries, rows : Seq(Row), total : Nat \cup {-1}]

\* Stands where the code holds no response.
NoResponse == [query |-> CHOOSE q \in Queries : TRUE, rows |-> <<>>, total |-> -1]

\* Mutant: rows are also counted off after the cursor.
StartPastBoth(q, rows) ==
  IF q \in Keyset /\ rows # <<>> THEN Seek[q][rows[Len(rows)]] + Len(rows) ELSE Len(rows)

\* How many rows of q come before the page that continues `rows`: the server
\* reads after the last row's place if it can, else after as many rows.
Start(q, rows) ==
  IF q \in Keyset /\ rows # <<>> THEN Seek[q][rows[Len(rows)]] ELSE Len(rows)

Whole(q, start) ==
  [query |-> q, rows |-> RowsAfter(q, start, Available(q, start, Page)), total |-> -1]

\* The table shrank under the read: fewer rows than were there.
Short(q, start) ==
  { [query |-> q, rows |-> RowsAfter(q, start, n), total |-> -1] :
      n \in {m \in 0..Page : m < Available(q, start, Page)} }

Refused(q) == [query |-> q, rows |-> <<>>, total |-> 0]

\* What executeFetchMore holds across its await.  `from` is the prefetch it
\* waits for, 0 when it issued a request of its own.
LoadState == [on : BOOLEAN, rows : Seq(Row), total : Nat, query : Queries, from : Nat,
              nav : 0..MaxNavs]

\* A slot no call occupies.
NoLoad == [on |-> FALSE, rows |-> <<>>, total |-> 0,
           query |-> CHOOSE q \in Queries : TRUE, from |-> 0, nav |-> 0]

CacheState == [skip : Nat \cup {-1}, kind : {"empty", "promise", "data"},
               pid : Nat, response : Response, nav : 0..MaxNavs]

EmptyCache == [skip |-> -1, kind |-> "empty", pid |-> 0, response |-> NoResponse, nav |-> 0]

PrefetchState == [on : BOOLEAN, skip : Nat, start : Nat, query : Queries, nav : 0..MaxNavs]

NoPrefetch == [on |-> FALSE, skip |-> 0, start |-> 0,
               query |-> CHOOSE q \in Queries : TRUE, nav |-> 0]

-----------------------------------------------------------------------------
(* The observer is attached exactly while another page may be asked for;   *)
(* attaching it delivers one callback.                                     *)

ObserverOn(s) == s.hasMore /\ ~s.isLoadingMore

\* Mutant: the observer is attached once and never anew.
ArmedAfterOnce(s, t) == ObserverOn(t) /\ armed

\* The callback due after a render from store state s to store state t.
ArmedAfter(s, t) == ObserverOn(t) /\ (armed \/ ~ObserverOn(s))

-----------------------------------------------------------------------------
Init ==
  /\ query \in Queries
  /\ store = Seeded(query)
  /\ isFetching = FALSE
  /\ loads = [s \in LoadSlots |-> NoLoad]
  /\ cache = EmptyCache
  /\ prefetches = [p \in Pids |-> NoPrefetch]
  /\ armed = ObserverOn(store)
  /\ navs = 0
  /\ faults = 0

\* A fault of this kind may still happen, and is counted.
Fault(kind) ==
  /\ kind \in FaultKinds
  /\ faults < MaxFaults
  /\ faults' = faults + 1

\* A transition commits: the loader's answer for q replaces the store.
Navigate(q) ==
  /\ navs < MaxNavs
  /\ navs' = navs + 1
  /\ query' = q
  /\ \/ store' = Seeded(q) /\ UNCHANGED faults
     \/ store' = SeededRefusal /\ Fault("refused")
  /\ armed' = ArmedAfter(store, store')
  /\ UNCHANGED <<isFetching, loads, cache, prefetches>>

\* The user scrolls the sentinel back into view.
ScrollToEnd ==
  /\ ObserverOn(store)
  /\ ~armed
  /\ armed' = TRUE
  /\ UNCHANGED <<query, store, isFetching, loads, cache, prefetches, navs, faults>>

-----------------------------------------------------------------------------
(* Landing a response *)

\* Mutants of Combined: the captured total is forgotten, the loaded rows pass
\* for the total, the page lands on top.
CombinedForgets(load, response) ==
  LET data == load.rows \o response.rows
  IN  [data |-> data, total |-> response.total, hasMore |-> response.total > Len(data),
       isLoadingMore |-> FALSE, error |-> FALSE]

CombinedCountsLoaded(load, response) ==
  LET data  == load.rows \o response.rows
      total == IF response.total = -1 THEN Len(data) ELSE response.total
  IN  [data |-> data, total |-> total, hasMore |-> total > Len(data),
       isLoadingMore |-> FALSE, error |-> FALSE]

CombinedOnTop(load, response) ==
  LET data  == response.rows \o load.rows
      total == IF response.total = -1 THEN load.total ELSE response.total
  IN  [data |-> data, total |-> total, hasMore |-> total > Len(data),
       isLoadingMore |-> FALSE, error |-> FALSE]

\* resolveFetchMoreState: the captured rows, then the page; the total the
\* response names, else the captured one.
Combined(load, response) ==
  LET data  == load.rows \o response.rows
      total == IF response.total = -1 THEN load.total ELSE response.total
  IN  [data |-> data, total |-> total, hasMore |-> total > Len(data),
       isLoadingMore |-> FALSE, error |-> FALSE]

CacheHits(len) == cache.skip = len /\ cache.kind = "data"

CacheInFlight(len) == cache.skip = len /\ cache.kind = "promise"

\* maybePrefetchNextPage after the store shows `next`: the buffer was cleared,
\* and is filled again by a prefetch through the landed load's onLoadMore.
\* `rest` is the prefetch table the landing leaves.
Refill(next, load, rest) ==
  IF EnablePrefetch /\ next.hasMore
    THEN \E p \in Pids :
           /\ ~rest[p].on
           /\ \A o \in Pids : ~rest[o].on => p <= o
           /\ prefetches' = [rest EXCEPT ![p] =
                [on |-> TRUE, skip |-> Len(next.data), start |-> Start(load.query, next.data),
                 query |-> load.query, nav |-> load.nav]]
           /\ cache' = [skip |-> Len(next.data), kind |-> "promise", pid |-> p,
                        response |-> NoResponse, nav |-> load.nav]
    ELSE prefetches' = rest /\ cache' = EmptyCache

\* commitFetchMoreSuccess.
Land(load, response, rest) ==
  LET next == Combined(load, response)
  IN  /\ store' = next
      /\ Refill(next, load, rest)

\* Mutants: a failure leaves the spinner on, or gives up on further rows.
FailedSpinning(s) == [s EXCEPT !.error = TRUE]

FailedForGood(s) == [s EXCEPT !.error = TRUE, !.isLoadingMore = FALSE, !.hasMore = FALSE]

\* commitFetchMoreError: rows and hasMore stay, so the page can be asked again.
Failed(s) == [s EXCEPT !.error = TRUE, !.isLoadingMore = FALSE]

\* A request for q after `start` rows settles with a response.
Answered(q, start, response) ==
  \/ response = Whole(q, start) /\ UNCHANGED faults
  \/ response \in Short(q, start) /\ Fault("short")
  \/ response = Refused(q) /\ Fault("refused")

\* The responses a request may settle with.
Responses(q, start) == {Whole(q, start), Refused(q)} \cup Short(q, start)

-----------------------------------------------------------------------------
(* The observer callback: executeFetchMore up to its await *)

\* The early return: a call is in flight or nothing is left.
ReachEndIgnored ==
  /\ armed
  /\ isFetching \/ ~store.hasMore
  /\ armed' = FALSE
  /\ UNCHANGED <<query, store, isFetching, loads, cache, prefetches, navs, faults>>

\* What the call keeps of the state it read.
Captured(from) == [on |-> TRUE, rows |-> store.data, total |-> store.total,
                   query |-> query, from |-> from, nav |-> navs]

\* Mutant: the call does not look whether another is in flight.
MayBeginAgain(s) == armed /\ store.hasMore /\ ~loads[s].on

MayBegin(s) == armed /\ ~isFetching /\ store.hasMore /\ ~loads[s].on

\* The next page is buffered: no request, the page lands at once.
ReachEndHit(s) ==
  /\ MayBegin(s)
  /\ CacheHits(Len(store.data))
  /\ Land(Captured(0), cache.response, prefetches)
  /\ armed' = ObserverOn(store')
  /\ UNCHANGED <<query, isFetching, loads, navs, faults>>

\* Otherwise the call waits, for the prefetch in flight or a fresh request.
ReachEndWait(s) ==
  /\ MayBegin(s)
  /\ ~CacheHits(Len(store.data))
  /\ isFetching' = TRUE
  /\ loads' = [loads EXCEPT ![s] =
       Captured(IF CacheInFlight(Len(store.data)) THEN cache.pid ELSE 0)]
  /\ store' = [store EXCEPT !.isLoadingMore = TRUE]
  /\ armed' = FALSE
  /\ UNCHANGED <<query, cache, prefetches, navs, faults>>

-----------------------------------------------------------------------------
(* A request of a load-more call settles *)

\* The call is over: `finally` clears the flag, the slot is free.
Return(s) ==
  /\ isFetching' = FALSE
  /\ loads' = [loads EXCEPT ![s] = NoLoad]
  /\ armed' = ArmedAfter(store, store')

FetchResolves(s) ==
  LET load == loads[s]
      start == Start(load.query, load.rows)
  IN  /\ load.on /\ load.from = 0
      /\ \E response \in Responses(load.query, start) :
           /\ Answered(load.query, start, response)
           /\ Land(load, response, prefetches)
      /\ Return(s)
      /\ UNCHANGED <<query, navs>>

FetchRejects(s) ==
  /\ loads[s].on /\ loads[s].from = 0
  /\ Fault("rejected")
  /\ store' = Failed(store)
  /\ Return(s)
  /\ UNCHANGED <<query, cache, prefetches, navs>>

-----------------------------------------------------------------------------
(* A prefetch settles.  firePrefetch adopts the outcome when the buffer    *)
(* still stands at its skip; a call waiting for it continues right after.  *)

Resolved(p, response) == [skip |-> prefetches[p].skip, kind |-> "data", pid |-> 0,
                          response |-> response, nav |-> prefetches[p].nav]

Adopt(p, outcome) == IF cache.skip = prefetches[p].skip THEN outcome ELSE cache

Waiting(s, p) == loads[s].on /\ loads[s].from = p

Settled(p) == [prefetches EXCEPT ![p] = NoPrefetch]

PrefetchResolves(p) ==
  LET q == prefetches[p].query
      start == prefetches[p].start
  IN  /\ prefetches[p].on
      /\ \E response \in Responses(q, start) :
           /\ Answered(q, start, response)
           /\ \/ /\ \A s \in LoadSlots : ~Waiting(s, p)
                 /\ cache' = Adopt(p, Resolved(p, response))
                 /\ prefetches' = Settled(p)
                 /\ UNCHANGED <<store, isFetching, loads, armed>>
              \/ \E s \in LoadSlots :
                   /\ Waiting(s, p)
                   /\ Land(loads[s], response, Settled(p))
                   /\ Return(s)
      /\ UNCHANGED <<query, navs>>

PrefetchRejects(p) ==
  /\ prefetches[p].on
  /\ Fault("rejected")
  /\ cache' = Adopt(p, EmptyCache)
  /\ prefetches' = Settled(p)
  /\ \/ /\ \A s \in LoadSlots : ~Waiting(s, p)
        /\ UNCHANGED <<store, isFetching, loads, armed>>
     \/ \E s \in LoadSlots :
          /\ Waiting(s, p)
          /\ store' = Failed(store)
          /\ Return(s)
  /\ UNCHANGED <<query, navs>>

-----------------------------------------------------------------------------
ReachEnd == ReachEndIgnored \/ \E s \in LoadSlots : ReachEndHit(s) \/ ReachEndWait(s)

Settle ==
  \/ \E s \in LoadSlots : FetchResolves(s) \/ FetchRejects(s)
  \/ \E p \in Pids : PrefetchResolves(p) \/ PrefetchRejects(p)

Next ==
  \/ \E q \in Queries : Navigate(q)
  \/ ScrollToEnd
  \/ ReachEnd
  \/ Settle

Spec == Init /\ [][Next]_vars

\* A due callback is delivered while the sentinel stays in view, and every
\* request settles.  Navigating and scrolling are the user's and owe nothing.
Fairness ==
  /\ WF_vars(ReachEnd)
  /\ \A s \in LoadSlots : WF_vars(FetchResolves(s) \/ FetchRejects(s))
  /\ \A p \in Pids : WF_vars(PrefetchResolves(p) \/ PrefetchRejects(p))

FairSpec == Spec /\ Fairness

-----------------------------------------------------------------------------
(* Properties *)

\* Every variable keeps to its values.
TypeOK ==
  /\ query \in Queries
  /\ store \in DataState
  /\ isFetching \in BOOLEAN
  /\ loads \in [LoadSlots -> LoadState]
  /\ cache \in CacheState
  /\ prefetches \in [Pids -> PrefetchState]
  /\ armed \in BOOLEAN
  /\ navs \in 0..MaxNavs
  /\ faults \in 0..MaxFaults

\* What is on screen is the beginning of the current query's result: none of its
\* rows is skipped or shown twice, and no other row is shown.
Unmixed == \A i \in 1..Len(store.data) : store.data[i] = [query |-> query, rank |-> i]

\* A call returns that began before the last navigation, or that has waited for
\* a prefetch sent by a render before it.
LateReturn ==
  \E s \in LoadSlots :
    /\ loads[s].on /\ ~loads'[s].on
    /\ \/ loads[s].nav < navs
       \/ loads[s].from # 0 /\ prefetches[loads[s].from].nav < navs

\* The buffer stands where the rows end, with a page that a render before the
\* last navigation asked for.
LateBuffer == cache.kind = "data" /\ cache.skip = Len(store.data) /\ cache.nav < navs

\* Rows go missing, repeat or come from another query only from a step on, until
\* the next navigation, that puts an answer or a page of an earlier render on
\* screen.  Whatever else survives a navigation in the refs, each row is the
\* next of the current query, whether read after the last row or by offset
\* (executeFetchMore, resolveFromCacheOrFetch, prefetchNextPage, toKeysetCursor).
\* Neither exception is meant to be: TableData/ARCHITECTURE.md:85-86 and 105-106.
OnlyLateAnswersMix == [][Unmixed /\ ~Unmixed' => LateReturn \/ LateBuffer]_vars

\* At most one load-more call is out, isFetchingRef says exactly whether one
\* is, and the spinner never outlives it (executeFetchMore's flag and finally).
SingleFlight ==
  /\ \A s, t \in LoadSlots : loads[s].on /\ loads[t].on => s = t
  /\ isFetching <=> \E s \in LoadSlots : loads[s].on
  /\ store.isLoadingMore => isFetching

\* A call that waits for a prefetch waits for one still on the wire, which stands
\* where the call's rows end, so an answer arrives; and a promise in the buffer
\* is such a prefetch too (resolveFromCacheOrFetch, firePrefetch).
BufferLive ==
  /\ cache.kind = "promise" =>
       /\ cache.pid \in Pids
       /\ prefetches[cache.pid].on
       /\ prefetches[cache.pid].skip = cache.skip
  /\ \A s \in LoadSlots : loads[s].on /\ loads[s].from # 0 =>
       /\ loads[s].from \in Pids
       /\ prefetches[loads[s].from].on
       /\ prefetches[loads[s].from].skip = Len(loads[s].rows)

\* Scrolling is offered exactly while the shown rows fall short of the total
\* (resolveFetchMoreState and getInitialDataState agree on hasMore), and what
\* is captured by a call in flight was short of its own total.
HasMoreHonest ==
  /\ store.hasMore <=> store.total > Len(store.data)
  /\ \A s \in LoadSlots : loads[s].on => loads[s].total > Len(loads[s].rows)

\* Between navigations a step only adds rows below those already on screen
\* (commitFetchMoreSuccess rebuilds the list from the rows it captured).
ScrollingOnlyAppends ==
  [][navs' = navs =>
       /\ Len(store.data) <= Len(store'.data)
       /\ \A i \in 1..Len(store.data) : store'.data[i] = store.data[i]]_vars

\* A table that offers no more rows and shows no error shows them all
\* (TablePageResponse.error: a refusal is an answer that carries its reason).
NoSilentTruncation ==
  ~store.hasMore /\ ~store.error => Len(store.data) = Rows[query]

\* Every row shown was read for the query the table is on (TableDataProvider
\* "atomically replaces rows when new loader data resolves").
RowsOfCurrentQuery == \A i \in 1..Len(store.data) : store.data[i].query = query

\* More rows are offered, and neither a call nor a due callback will ask for them.
Stalled == store.hasMore /\ ~armed /\ ~isFetching

\* The observer's wake-up is never lost, but to a call that returns after a
\* re-seed has taken its spinner away: the callback that came in between found
\* isFetchingRef set, and attaching changes nothing (executeFetchMore's early
\* return and finally, useInfiniteScrollObserver's effect on isEnabled).
WakeUpKept ==
  [][~Stalled /\ Stalled' => isFetching /\ ~store.isLoadingMore /\ ~isFetching']_vars

\* While nobody navigates, more rows are always about to be asked for.
NeverStalls == navs = 0 => ~Stalled

\* A call that returns has brought rows that were not on screen, or has met
\* one of the faults (commitFetchMoreSuccess, commitFetchMoreError): loading
\* does not go round in circles.
CallsAdvance ==
  [][isFetching /\ ~isFetching' =>
       Len(store'.data) > Len(store.data) \/ faults' = faults + 1]_vars

\* A spinner always goes away: each load-more call ends (finally).
SpinnerClears == store.isLoadingMore ~> ~store.isLoadingMore

\* With the sentinel in view and no navigation every row is loaded in the end,
\* through failures, short answers and buffered pages: the observer is attached
\* anew after each (useInfiniteScrollObserver's effect on isEnabled).
AllRowsLoad ==
  [](navs = 0) => <>[](Len(store.data) = Rows[query] /\ ~store.hasMore)

-----------------------------------------------------------------------------
(* With a single query, read again at will, the table is a PagedView. *)

TheQuery == CHOOSE q \in Queries : TRUE

View == INSTANCE PagedView WITH
          shown <- Len(store.data),
          more <- store.hasMore,
          Size <- Rows[TheQuery],
          First <- Available(TheQuery, 0, FirstPage),
          Refusals <- "refused" \in FaultKinds

\* Where Queries has one member, what is on screen is a growing prefix of its
\* result that only a re-read cuts back, and more is offered exactly until its
\* end unless the server refused (executeFetchMore, TableDataProvider).
ImplementsView == View!Spec
=============================================================================
