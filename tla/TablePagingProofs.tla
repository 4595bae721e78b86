------------------------- MODULE TablePagingProofs -------------------------
(***************************************************************************)
(* Theorems about TablePaging for every set of queries, page size, number  *)
(* of navigations and number of faults.                                    *)
(***************************************************************************)
EXTENDS TablePaging, TLAPS

-----------------------------------------------------------------------------
(* Rows and pages *)

\* The rows are those of q that follow its first `start`, none left out.
Continues(rows, q, start) ==
  \A i \in 1..Len(rows) : rows[i] = [query |-> q, rank |-> start + i]

\* The sizes are natural numbers.
LEMMA Sizes == FirstPage \in Nat /\ Page \in Nat /\ \A q \in Queries : Rows[q] \in Nat
  BY PagingAssumption

\* A read finds at most what it asks for, and nothing past the end.
LEMMA AvailableBounds ==
  ASSUME NEW q \in Queries, NEW skip \in Nat, NEW limit \in Nat
  PROVE  /\ Available(q, skip, limit) \in Nat
         /\ Available(q, skip, limit) <= limit
         /\ skip <= Rows[q] => skip + Available(q, skip, limit) <= Rows[q]
         /\ Available(q, skip, limit) = 0 \/ skip + Available(q, skip, limit) <= Rows[q]
  BY Sizes DEF Available

\* A row is named by its query and a rank of that query.
LEMMA RowFacts ==
  /\ \A q \in Queries : \A k \in 1..Rows[q] : [query |-> q, rank |-> k] \in Row
  /\ \A r \in Row : r.query \in Queries
  BY DEF Row

\* A page is a sequence of rows that continues its offset.
LEMMA RowsAfterFacts ==
  ASSUME NEW q \in Queries, NEW skip \in Nat, NEW count \in Nat,
         count = 0 \/ skip + count <= Rows[q]
  PROVE  /\ RowsAfter(q, skip, count) \in Seq(Row)
         /\ Len(RowsAfter(q, skip, count)) = count
         /\ Continues(RowsAfter(q, skip, count), q, skip)
<1> DEFINE page == RowsAfter(q, skip, count)
<1>1. ASSUME NEW i \in 1..count
      PROVE  [query |-> q, rank |-> skip + i] \in Row
  <2>1. skip + i \in 1..Rows[q]
    BY Sizes
  <2> QED
    BY <2>1, RowFacts
<1>2. page \in [1..count -> Row]
  BY <1>1 DEF RowsAfter
<1>3. page \in Seq(Row)
  BY <1>2
<1>4. Len(page) = count
  BY <1>2, <1>3
<1>5. \A i \in 1..count : page[i] = [query |-> q, rank |-> skip + i]
  BY DEF RowsAfter
<1> QED
  BY <1>3, <1>4, <1>5 DEF Continues

\* The place of a row of its own is its rank, so a list of a query's first rows
\* is continued where it ends, by cursor or by offset.
LEMMA StartFacts ==
  ASSUME NEW q \in Queries, NEW rows \in Seq(Row)
  PROVE  /\ Start(q, rows) \in Nat
         /\ Continues(rows, q, 0) => Start(q, rows) = Len(rows)
<1>1. CASE q \in Keyset /\ rows # <<>>
  <2>1. Len(rows) \in 1..Len(rows)
    BY <1>1
  <2>2. rows[Len(rows)] \in Row
    BY <2>1
  <2>3. Start(q, rows) = Seek[q][rows[Len(rows)]]
    BY <1>1 DEF Start
  <2>4. Seek[q][rows[Len(rows)]] \in Nat
    BY <2>2, PagingAssumption
  <2>5. ASSUME Continues(rows, q, 0)
        PROVE  Seek[q][rows[Len(rows)]] = Len(rows)
    <3>1. rows[Len(rows)] = [query |-> q, rank |-> Len(rows)]
      BY <2>1, <2>5 DEF Continues
    <3> QED
      BY <2>2, <3>1, PagingAssumption
  <2> QED
    BY <2>3, <2>4, <2>5
<1>2. CASE ~(q \in Keyset /\ rows # <<>>)
  BY <1>2 DEF Start
<1> QED
  BY <1>1, <1>2

\* The values that stand for "nothing here" are of their type.
LEMMA Blanks ==
  /\ NoLoad \in LoadState
  /\ NoPrefetch \in PrefetchState
  /\ NoResponse \in Response
  /\ EmptyCache \in CacheState
  /\ SeededRefusal \in DataState
<1>1. (CHOOSE q \in Queries : TRUE) \in Queries
  BY PagingAssumption
<1>2. <<>> \in Seq(Row)
  OBVIOUS
<1>3. 0 \in 0..MaxNavs
  BY PagingAssumption
<1> QED
  BY <1>1, <1>2, <1>3 DEF NoLoad, LoadState, NoPrefetch, PrefetchState, NoResponse,
    Response, EmptyCache, CacheState, SeededRefusal, DataState

\* A first page is a well-formed state of the table.
LEMMA SeededFacts ==
  ASSUME NEW q \in Queries
  PROVE  /\ Seeded(q) \in DataState
         /\ Continues(Seeded(q).data, q, 0)
         /\ Seeded(q).hasMore <=> Seeded(q).total > Len(Seeded(q).data)
         /\ ~Seeded(q).isLoadingMore
<1> DEFINE first == Available(q, 0, FirstPage)
<1>1. first \in Nat /\ (first = 0 \/ 0 + first <= Rows[q])
  BY AvailableBounds, Sizes
<1>2. /\ RowsAfter(q, 0, first) \in Seq(Row)
      /\ Len(RowsAfter(q, 0, first)) = first
      /\ Continues(RowsAfter(q, 0, first), q, 0)
  BY <1>1, RowsAfterFacts
<1>3. Rows[q] \in Nat
  BY PagingAssumption
<1>4. Seeded(q).data = RowsAfter(q, 0, first)
  BY DEF Seeded
<1>5. /\ Seeded(q).total = Rows[q]
      /\ Seeded(q).hasMore = (Rows[q] > first)
      /\ Seeded(q).isLoadingMore = FALSE
  BY DEF Seeded
<1>6. Seeded(q) \in DataState
  BY <1>1, <1>2, <1>3 DEF Seeded, DataState
<1> HIDE DEF first
<1> QED
  BY <1>1, <1>2, <1>3, <1>4, <1>5, <1>6

\* Whatever a request for q after `start` settles with, its rows go there.
LEMMA ResponseFacts ==
  ASSUME NEW q \in Queries, NEW start \in Nat,
         NEW response \in Responses(q, start)
  PROVE  /\ response \in Response
         /\ response.query = q
         /\ Continues(response.rows, q, start)
<1> DEFINE most == Available(q, start, Page)
<1>0. most \in Nat /\ (most = 0 \/ start + most <= Rows[q]) /\ Rows[q] \in Nat
  BY AvailableBounds, Sizes
<1>1. CASE response = Whole(q, start)
  <2>1. response.rows = RowsAfter(q, start, most)
    BY <1>1 DEF Whole
  <2>2. RowsAfter(q, start, most) \in Seq(Row) /\ Continues(RowsAfter(q, start, most), q, start)
    BY <1>0, RowsAfterFacts
  <2>3. response \in Response /\ response.query = q
    BY <1>1, <2>2 DEF Whole, Response
  <2> QED
    BY <2>1, <2>2, <2>3
<1>2. CASE response \in Short(q, start)
  <2>1. PICK n \in {m \in 0..Page : m < most} :
          response = [query |-> q, rows |-> RowsAfter(q, start, n), total |-> -1]
    BY <1>2 DEF Short
  <2> HIDE DEF most
  <2>2. n \in Nat /\ (n = 0 \/ start + n <= Rows[q])
    BY <1>0, <2>1, Sizes
  <2>3. RowsAfter(q, start, n) \in Seq(Row) /\ Continues(RowsAfter(q, start, n), q, start)
    BY <2>2, RowsAfterFacts
  <2>4. response.rows = RowsAfter(q, start, n)
    BY <2>1
  <2>5. response \in Response /\ response.query = q
    BY <2>1, <2>3 DEF Response
  <2> QED
    BY <2>3, <2>4, <2>5
<1>3. CASE response = Refused(q)
  BY <1>3 DEF Refused, Response, Continues
<1> QED
  BY <1>1, <1>2, <1>3 DEF Responses

\* What is appended leaves the rows before it where they are.
LEMMA Appended ==
  ASSUME NEW rows \in Seq(Row), NEW page \in Seq(Row), NEW i \in 1..Len(rows)
  PROVE  i \in 1..Len(rows \o page) /\ (rows \o page)[i] = rows[i]
<1>1. Len(rows \o page) = Len(rows) + Len(page)
  OBVIOUS
<1>2. Len(rows) \in Nat /\ Len(page) \in Nat
  OBVIOUS
<1> QED
  BY <1>1, <1>2

\* The rows of a query followed by those that continue them are still its rows.
LEMMA ContinuesConcat ==
  ASSUME NEW q, NEW rows \in Seq(Row), NEW page \in Seq(Row),
         Continues(rows, q, 0), Continues(page, q, Len(rows))
  PROVE  Continues(rows \o page, q, 0)
<1>1. /\ rows \o page \in Seq(Row)
      /\ Len(rows \o page) = Len(rows) + Len(page)
  OBVIOUS
<1>2. ASSUME NEW i \in 1..Len(rows \o page)
      PROVE  (rows \o page)[i] = [query |-> q, rank |-> i]
  <2>1. CASE i <= Len(rows)
    <3>1. (rows \o page)[i] = rows[i]
      BY <2>1
    <3> QED
      BY <2>1, <3>1 DEF Continues
  <2>2. CASE i > Len(rows)
    <3>1. (rows \o page)[i] = page[i - Len(rows)]
      BY <1>1, <2>2
    <3>2. i - Len(rows) \in 1..Len(page)
      BY <1>1, <2>2
    <3> QED
      BY <3>1, <3>2 DEF Continues
  <2> QED
    BY <2>1, <2>2, <1>1
<1> QED
  BY <1>1, <1>2 DEF Continues

-----------------------------------------------------------------------------
(* What holds of flags, buffer, calls and totals in every state.  That no   *)
(* waiting call loses its prefetch needs that there is but one: a settled   *)
(* prefetch returns one of the calls that wait for it.                      *)

IInv ==
  /\ TypeOK
  /\ SingleFlight
  /\ BufferLive
  /\ HasMoreHonest

\* A freshly seeded table satisfies it.
LEMMA InitIInv == Init => IInv
<1> SUFFICES ASSUME Init PROVE IInv
  OBVIOUS
<1> USE DEF Init
<1>1. TypeOK
  <2>1. store \in DataState
    BY SeededFacts
  <2>2. armed \in BOOLEAN
    BY DEF ObserverOn
  <2>3. navs \in 0..MaxNavs /\ faults \in 0..MaxFaults
    BY PagingAssumption
  <2> QED
    BY <2>1, <2>2, <2>3, Blanks DEF TypeOK
<1>2. HasMoreHonest
  BY SeededFacts DEF HasMoreHonest, NoLoad
<1>3. SingleFlight
  BY SeededFacts DEF SingleFlight, NoLoad
<1>4. BufferLive
  BY DEF BufferLive, EmptyCache, NoLoad
<1> QED
  BY <1>1, <1>2, <1>3, <1>4 DEF IInv

-----------------------------------------------------------------------------
(* Pieces several actions share *)

\* Joining a captured list and its answer yields a well-formed state.
LEMMA CombinedFacts ==
  ASSUME NEW load \in LoadState, NEW response \in Response
  PROVE  /\ Combined(load, response) \in DataState
         /\ Combined(load, response).data = load.rows \o response.rows
         /\ Combined(load, response).hasMore <=>
              Combined(load, response).total > Len(Combined(load, response).data)
         /\ Combined(load, response).isLoadingMore = FALSE
<1> DEFINE data == load.rows \o response.rows
           total == IF response.total = -1 THEN load.total ELSE response.total
<1>1. load.rows \in Seq(Row) /\ load.total \in Nat
  BY DEF LoadState
<1>2. response.rows \in Seq(Row) /\ response.total \in Nat \cup {-1}
  BY DEF Response
<1>3. data \in Seq(Row)
  BY <1>1, <1>2
<1>4. total \in Nat
  BY <1>1, <1>2
<1>5. Combined(load, response) =
        [data |-> data, total |-> total, hasMore |-> total > Len(data),
         isLoadingMore |-> FALSE, error |-> FALSE]
  BY DEF Combined
<1> HIDE DEF data, total
<1>6. /\ Combined(load, response).data = data
      /\ Combined(load, response).total = total
      /\ Combined(load, response).hasMore = (total > Len(data))
      /\ Combined(load, response).isLoadingMore = FALSE
  BY <1>5
<1>7. Combined(load, response) \in DataState
  BY <1>3, <1>4, <1>5 DEF DataState
<1> QED
  BY <1>3, <1>6, <1>7 DEF data

\* The prefetch a landing may send: after the rows now shown, through the
\* onLoadMore of the landed call.
Sent(load, data) ==
  [on |-> TRUE, skip |-> Len(data), start |-> Start(load.query, data),
   query |-> load.query, nav |-> load.nav]

\* Refilling the buffer leaves it empty or holding one new prefetch at the end
\* of the rows now shown, and no other request is touched.
LEMMA RefillFacts ==
  ASSUME NEW next \in DataState, NEW load \in LoadState,
         NEW rest \in [Pids -> PrefetchState],
         Refill(next, load, rest)
  PROVE  /\ cache' \in CacheState
         /\ prefetches' \in [Pids -> PrefetchState]
         /\ cache'.kind # "data"
         /\ cache'.kind = "promise" =>
              /\ cache'.pid \in Pids
              /\ prefetches'[cache'.pid].on
              /\ prefetches'[cache'.pid].skip = cache'.skip
         /\ \A p \in Pids : rest[p].on => prefetches'[p] = rest[p]
         /\ \A p \in Pids : \/ prefetches'[p] = rest[p]
                            \/ prefetches'[p] = Sent(load, next.data)
<1>1. CASE EnablePrefetch /\ next.hasMore
  <2>1. PICK p \in Pids :
          /\ ~rest[p].on
          /\ prefetches' = [rest EXCEPT ![p] = Sent(load, next.data)]
          /\ cache' = [skip |-> Len(next.data), kind |-> "promise", pid |-> p,
                       response |-> NoResponse, nav |-> load.nav]
    BY <1>1 DEF Refill, Sent
  <2>2. next.data \in Seq(Row) /\ Len(next.data) \in Nat
    BY DEF DataState
  <2>3. p \in Nat
    BY PagingAssumption
  <2>4. load.query \in Queries /\ load.nav \in 0..MaxNavs
    BY DEF LoadState
  <2>5. cache' \in CacheState
    BY <2>1, <2>2, <2>3, <2>4, Blanks DEF CacheState
  <2>6. Start(load.query, next.data) \in Nat
    BY <2>2, <2>4, StartFacts
  <2>7. Sent(load, next.data) \in PrefetchState
    BY <2>2, <2>4, <2>6 DEF PrefetchState, Sent
  <2>8. Sent(load, next.data).on /\ Sent(load, next.data).skip = Len(next.data)
    BY DEF Sent
  <2> QED
    BY <2>1, <2>5, <2>7, <2>8
<1>2. CASE ~(EnablePrefetch /\ next.hasMore)
  BY <1>2, Blanks DEF Refill, EmptyCache
<1> QED
  BY <1>1, <1>2

\* A call that returns leaves no call out and the spinner off.
LEMMA ReturnFacts ==
  ASSUME IInv, NEW s \in LoadSlots, loads[s].on, Return(s),
         store'.isLoadingMore = FALSE
  PROVE  /\ isFetching' \in BOOLEAN
         /\ loads' \in [LoadSlots -> LoadState]
         /\ armed' \in BOOLEAN
         /\ \A t \in LoadSlots : ~loads'[t].on
         /\ SingleFlight'
<1>1. loads \in [LoadSlots -> LoadState]
  BY DEF IInv, TypeOK
<1>2. loads' = [loads EXCEPT ![s] = NoLoad] /\ isFetching' = FALSE
  BY DEF Return
<1>3. loads' \in [LoadSlots -> LoadState]
  BY <1>1, <1>2, Blanks
<1>4. \A t \in LoadSlots : ~loads'[t].on
  BY <1>1, <1>2 DEF IInv, SingleFlight, NoLoad
<1>5. armed' \in BOOLEAN
  BY DEF Return, ArmedAfter, ObserverOn
<1>6. SingleFlight'
  BY <1>2, <1>4 DEF SingleFlight
<1> QED
  BY <1>2, <1>3, <1>4, <1>5, <1>6

\* The answer's fault, if any, is within the bound.
LEMMA FaultType ==
  ASSUME faults \in 0..MaxFaults
  PROVE  /\ UNCHANGED faults => faults' \in 0..MaxFaults
         /\ \A kind : Fault(kind) => faults' \in 0..MaxFaults
  BY PagingAssumption DEF Fault

\* A failed load-more keeps the rows and the offer to ask again.
LEMMA FailedFacts ==
  ASSUME NEW t \in DataState
  PROVE  /\ Failed(t) \in DataState
         /\ Failed(t).data = t.data
         /\ Failed(t).total = t.total
         /\ Failed(t).hasMore = t.hasMore
         /\ Failed(t).isLoadingMore = FALSE
  BY DEF Failed, DataState

-----------------------------------------------------------------------------
(* One lemma per action *)

\* A navigation replaces the store and leaves calls and buffer as they are.
LEMMA NavigateStep ==
  ASSUME IInv, NEW q \in Queries, Navigate(q)
  PROVE  IInv'
<1> USE DEF IInv
<1>1. /\ store' \in DataState
      /\ store'.hasMore <=> store'.total > Len(store'.data)
      /\ store'.isLoadingMore = FALSE
  <2>1. CASE store' = Seeded(q)
    BY <2>1, SeededFacts DEF DataState
  <2>2. CASE store' = SeededRefusal
    BY <2>2, Blanks DEF SeededRefusal
  <2> QED
    BY <2>1, <2>2 DEF Navigate
<1>2. TypeOK'
  <2>1. navs' \in 0..MaxNavs
    BY PagingAssumption DEF Navigate, TypeOK
  <2>2. faults' \in 0..MaxFaults
    BY FaultType DEF Navigate, TypeOK
  <2>3. armed' \in BOOLEAN
    BY DEF Navigate, ArmedAfter, ObserverOn
  <2> QED
    BY <1>1, <2>1, <2>2, <2>3 DEF Navigate, TypeOK
<1>3. BufferLive'
  BY DEF Navigate, BufferLive
<1>4. SingleFlight' /\ HasMoreHonest'
  BY <1>1 DEF Navigate, SingleFlight, HasMoreHonest
<1> QED
  BY <1>1, <1>2, <1>3, <1>4

\* Scrolling and an ignored callback change only whether a callback is due.
LEMMA CallbackStep ==
  ASSUME IInv, ScrollToEnd \/ ReachEndIgnored
  PROVE  IInv'
<1>1. UNCHANGED <<query, store, isFetching, loads, cache, prefetches, navs, faults>>
      /\ armed' \in BOOLEAN
  BY DEF ScrollToEnd, ReachEndIgnored
<1> QED
  BY <1>1 DEF IInv, TypeOK, SingleFlight, BufferLive, HasMoreHonest

\* What a call captures is what is on screen, as of this render.
LEMMA CapturedFacts ==
  ASSUME IInv, NEW from \in Nat
  PROVE  /\ Captured(from) \in LoadState
         /\ Captured(from).rows = store.data
         /\ Captured(from).total = store.total
         /\ Captured(from).query = query
         /\ Captured(from).from = from
         /\ Captured(from).on = TRUE
         /\ Captured(from).nav = navs
  BY DEF IInv, TypeOK, Captured, LoadState, DataState

\* A buffered page lands where the rows on screen end.
LEMMA HitStep ==
  ASSUME IInv, NEW s \in LoadSlots, ReachEndHit(s)
  PROVE  IInv'
<1> DEFINE load == Captured(0)
           next == Combined(load, cache.response)
<1>1. /\ cache.response \in Response
      /\ prefetches \in [Pids -> PrefetchState]
      /\ query \in Queries
  BY DEF IInv, TypeOK, CacheState
<1>2. load \in LoadState
  BY CapturedFacts
<1>3. /\ next \in DataState
      /\ next.hasMore <=> next.total > Len(next.data)
      /\ next.isLoadingMore = FALSE
  BY <1>1, <1>2, CombinedFacts
<1>4. store' = next /\ Refill(next, load, prefetches)
  BY DEF ReachEndHit, Land
<1> HIDE DEF next, load
<1>5. /\ cache' \in CacheState
      /\ prefetches' \in [Pids -> PrefetchState]
      /\ cache'.kind # "data"
      /\ cache'.kind = "promise" =>
           /\ cache'.pid \in Pids
           /\ prefetches'[cache'.pid].on
           /\ prefetches'[cache'.pid].skip = cache'.skip
      /\ \A p \in Pids : prefetches[p].on => prefetches'[p] = prefetches[p]
  BY <1>1, <1>2, <1>3, <1>4, RefillFacts
<1>6. /\ UNCHANGED <<query, isFetching, loads, navs, faults>>
      /\ armed' \in BOOLEAN
  BY DEF ReachEndHit, ObserverOn
<1>7. TypeOK'
  BY <1>3, <1>4, <1>5, <1>6 DEF IInv, TypeOK
<1>8. SingleFlight' /\ HasMoreHonest'
  BY <1>3, <1>4, <1>6 DEF IInv, SingleFlight, HasMoreHonest
<1>9. BufferLive'
  BY <1>5, <1>6 DEF IInv, BufferLive
<1> QED
  BY <1>7, <1>8, <1>9 DEF IInv

\* A call that must wait takes the free flag and captures what it read.
LEMMA WaitStep ==
  ASSUME IInv, NEW s \in LoadSlots, ReachEndWait(s)
  PROVE  IInv'
<1> DEFINE from == IF CacheInFlight(Len(store.data)) THEN cache.pid ELSE 0
<1>1. from \in Nat
  BY DEF IInv, TypeOK, CacheState
<1>2. /\ loads' = [loads EXCEPT ![s] = Captured(from)]
      /\ store' = [store EXCEPT !.isLoadingMore = TRUE]
      /\ isFetching' = TRUE /\ armed' = FALSE
      /\ UNCHANGED <<query, cache, prefetches, navs, faults>>
      /\ ~isFetching /\ store.hasMore
  BY DEF ReachEndWait, MayBegin
<1>3. /\ loads \in [LoadSlots -> LoadState] /\ store \in DataState
      /\ \A t \in LoadSlots : ~loads[t].on
  BY <1>2 DEF IInv, TypeOK, SingleFlight
<1>4. from # 0 => /\ from \in Pids
                  /\ prefetches[from].on
                  /\ prefetches[from].skip = Len(store.data)
  BY DEF CacheInFlight, IInv, BufferLive
<1> HIDE DEF from
<1>5. /\ store' \in DataState /\ store'.data = store.data
      /\ store'.hasMore = store.hasMore /\ store'.total = store.total
  BY <1>2, <1>3 DEF DataState
<1>6. /\ loads' \in [LoadSlots -> LoadState]
      /\ loads'[s] = Captured(from)
      /\ \A t \in LoadSlots \ {s} : loads'[t] = loads[t]
  BY <1>1, <1>2, <1>3, CapturedFacts
<1>7. TypeOK'
  BY <1>2, <1>5, <1>6 DEF IInv, TypeOK
<1>8. SingleFlight'
  BY <1>1, <1>2, <1>3, <1>6, CapturedFacts DEF SingleFlight
<1>9. HasMoreHonest'
  BY <1>1, <1>2, <1>3, <1>5, <1>6, CapturedFacts DEF IInv, HasMoreHonest
<1>10. BufferLive'
  BY <1>1, <1>2, <1>3, <1>4, <1>6, CapturedFacts DEF IInv, BufferLive
<1> QED
  BY <1>7, <1>8, <1>9, <1>10 DEF IInv

\* A response lands on the rows its call captured; `rest` are the prefetches
\* still on the wire.
LEMMA LandStep ==
  ASSUME IInv, NEW s \in LoadSlots, loads[s].on,
         NEW response \in Response,
         NEW rest \in [Pids -> PrefetchState],
         Land(loads[s], response, rest), Return(s),
         faults' \in 0..MaxFaults, UNCHANGED <<query, navs>>
  PROVE  IInv'
<1> DEFINE next == Combined(loads[s], response)
<1>1. loads[s] \in LoadState
  BY DEF IInv, TypeOK
<1>2. /\ next \in DataState
      /\ next.hasMore <=> next.total > Len(next.data)
      /\ next.isLoadingMore = FALSE
  BY <1>1, CombinedFacts
<1>3. store' = next /\ Refill(next, loads[s], rest)
  BY DEF Land
<1> HIDE DEF next
<1>4. /\ cache' \in CacheState
      /\ prefetches' \in [Pids -> PrefetchState]
      /\ cache'.kind # "data"
      /\ cache'.kind = "promise" =>
           /\ cache'.pid \in Pids
           /\ prefetches'[cache'.pid].on
           /\ prefetches'[cache'.pid].skip = cache'.skip
  BY <1>1, <1>2, <1>3, RefillFacts
<1>5. store'.isLoadingMore = FALSE
  BY <1>2, <1>3
<1>6. /\ isFetching' \in BOOLEAN
      /\ loads' \in [LoadSlots -> LoadState]
      /\ armed' \in BOOLEAN
      /\ \A t \in LoadSlots : ~loads'[t].on
      /\ SingleFlight'
  BY <1>5, ReturnFacts
<1>7. TypeOK'
  BY <1>2, <1>3, <1>4, <1>6 DEF IInv, TypeOK
<1>8. HasMoreHonest' /\ BufferLive'
  BY <1>2, <1>3, <1>4, <1>6 DEF HasMoreHonest, BufferLive
<1> QED
  BY <1>6, <1>7, <1>8 DEF IInv

\* A failure ends its call and leaves the buffer empty or as it was.
LEMMA FailStep ==
  ASSUME IInv, NEW s \in LoadSlots, loads[s].on,
         store' = Failed(store), Return(s),
         prefetches' \in [Pids -> PrefetchState],
         cache' \in CacheState,
         cache'.kind = "promise" =>
           /\ cache'.pid \in Pids
           /\ prefetches'[cache'.pid].on
           /\ prefetches'[cache'.pid].skip = cache'.skip,
         faults' \in 0..MaxFaults, UNCHANGED <<query, navs>>
  PROVE  IInv'
<1>1. store \in DataState
  BY DEF IInv, TypeOK
<1>2. /\ store' \in DataState /\ store'.data = store.data
      /\ store'.total = store.total /\ store'.hasMore = store.hasMore
      /\ store'.isLoadingMore = FALSE
  BY <1>1, FailedFacts
<1>3. /\ isFetching' \in BOOLEAN
      /\ loads' \in [LoadSlots -> LoadState]
      /\ armed' \in BOOLEAN
      /\ \A t \in LoadSlots : ~loads'[t].on
      /\ SingleFlight'
  BY <1>2, ReturnFacts
<1>4. TypeOK'
  BY <1>2, <1>3 DEF IInv, TypeOK
<1>5. HasMoreHonest' /\ BufferLive'
  BY <1>2, <1>3 DEF IInv, HasMoreHonest, BufferLive
<1> QED
  BY <1>3, <1>4, <1>5 DEF IInv

\* A request of a call's own settles.
LEMMA FetchStep ==
  ASSUME IInv, NEW s \in LoadSlots, FetchResolves(s) \/ FetchRejects(s)
  PROVE  IInv'
<1>0. /\ loads[s] \in LoadState /\ loads[s].query \in Queries
      /\ loads[s].rows \in Seq(Row)
      /\ prefetches \in [Pids -> PrefetchState] /\ faults \in 0..MaxFaults
  BY DEF IInv, TypeOK, LoadState
<1>1. CASE FetchResolves(s)
  <2> DEFINE start == Start(loads[s].query, loads[s].rows)
  <2>1. PICK response \in Responses(loads[s].query, start) :
          /\ Answered(loads[s].query, start, response)
          /\ Land(loads[s], response, prefetches)
    BY <1>1 DEF FetchResolves
  <2>2. loads[s].on /\ Return(s) /\ UNCHANGED <<query, navs>>
    BY <1>1 DEF FetchResolves
  <2>3. response \in Response
    BY <1>0, <2>1, StartFacts, ResponseFacts
  <2>4. faults' \in 0..MaxFaults
    BY <1>0, <2>1, FaultType DEF Answered
  <2> QED
    BY <1>0, <2>1, <2>2, <2>3, <2>4, LandStep
<1>2. CASE FetchRejects(s)
  <2>1. /\ loads[s].on /\ Return(s) /\ store' = Failed(store)
        /\ UNCHANGED <<query, cache, prefetches, navs>>
        /\ Fault("rejected")
    BY <1>2 DEF FetchRejects
  <2>2. faults' \in 0..MaxFaults
    BY <1>0, <2>1, FaultType
  <2>3. cache' \in CacheState /\ prefetches' \in [Pids -> PrefetchState]
    BY <2>1 DEF IInv, TypeOK
  <2>4. cache'.kind = "promise" =>
          /\ cache'.pid \in Pids
          /\ prefetches'[cache'.pid].on
          /\ prefetches'[cache'.pid].skip = cache'.skip
    BY <2>1 DEF IInv, BufferLive
  <2> QED
    BY <2>1, <2>2, <2>3, <2>4, FailStep
<1> QED
  BY <1>1, <1>2

\* Adopting a settled prefetch's outcome keeps the buffer sound: a promise left
\* in it is another prefetch, still on the wire.
LEMMA AdoptFacts ==
  ASSUME IInv, NEW p \in Pids, prefetches[p].on,
         NEW outcome \in CacheState, outcome.kind # "promise"
  PROVE  /\ Settled(p) \in [Pids -> PrefetchState]
         /\ Adopt(p, outcome) \in CacheState
         /\ Adopt(p, outcome).kind = "promise" =>
              /\ Adopt(p, outcome).pid \in Pids
              /\ Settled(p)[Adopt(p, outcome).pid].on
              /\ Settled(p)[Adopt(p, outcome).pid].skip = Adopt(p, outcome).skip
<1>1. prefetches \in [Pids -> PrefetchState] /\ cache \in CacheState
  BY DEF IInv, TypeOK
<1>2. Settled(p) \in [Pids -> PrefetchState]
      /\ \A o \in Pids \ {p} : Settled(p)[o] = prefetches[o]
  BY <1>1, Blanks DEF Settled
<1>3. CASE cache.skip = prefetches[p].skip
  BY <1>2, <1>3 DEF Adopt
<1>4. CASE cache.skip # prefetches[p].skip
  <2>1. Adopt(p, outcome) = cache
    BY <1>4 DEF Adopt
  <2>2. cache.kind = "promise" => cache.pid \in Pids \ {p}
                                  /\ prefetches[cache.pid].on
                                  /\ prefetches[cache.pid].skip = cache.skip
    BY <1>4 DEF IInv, BufferLive
  <2> QED
    BY <1>1, <1>2, <2>1, <2>2
<1> QED
  BY <1>3, <1>4

\* With no call waiting, a settled prefetch touches the buffer only.
LEMMA AdoptStep ==
  ASSUME IInv, NEW p \in Pids, prefetches[p].on,
         \A s \in LoadSlots : ~Waiting(s, p),
         NEW outcome \in CacheState, outcome.kind # "promise",
         cache' = Adopt(p, outcome), prefetches' = Settled(p),
         faults' \in 0..MaxFaults,
         UNCHANGED <<query, store, isFetching, loads, armed, navs>>
  PROVE  IInv'
<1>1. /\ prefetches' \in [Pids -> PrefetchState]
      /\ cache' \in CacheState
      /\ cache'.kind = "promise" =>
           /\ cache'.pid \in Pids
           /\ prefetches'[cache'.pid].on
           /\ prefetches'[cache'.pid].skip = cache'.skip
  BY AdoptFacts
<1>2. TypeOK'
  BY <1>1 DEF IInv, TypeOK
<1>3. SingleFlight' /\ HasMoreHonest'
  BY DEF IInv, SingleFlight, HasMoreHonest
<1>4. BufferLive'
  <2>1. \A o \in Pids \ {p} : prefetches'[o] = prefetches[o]
    BY DEF Settled, IInv, TypeOK
  <2>2. \A s \in LoadSlots : loads[s].on /\ loads[s].from # 0 => loads[s].from \in Pids \ {p}
    BY DEF IInv, BufferLive, Waiting
  <2> QED
    BY <1>1, <2>1, <2>2 DEF IInv, BufferLive
<1> QED
  BY <1>1, <1>2, <1>3, <1>4 DEF IInv

\* A prefetch settles with an answer.
LEMMA PrefetchResolvesStep ==
  ASSUME IInv, NEW p \in Pids, PrefetchResolves(p)
  PROVE  IInv'
<1> DEFINE q == prefetches[p].query
           start == prefetches[p].start
<1>1. prefetches[p].on /\ UNCHANGED <<query, navs>>
  BY DEF PrefetchResolves
<1>2. /\ q \in Queries /\ start \in Nat /\ faults \in 0..MaxFaults
      /\ prefetches[p].skip \in Nat /\ prefetches[p].nav \in 0..MaxNavs
  BY DEF IInv, TypeOK, PrefetchState
<1>3. PICK response \in Responses(q, start) :
        /\ Answered(q, start, response)
        /\ \/ /\ \A s \in LoadSlots : ~Waiting(s, p)
              /\ cache' = Adopt(p, Resolved(p, response))
              /\ prefetches' = Settled(p)
              /\ UNCHANGED <<store, isFetching, loads, armed>>
           \/ \E s \in LoadSlots :
                /\ Waiting(s, p)
                /\ Land(loads[s], response, Settled(p))
                /\ Return(s)
  BY DEF PrefetchResolves
<1>4. response \in Response
  BY <1>2, <1>3, ResponseFacts
<1>5. faults' \in 0..MaxFaults
  BY <1>2, <1>3, FaultType DEF Answered
<1>6. Resolved(p, response) \in CacheState /\ Resolved(p, response).kind = "data"
  BY <1>2, <1>4 DEF Resolved, CacheState
<1>7. CASE /\ \A s \in LoadSlots : ~Waiting(s, p)
           /\ cache' = Adopt(p, Resolved(p, response))
           /\ prefetches' = Settled(p)
           /\ UNCHANGED <<store, isFetching, loads, armed>>
  BY <1>1, <1>5, <1>6, <1>7, AdoptStep
<1>8. CASE \E s \in LoadSlots :
             /\ Waiting(s, p)
             /\ Land(loads[s], response, Settled(p))
             /\ Return(s)
  <2>1. PICK s \in LoadSlots :
          Waiting(s, p) /\ Land(loads[s], response, Settled(p)) /\ Return(s)
    BY <1>8
  <2>2. loads[s].on
    BY <2>1 DEF Waiting
  <2>3. Settled(p) \in [Pids -> PrefetchState]
    BY <1>1, <1>6, AdoptFacts
  <2> QED
    BY <1>1, <1>4, <1>5, <2>1, <2>2, <2>3, LandStep
<1> QED
  BY <1>3, <1>7, <1>8

\* A prefetch settles with a failure, which a waiting call reports.
LEMMA PrefetchRejectsStep ==
  ASSUME IInv, NEW p \in Pids, PrefetchRejects(p)
  PROVE  IInv'
<1>1. /\ prefetches[p].on /\ UNCHANGED <<query, navs>> /\ Fault("rejected")
      /\ cache' = Adopt(p, EmptyCache)
      /\ prefetches' = Settled(p)
  BY DEF PrefetchRejects
<1>2. faults' \in 0..MaxFaults
  BY <1>1, FaultType DEF IInv, TypeOK
<1>3. EmptyCache \in CacheState /\ EmptyCache.kind = "empty"
  BY Blanks DEF EmptyCache
<1>4. CASE (\A s \in LoadSlots : ~Waiting(s, p)) /\ UNCHANGED <<store, isFetching, loads, armed>>
  BY <1>1, <1>2, <1>3, <1>4, AdoptStep
<1>5. CASE \E s \in LoadSlots : Waiting(s, p) /\ store' = Failed(store) /\ Return(s)
  <2>1. PICK s \in LoadSlots : Waiting(s, p) /\ store' = Failed(store) /\ Return(s)
    BY <1>5
  <2>2. /\ prefetches' \in [Pids -> PrefetchState]
        /\ cache' \in CacheState
        /\ cache'.kind = "promise" =>
             /\ cache'.pid \in Pids
             /\ prefetches'[cache'.pid].on
             /\ prefetches'[cache'.pid].skip = cache'.skip
    BY <1>1, <1>3, AdoptFacts
  <2>3. loads[s].on
    BY <2>1 DEF Waiting
  <2> QED
    BY <1>1, <1>2, <2>1, <2>2, <2>3, FailStep
<1> QED
  BY <1>4, <1>5 DEF PrefetchRejects

-----------------------------------------------------------------------------
(* Theorems *)

\* Every step keeps the invariant.
LEMMA NextIInv == IInv /\ [Next]_vars => IInv'
<1> SUFFICES ASSUME IInv, [Next]_vars PROVE IInv'
  OBVIOUS
<1>1. CASE \E q \in Queries : Navigate(q)
  BY <1>1, NavigateStep
<1>2. CASE ScrollToEnd
  BY <1>2, CallbackStep
<1>3. CASE ReachEnd
  BY <1>3, CallbackStep, HitStep, WaitStep DEF ReachEnd
<1>4. CASE Settle
  BY <1>4, FetchStep, PrefetchResolvesStep, PrefetchRejectsStep DEF Settle
<1>5. CASE UNCHANGED vars
  BY <1>5 DEF vars, IInv, TypeOK, SingleFlight,
    BufferLive, HasMoreHonest
<1> QED
  BY <1>1, <1>2, <1>3, <1>4, <1>5 DEF Next

\* The invariant holds throughout every behaviour.
THEOREM Invariance == Spec => []IInv
<1>1. Init => IInv
  BY InitIInv
<1>2. IInv /\ [Next]_vars => IInv'
  BY NextIInv
<1> QED
  BY <1>1, <1>2, PTL DEF Spec

\* Every variable keeps to its values.
THEOREM Typing == Spec => []TypeOK
<1>1. IInv => TypeOK
  BY DEF IInv
<1> QED
  BY <1>1, Invariance, PTL

\* One load-more call at a time, exactly tracked by isFetchingRef, and no
\* spinner without one.
THEOREM OneCallAtATime == Spec => []SingleFlight
<1>1. IInv => SingleFlight
  BY DEF IInv
<1> QED
  BY <1>1, Invariance, PTL

\* A call never waits for a prefetch that is gone or stands elsewhere.
THEOREM NoLostPrefetch == Spec => []BufferLive
<1>1. IInv => BufferLive
  BY DEF IInv
<1> QED
  BY <1>1, Invariance, PTL

\* The offer to load more agrees with the totals, on screen and in flight.
THEOREM HonestOffer == Spec => []HasMoreHonest
<1>1. IInv => HasMoreHonest
  BY DEF IInv
<1> QED
  BY <1>1, Invariance, PTL

-----------------------------------------------------------------------------
(* Where the rows come from.  A call of the current render holds what is on *)
(* screen.  A prefetch or buffered page of the current render is for the    *)
(* current query and, unless the screen is already mixed, for the place it  *)
(* stands at; there is none while a call of an earlier render is out, since *)
(* that call holds the flag, so the screen only grows under it.             *)

NoLateCall == \A s \in LoadSlots : loads[s].on => loads[s].nav = navs

FreshCalls ==
  \A s \in LoadSlots : loads[s].on =>
    /\ loads[s].nav <= navs
    /\ loads[s].nav = navs => loads[s].rows = store.data /\ loads[s].query = query

FreshPrefetches ==
  \A p \in Pids : prefetches[p].on =>
    /\ prefetches[p].nav <= navs
    /\ prefetches[p].nav = navs =>
         /\ NoLateCall
         /\ prefetches[p].query = query
         /\ Unmixed => prefetches[p].start = prefetches[p].skip

FreshBuffer ==
  cache.kind = "data" =>
    /\ cache.nav <= navs
    /\ cache.nav = navs =>
         /\ NoLateCall
         /\ Unmixed => Continues(cache.response.rows, query, cache.skip)

FreshInv == FreshCalls /\ FreshPrefetches /\ FreshBuffer

\* What a step may do to the rows, and the invariant it keeps.
Placed == (Unmixed /\ ~Unmixed' => LateReturn \/ LateBuffer) /\ FreshInv'

\* Being unmixed is to continue nothing.
LEMMA UnmixedContinues == store.data \in Seq(Row) => (Unmixed <=> Continues(store.data, query, 0))
  BY DEF Unmixed, Continues

\* The table starts unmixed.
LEMMA InitFresh == Init => FreshInv
<1> SUFFICES ASSUME Init PROVE FreshInv
  OBVIOUS
<1>1. \A s \in LoadSlots : ~loads[s].on
  BY DEF Init, NoLoad
<1>2. \A p \in Pids : ~prefetches[p].on
  BY DEF Init, NoPrefetch
<1>3. cache.kind # "data"
  BY DEF Init, EmptyCache
<1> QED
  BY <1>1, <1>2, <1>3 DEF FreshInv, FreshCalls, FreshPrefetches, FreshBuffer

\* A navigation leaves the first page and makes everything under way late.
LEMMA NavigatePlaced ==
  ASSUME IInv, FreshInv, NEW q \in Queries, Navigate(q)
  PROVE  Placed
<1>1. Unmixed'
  <2>1. CASE store' = Seeded(q)
    <3>1. Continues(store'.data, q, 0) /\ query' = q
      BY <2>1, SeededFacts DEF Navigate
    <3> QED
      BY <3>1 DEF Continues, Unmixed
  <2>2. CASE store' = SeededRefusal
    BY <2>2 DEF SeededRefusal, Unmixed
  <2> QED
    BY <2>1, <2>2 DEF Navigate
<1>2. UNCHANGED <<loads, cache, prefetches>> /\ navs' = navs + 1 /\ navs \in Nat
  BY PagingAssumption DEF Navigate, IInv, TypeOK
<1>3. /\ \A s \in LoadSlots : loads[s].nav \in Nat
      /\ \A p \in Pids : prefetches[p].nav \in Nat
      /\ cache.nav \in Nat
  BY PagingAssumption DEF IInv, TypeOK, LoadState, PrefetchState, CacheState
<1>4. FreshCalls'
  BY <1>2, <1>3 DEF FreshInv, FreshCalls
<1>5. FreshPrefetches'
  BY <1>2, <1>3 DEF FreshInv, FreshPrefetches
<1>6. FreshBuffer'
  BY <1>2, <1>3 DEF FreshInv, FreshBuffer
<1> QED
  BY <1>1, <1>4, <1>5, <1>6 DEF Placed, FreshInv

\* A step that leaves the rows, starts nothing and adopts nothing amiss.
LEMMA QuietPlaced ==
  ASSUME FreshInv, store'.data = store.data, UNCHANGED <<query, navs>>,
         \A s \in LoadSlots : loads'[s].on => loads'[s] = loads[s],
         \A p \in Pids : prefetches'[p].on => prefetches'[p] = prefetches[p],
         FreshBuffer'
  PROVE  Placed
<1>1. Unmixed' = Unmixed
  BY DEF Unmixed
<1>2. NoLateCall => NoLateCall'
  BY DEF NoLateCall
<1>3. FreshCalls'
  BY DEF FreshInv, FreshCalls
<1>4. FreshPrefetches'
  BY <1>1, <1>2 DEF FreshInv, FreshPrefetches
<1> QED
  BY <1>1, <1>3, <1>4 DEF Placed, FreshInv

\* Scrolling and an ignored callback.
LEMMA CallbackPlaced ==
  ASSUME FreshInv, UNCHANGED <<query, store, loads, cache, prefetches, navs>>
  PROVE  Placed
<1>1. FreshBuffer'
  BY DEF FreshInv, FreshBuffer, NoLateCall, Unmixed, Continues
<1> QED
  BY <1>1, QuietPlaced

\* A call that begins holds what is on screen, and no other is out.
LEMMA WaitPlaced ==
  ASSUME IInv, FreshInv, NEW s \in LoadSlots, ReachEndWait(s)
  PROVE  Placed
<1> DEFINE from == IF CacheInFlight(Len(store.data)) THEN cache.pid ELSE 0
<1>1. /\ loads' = [loads EXCEPT ![s] = Captured(from)]
      /\ store' = [store EXCEPT !.isLoadingMore = TRUE]
      /\ UNCHANGED <<query, cache, prefetches, navs>>
      /\ ~isFetching
  BY DEF ReachEndWait, MayBegin
<1>2. /\ loads \in [LoadSlots -> LoadState] /\ store \in DataState /\ navs \in Nat
      /\ \A t \in LoadSlots : ~loads[t].on
  BY <1>1, PagingAssumption DEF IInv, TypeOK, SingleFlight
<1>3. store'.data = store.data
  BY <1>1, <1>2 DEF DataState
<1>4. /\ Captured(from).rows = store.data /\ Captured(from).query = query
      /\ Captured(from).nav = navs
  BY DEF Captured
<1> HIDE DEF from
<1>5. /\ loads'[s] = Captured(from)
      /\ \A t \in LoadSlots \ {s} : ~loads'[t].on
  BY <1>1, <1>2
<1>6. Unmixed' = Unmixed /\ NoLateCall' /\ FreshCalls'
  BY <1>1, <1>2, <1>3, <1>4, <1>5 DEF Unmixed, NoLateCall, FreshCalls
<1>7. FreshPrefetches'
  BY <1>1, <1>6 DEF FreshInv, FreshPrefetches
<1>8. FreshBuffer'
  BY <1>1, <1>6 DEF FreshInv, FreshBuffer, Continues
<1> QED
  BY <1>6, <1>7, <1>8 DEF Placed, FreshInv

\* Landing keeps the invariant: the prefetch it sends reads from where the rows
\* end, and one that was sent before stands where it stood.
LEMMA LandFresh ==
  ASSUME IInv, FreshInv, NEW load \in LoadState, NEW response \in Response,
         load.nav <= navs,
         load.nav = navs => load.rows = store.data /\ load.query = query,
         load.nav # navs => ~NoLateCall,
         NEW rest \in [Pids -> PrefetchState],
         \A p \in Pids : rest[p].on => rest[p] = prefetches[p],
         Land(load, response, rest), UNCHANGED <<query, navs>>,
         \A s \in LoadSlots : ~loads'[s].on
  PROVE  FreshInv'
<1> DEFINE next == Combined(load, response)
<1>1. store' = next /\ Refill(next, load, rest)
  BY DEF Land
<1>2. next \in DataState /\ next.data = load.rows \o response.rows
  BY CombinedFacts
<1> HIDE DEF next
<1>3. /\ cache'.kind # "data"
      /\ \A p \in Pids : prefetches'[p] = rest[p] \/ prefetches'[p] = Sent(load, next.data)
  BY <1>1, <1>2, RefillFacts
<1>4. load.nav = navs /\ Unmixed' => Unmixed
  <2> SUFFICES ASSUME load.nav = navs, Unmixed', NEW i \in 1..Len(store.data)
               PROVE  store.data[i] = [query |-> query, rank |-> i]
    BY DEF Unmixed
  <2>1. store.data \in Seq(Row) /\ response.rows \in Seq(Row)
    BY DEF IInv, TypeOK, DataState, Response
  <2>2. store'.data = store.data \o response.rows
    BY <1>1, <1>2
  <2>3. /\ i \in 1..Len(store.data \o response.rows)
        /\ (store.data \o response.rows)[i] = store.data[i]
    BY <2>1, Appended
  <2> QED
    BY <2>2, <2>3 DEF Unmixed
<1>5. FreshCalls' /\ NoLateCall' /\ FreshBuffer'
  BY <1>3 DEF FreshCalls, NoLateCall, FreshBuffer
<1>6. ASSUME NEW p \in Pids, prefetches'[p].on
      PROVE  /\ prefetches'[p].nav <= navs'
             /\ prefetches'[p].nav = navs' =>
                  /\ prefetches'[p].query = query'
                  /\ Unmixed' => prefetches'[p].start = prefetches'[p].skip
  <2>1. CASE prefetches'[p] = rest[p]
    BY <1>4, <1>6, <2>1 DEF FreshInv, FreshPrefetches
  <2>2. CASE prefetches'[p] = Sent(load, next.data)
    <3>1. /\ prefetches'[p].nav = load.nav /\ prefetches'[p].query = load.query
          /\ prefetches'[p].start = Start(load.query, next.data)
          /\ prefetches'[p].skip = Len(next.data)
      BY <2>2 DEF Sent
    <3>2. load.query \in Queries /\ next.data \in Seq(Row)
      BY <1>2 DEF LoadState, DataState
    <3>3. Unmixed' => Continues(next.data, query, 0)
      BY <1>1 DEF Unmixed, Continues
    <3> QED
      BY <3>1, <3>2, <3>3, StartFacts
  <2> QED
    BY <1>3, <2>1, <2>2
<1>7. FreshPrefetches'
  BY <1>5, <1>6 DEF FreshPrefetches
<1> QED
  BY <1>5, <1>7 DEF FreshInv

\* A page that continues the rows on screen leaves them unmixed.
LEMMA JoinUnmixed ==
  ASSUME IInv, NEW load, NEW response \in Response,
         load.rows = store.data, Unmixed,
         Continues(response.rows, query, Len(store.data)),
         store' = Combined(load, response), query' = query
  PROVE  Unmixed'
<1>1. store.data \in Seq(Row) /\ response.rows \in Seq(Row)
  BY DEF IInv, TypeOK, DataState, Response
<1>2. Continues(store.data, query, 0)
  BY <1>1, UnmixedContinues
<1>3. store'.data = store.data \o response.rows
  BY DEF Combined
<1>4. Continues(store.data \o response.rows, query, 0)
  BY <1>1, <1>2, ContinuesConcat
<1>5. Continues(store'.data, query, 0)
  BY <1>3, <1>4
<1> QED
  BY <1>5 DEF Unmixed, Continues

\* A buffered page fits, or is a late one.
LEMMA HitPlaced ==
  ASSUME IInv, FreshInv, NEW s \in LoadSlots, ReachEndHit(s)
  PROVE  Placed
<1> DEFINE load == Captured(0)
<1>1. /\ ~isFetching /\ CacheHits(Len(store.data))
      /\ Land(load, cache.response, prefetches)
      /\ UNCHANGED <<query, loads, navs>>
  BY DEF ReachEndHit, MayBegin
<1>2. /\ load \in LoadState /\ load.rows = store.data /\ load.query = query
      /\ load.nav = navs
  BY CapturedFacts
<1>3. /\ cache.response \in Response /\ prefetches \in [Pids -> PrefetchState]
      /\ navs \in Nat /\ cache.nav \in Nat
  BY PagingAssumption DEF IInv, TypeOK, CacheState
<1>4. \A t \in LoadSlots : ~loads'[t].on
  BY <1>1 DEF IInv, SingleFlight
<1> HIDE DEF load
<1>5. FreshInv'
  BY <1>1, <1>2, <1>3, <1>4, LandFresh
<1>6. ASSUME Unmixed, ~LateBuffer
      PROVE  Unmixed'
  <2>1. cache.kind = "data" /\ cache.skip = Len(store.data)
    BY <1>1 DEF CacheHits
  <2>2. cache.nav = navs
    BY <1>3, <1>6, <2>1 DEF LateBuffer, FreshInv, FreshBuffer
  <2>3. Continues(cache.response.rows, query, Len(store.data))
    BY <1>6, <2>1, <2>2 DEF FreshInv, FreshBuffer
  <2>4. store' = Combined(load, cache.response)
    BY <1>1 DEF Land
  <2> QED
    BY <1>1, <1>2, <1>3, <1>6, <2>3, <2>4, JoinUnmixed
<1> QED
  BY <1>5, <1>6 DEF Placed

\* An answer fits the call it returns, unless one of the two is late.
LEMMA AnswerPlaced ==
  ASSUME IInv, FreshInv, NEW s \in LoadSlots, loads[s].on,
         NEW response \in Response, NEW rest \in [Pids -> PrefetchState],
         \A p \in Pids : rest[p].on => rest[p] = prefetches[p],
         Land(loads[s], response, rest), Return(s), UNCHANGED <<query, navs>>,
         Unmixed /\ loads[s].nav = navs =>
           LateReturn \/ Continues(response.rows, query, Len(store.data))
  PROVE  Placed
<1>1. /\ loads \in [LoadSlots -> LoadState] /\ loads[s] \in LoadState
      /\ navs \in Nat /\ loads[s].nav \in Nat
  BY PagingAssumption DEF IInv, TypeOK, LoadState
<1>2. \A t \in LoadSlots : ~loads'[t].on
  BY <1>1 DEF Return, IInv, SingleFlight, NoLoad
<1>3. /\ loads[s].nav <= navs
      /\ loads[s].nav = navs => loads[s].rows = store.data /\ loads[s].query = query
      /\ loads[s].nav # navs => ~NoLateCall
  BY DEF FreshInv, FreshCalls, NoLateCall
<1>4. FreshInv'
  BY <1>1, <1>2, <1>3, LandFresh
<1>5. loads[s].nav < navs => LateReturn
  BY <1>2 DEF LateReturn
<1>6. ASSUME Unmixed, ~LateReturn
      PROVE  Unmixed'
  <2>1. loads[s].nav = navs /\ loads[s].rows = store.data
    BY <1>1, <1>3, <1>5, <1>6
  <2>2. store' = Combined(loads[s], response)
    BY DEF Land
  <2> QED
    BY <1>6, <2>1, <2>2, JoinUnmixed
<1> QED
  BY <1>4, <1>6 DEF Placed

\* A request of a call's own settles.
LEMMA FetchPlaced ==
  ASSUME IInv, FreshInv, NEW s \in LoadSlots, FetchResolves(s) \/ FetchRejects(s)
  PROVE  Placed
<1>1. CASE FetchResolves(s)
  <2> DEFINE load == loads[s]
             start == Start(load.query, load.rows)
  <2>1. PICK response \in Responses(load.query, start) :
          /\ load.on /\ Land(load, response, prefetches) /\ Return(s)
          /\ UNCHANGED <<query, navs>>
    BY <1>1 DEF FetchResolves
  <2>2. load.query \in Queries /\ load.rows \in Seq(Row)
        /\ prefetches \in [Pids -> PrefetchState]
    BY DEF IInv, TypeOK, LoadState
  <2>3. response \in Response /\ Continues(response.rows, load.query, start)
    BY <2>1, <2>2, StartFacts, ResponseFacts
  <2>4. ASSUME Unmixed, load.nav = navs
        PROVE  Continues(response.rows, query, Len(store.data))
    <3>1. load.rows = store.data /\ load.query = query
      BY <2>1, <2>4 DEF FreshInv, FreshCalls
    <3>2. start = Len(store.data)
      BY <2>2, <2>4, <3>1, StartFacts, UnmixedContinues
    <3> QED
      BY <2>3, <3>1, <3>2
  <2> QED
    BY <2>1, <2>2, <2>3, <2>4, AnswerPlaced
<1>2. CASE FetchRejects(s)
  <2>1. /\ store' = Failed(store) /\ loads' = [loads EXCEPT ![s] = NoLoad]
        /\ UNCHANGED <<query, cache, prefetches, navs>>
    BY <1>2 DEF FetchRejects, Return
  <2>2. store \in DataState /\ loads \in [LoadSlots -> LoadState]
    BY DEF IInv, TypeOK
  <2>3. store'.data = store.data
    BY <2>1, <2>2, FailedFacts
  <2>4. \A t \in LoadSlots : loads'[t].on => loads'[t] = loads[t]
    BY <2>1, <2>2 DEF NoLoad
  <2>5. FreshBuffer'
    BY <2>1, <2>3, <2>4 DEF FreshInv, FreshBuffer, NoLateCall, Unmixed, Continues
  <2> QED
    BY <2>1, <2>3, <2>4, <2>5, QuietPlaced
<1> QED
  BY <1>1, <1>2

\* A prefetch settles: it answers the call that waits for it, or is adopted.
LEMMA PrefetchPlaced ==
  ASSUME IInv, FreshInv, NEW p \in Pids, PrefetchResolves(p) \/ PrefetchRejects(p)
  PROVE  Placed
<1> DEFINE prefetch == prefetches[p]
<1>1. /\ prefetch.on /\ UNCHANGED <<query, navs>>
      /\ prefetch.query \in Queries /\ prefetch.start \in Nat
      /\ prefetch.nav \in Nat /\ navs \in Nat
      /\ prefetches \in [Pids -> PrefetchState] /\ loads \in [LoadSlots -> LoadState]
      /\ store \in DataState
  BY PagingAssumption DEF PrefetchResolves, PrefetchRejects, IInv, TypeOK, PrefetchState
<1>2. /\ Settled(p) \in [Pids -> PrefetchState]
      /\ \A o \in Pids : Settled(p)[o].on => Settled(p)[o] = prefetches[o]
  BY <1>1, Blanks DEF Settled, NoPrefetch
<1>3. CASE PrefetchResolves(p)
  <2>1. PICK response \in Responses(prefetch.query, prefetch.start) :
          \/ /\ cache' = Adopt(p, Resolved(p, response))
             /\ prefetches' = Settled(p)
             /\ UNCHANGED <<store, loads>>
          \/ \E s \in LoadSlots :
               /\ Waiting(s, p)
               /\ Land(loads[s], response, Settled(p))
               /\ Return(s)
    BY <1>3 DEF PrefetchResolves
  <2>2. /\ response \in Response
        /\ Continues(response.rows, prefetch.query, prefetch.start)
    BY <1>1, <2>1, ResponseFacts
  <2>3. ASSUME prefetch.nav = navs, Unmixed
        PROVE  Continues(response.rows, query, prefetch.skip)
    BY <1>1, <2>2, <2>3 DEF FreshInv, FreshPrefetches
  <2>4. CASE /\ cache' = Adopt(p, Resolved(p, response))
             /\ prefetches' = Settled(p)
             /\ UNCHANGED <<store, loads>>
    <3>1. Unmixed' = Unmixed /\ NoLateCall' = NoLateCall
      BY <1>1, <2>4 DEF Unmixed, NoLateCall
    <3>2. FreshBuffer'
      <4>1. CASE cache' = Resolved(p, response)
        <5>1. /\ cache'.nav = prefetch.nav /\ cache'.skip = prefetch.skip
              /\ cache'.response = response
          BY <4>1 DEF Resolved
        <5>2. prefetch.nav <= navs /\ (prefetch.nav = navs => NoLateCall)
          BY <1>1 DEF FreshInv, FreshPrefetches
        <5> QED
          BY <1>1, <2>3, <3>1, <5>1, <5>2 DEF FreshBuffer
      <4>2. CASE cache' = cache
        BY <1>1, <3>1, <4>2 DEF FreshInv, FreshBuffer
      <4> QED
        BY <2>4, <4>1, <4>2 DEF Adopt
    <3> QED
      BY <1>1, <1>2, <2>4, <3>2, QuietPlaced
  <2>5. ASSUME NEW s \in LoadSlots, Waiting(s, p),
               Land(loads[s], response, Settled(p)), Return(s)
        PROVE  Placed
    <3>1. /\ loads[s].on /\ loads[s].from = p /\ p # 0
          /\ prefetch.skip = Len(loads[s].rows)
      BY <2>5, PagingAssumption DEF Waiting, IInv, BufferLive
    <3>2. ~loads'[s].on
      BY <1>1, <2>5 DEF Return, NoLoad
    <3>3. prefetch.nav < navs => LateReturn
      BY <3>1, <3>2 DEF LateReturn
    <3>4. prefetch.nav <= navs
      BY <1>1 DEF FreshInv, FreshPrefetches
    <3>5. loads[s].nav = navs => loads[s].rows = store.data
      BY <3>1 DEF FreshInv, FreshCalls
    <3>6. Unmixed /\ loads[s].nav = navs =>
            LateReturn \/ Continues(response.rows, query, Len(store.data))
      BY <1>1, <2>3, <3>1, <3>3, <3>4, <3>5
    <3> QED
      BY <1>1, <1>2, <2>2, <2>5, <3>1, <3>6, AnswerPlaced
  <2> QED
    BY <2>1, <2>4, <2>5
<1>4. CASE PrefetchRejects(p)
  <2>1. /\ cache' = Adopt(p, EmptyCache) /\ prefetches' = Settled(p)
        /\ \/ UNCHANGED <<store, loads>>
           \/ \E s \in LoadSlots :
                store' = Failed(store) /\ loads' = [loads EXCEPT ![s] = NoLoad]
    BY <1>4 DEF PrefetchRejects, Return
  <2>2. /\ store'.data = store.data
        /\ \A t \in LoadSlots : loads'[t].on => loads'[t] = loads[t]
    <3>1. ASSUME NEW s \in LoadSlots, store' = Failed(store),
                 loads' = [loads EXCEPT ![s] = NoLoad]
          PROVE  /\ store'.data = store.data
                 /\ \A t \in LoadSlots : loads'[t].on => loads'[t] = loads[t]
      <4>1. store'.data = store.data
        BY <1>1, <3>1, FailedFacts
      <4>2. \A t \in LoadSlots : loads'[t].on => loads'[t] = loads[t]
        BY <1>1, <3>1 DEF NoLoad
      <4> QED
        BY <4>1, <4>2
    <3> QED
      BY <2>1, <3>1
  <2>3. cache'.kind = "data" => cache' = cache
    BY <2>1 DEF Adopt, EmptyCache
  <2>4. FreshBuffer'
    BY <1>1, <2>2, <2>3 DEF FreshInv, FreshBuffer, NoLateCall, Unmixed, Continues
  <2> QED
    BY <1>1, <1>2, <2>1, <2>2, <2>4, QuietPlaced
<1> QED
  BY <1>3, <1>4

\* Every step puts rows in their place, or shows something late.
LEMMA NextPlaced == IInv /\ FreshInv /\ [Next]_vars => Placed
<1> SUFFICES ASSUME IInv, FreshInv, [Next]_vars PROVE Placed
  OBVIOUS
<1>1. CASE \E q \in Queries : Navigate(q)
  BY <1>1, NavigatePlaced
<1>2. CASE ScrollToEnd \/ ReachEndIgnored \/ UNCHANGED vars
  BY <1>2, CallbackPlaced DEF ScrollToEnd, ReachEndIgnored, vars
<1>3. CASE ReachEnd
  BY <1>2, <1>3, HitPlaced, WaitPlaced DEF ReachEnd
<1>4. CASE Settle
  BY <1>4, FetchPlaced, PrefetchPlaced DEF Settle
<1> QED
  BY <1>1, <1>2, <1>3, <1>4 DEF Next

\* Through any navigations, calls, buffered pages and failures, by cursor or by
\* offset, rows go missing, repeat or come from another query only with an
\* answer or a page of an earlier render (executeFetchMore, toKeysetCursor).
THEOREM RowsInPlace == Spec => OnlyLateAnswersMix
<1> DEFINE Mix == Unmixed /\ ~Unmixed' => LateReturn \/ LateBuffer
<1>1. Init => FreshInv
  BY InitFresh
<1>2. IInv /\ FreshInv /\ [Next]_vars => Mix /\ FreshInv'
  BY NextPlaced DEF Placed
<1> HIDE DEF Mix
<1>3. [][Mix]_vars => OnlyLateAnswersMix
  BY PTL DEF OnlyLateAnswersMix, Mix
<1> QED
  BY <1>1, <1>2, <1>3, Invariance, PTL DEF Spec

-----------------------------------------------------------------------------
(* One query.  Everything shown, captured, buffered or asked for is then a  *)
(* prefix of the same result, and a call's capture is never shorter than    *)
(* what is on screen, although a re-read may have cut the screen back.      *)

\* A response that fits after `skip` rows of the only query.
Fits(response, skip) ==
  /\ Continues(response.rows, TheQuery, skip)
  /\ skip + Len(response.rows) <= Rows[TheQuery]
  /\ response.total = -1 \/ (response.total = 0 /\ "refused" \in FaultKinds)

\* A state whose rows and total come from the only query.
Whence(data, total, hasMore) ==
  /\ Len(data) <= Rows[TheQuery]
  /\ total = Rows[TheQuery] \/ (total = 0 /\ ~hasMore /\ "refused" \in FaultKinds)

\* A prefetch that is answered from where it will be put.
InPlace(prefetch) == prefetch.start = prefetch.skip /\ prefetch.skip <= Rows[TheQuery]

OneInv ==
  /\ Continues(store.data, TheQuery, 0)
  /\ Whence(store.data, store.total, store.hasMore)
  /\ store.hasMore => Available(TheQuery, 0, FirstPage) <= Len(store.data)
  /\ \A s \in LoadSlots : loads[s].on =>
       /\ loads[s].total = Rows[TheQuery]
       /\ Len(store.data) <= Len(loads[s].rows)
       /\ Available(TheQuery, 0, FirstPage) <= Len(loads[s].rows)
       /\ Continues(loads[s].rows, TheQuery, 0)
  /\ cache.kind = "data" => Fits(cache.response, cache.skip)
  /\ \A p \in Pids : prefetches[p].on => InPlace(prefetches[p])

\* The only query is a query, and no other is.
LEMMA Only ==
  ASSUME Queries = {TheQuery}, NEW q \in Queries
  PROVE  q = TheQuery
  OBVIOUS

\* The first page is no longer than the result.
LEMMA SeededWhence ==
  /\ Seeded(TheQuery).data \in Seq(Row)
  /\ Continues(Seeded(TheQuery).data, TheQuery, 0)
  /\ Len(Seeded(TheQuery).data) = Available(TheQuery, 0, FirstPage)
  /\ Available(TheQuery, 0, FirstPage) <= Rows[TheQuery]
  /\ Seeded(TheQuery).total = Rows[TheQuery]
  /\ Seeded(TheQuery).hasMore = (Available(TheQuery, 0, FirstPage) < Rows[TheQuery])
<1>1. TheQuery \in Queries
  BY PagingAssumption DEF TheQuery
<1>2. /\ Available(TheQuery, 0, FirstPage) \in Nat
      /\ 0 <= Rows[TheQuery] => 0 + Available(TheQuery, 0, FirstPage) <= Rows[TheQuery]
  BY <1>1, Sizes, AvailableBounds
<1>3. Rows[TheQuery] \in Nat
  BY <1>1, Sizes
<1>4. /\ RowsAfter(TheQuery, 0, Available(TheQuery, 0, FirstPage)) \in Seq(Row)
      /\ Continues(RowsAfter(TheQuery, 0, Available(TheQuery, 0, FirstPage)), TheQuery, 0)
      /\ Len(RowsAfter(TheQuery, 0, Available(TheQuery, 0, FirstPage)))
           = Available(TheQuery, 0, FirstPage)
  BY <1>1, <1>2, <1>3, RowsAfterFacts
<1>5. Seeded(TheQuery).data = RowsAfter(TheQuery, 0, Available(TheQuery, 0, FirstPage))
  BY DEF Seeded
<1>6. /\ Seeded(TheQuery).total = Rows[TheQuery]
      /\ Seeded(TheQuery).hasMore = (Rows[TheQuery] > Available(TheQuery, 0, FirstPage))
  BY DEF Seeded
<1> QED
  BY <1>2, <1>3, <1>4, <1>5, <1>6

\* An answer for the only query fits where it was asked for.
LEMMA AnswerFits ==
  ASSUME Queries = {TheQuery}, NEW q \in Queries, NEW skip \in Nat,
         skip <= Rows[TheQuery], NEW response \in Responses(q, skip),
         Answered(q, skip, response)
  PROVE  Fits(response, skip)
<1>1. q = TheQuery /\ Rows[q] \in Nat /\ Page \in Nat
  BY Only, Sizes
<1>2. /\ Available(q, skip, Page) \in Nat
      /\ skip + Available(q, skip, Page) <= Rows[TheQuery]
  BY <1>1, AvailableBounds
<1>0. Continues(response.rows, TheQuery, skip)
  BY <1>1, ResponseFacts
<1>3. CASE response = Whole(q, skip)
  <2>1. response.rows = RowsAfter(q, skip, Available(q, skip, Page)) /\ response.total = -1
    BY <1>3 DEF Whole
  <2>2. Len(RowsAfter(q, skip, Available(q, skip, Page))) = Available(q, skip, Page)
    BY <1>2, RowsAfterFacts
  <2> QED
    BY <1>0, <1>2, <2>1, <2>2 DEF Fits
<1>4. CASE response \in Short(q, skip)
  <2>1. PICK n \in {m \in 0..Page : m < Available(q, skip, Page)} :
          response = [query |-> q, rows |-> RowsAfter(q, skip, n), total |-> -1]
    BY <1>4 DEF Short
  <2>2. n \in Nat /\ n < Available(q, skip, Page) /\ skip + n <= Rows[q]
    BY <1>1, <1>2, <2>1
  <2>3. Len(RowsAfter(q, skip, n)) = n
    BY <2>2, RowsAfterFacts
  <2>4. response.rows = RowsAfter(q, skip, n) /\ response.total = -1
    BY <2>1
  <2> QED
    BY <1>0, <1>1, <1>2, <2>2, <2>3, <2>4 DEF Fits
<1>5. CASE response = Refused(q) /\ Fault("refused")
  BY <1>0, <1>1, <1>5 DEF Refused, Fault, Fits
<1> QED
  BY <1>3, <1>4, <1>5 DEF Answered

\* Only a navigation shortens the list.
Grows ==
  navs' = navs => store'.data = store.data \/ Len(store.data) <= Len(store'.data)

\* The view takes a step or stutters, the list grows, and OneInv survives.
ViewStep ==
  (View!Next \/ UNCHANGED <<Len(store.data), store.hasMore>>) /\ Grows /\ OneInv'

\* A navigation restarts the view, or is refused.
LEMMA NavigateView ==
  ASSUME Queries = {TheQuery}, IInv, OneInv, NEW q \in Queries, Navigate(q)
  PROVE  ViewStep
<1>1. q = TheQuery /\ Rows[TheQuery] \in Nat
  BY Only, Sizes
<1>2. UNCHANGED <<loads, cache, prefetches>>
  BY DEF Navigate
<1>3. Grows
  BY PagingAssumption DEF Navigate, IInv, TypeOK, Grows
<1>4. CASE store' = Seeded(q)
  <2>1. Len(store'.data) = Available(TheQuery, 0, FirstPage)
        /\ store'.hasMore = (Available(TheQuery, 0, FirstPage) < Rows[TheQuery])
    BY <1>1, <1>4, SeededWhence
  <2>2. View!Restart
    BY <2>1 DEF View!Restart
  <2>3. ASSUME NEW s \in LoadSlots, loads[s].on
        PROVE  Len(store'.data) <= Len(loads[s].rows)
    BY <1>2, <2>1, <2>3 DEF OneInv
  <2>4. store'.total = Rows[TheQuery]
    BY <1>1, <1>4, SeededWhence
  <2>5. OneInv'
    BY <1>1, <1>2, <1>4, <2>1, <2>3, <2>4, SeededWhence DEF OneInv, Whence
  <2> QED
    BY <1>3, <2>2, <2>5 DEF ViewStep, View!Next
<1>5. CASE store' = SeededRefusal /\ Fault("refused")
  <2>1. Len(store'.data) = 0 /\ store'.total = 0 /\ store'.hasMore = FALSE
        /\ "refused" \in FaultKinds
    BY <1>5 DEF SeededRefusal, Fault
  <2>2. View!Refuse
    BY <2>1 DEF View!Refuse
  <2>3. \A s \in LoadSlots : Len(loads[s].rows) \in Nat
    BY DEF IInv, TypeOK, LoadState
  <2>4. Continues(store'.data, TheQuery, 0)
    BY <2>1 DEF Continues
  <2>5. OneInv'
    BY <1>1, <1>2, <2>1, <2>3, <2>4 DEF OneInv, Whence
  <2> QED
    BY <1>3, <2>2, <2>5 DEF ViewStep, View!Next
<1> QED
  BY <1>4, <1>5 DEF Navigate

\* Joining captured rows and a fitting answer gives a longer prefix of the
\* result, which offers more exactly until its end unless refused.
LEMMA CombinedFits ==
  ASSUME NEW load \in LoadState, NEW response \in Response,
         NEW size \in Nat, load.total = size, Rows[TheQuery] = size,
         Continues(load.rows, TheQuery, 0), Fits(response, Len(load.rows))
  PROVE  /\ Continues(Combined(load, response).data, TheQuery, 0)
         /\ Len(Combined(load, response).data) \in Nat
         /\ Len(load.rows) <= Len(Combined(load, response).data)
         /\ Len(Combined(load, response).data) <= size
         /\ \/ /\ Combined(load, response).total = size
               /\ Combined(load, response).hasMore =
                    (Len(Combined(load, response).data) < size)
            \/ /\ Combined(load, response).total = 0
               /\ Combined(load, response).hasMore = FALSE
               /\ "refused" \in FaultKinds
<1> DEFINE next == Combined(load, response)
           n == Len(next.data)
           a == Len(load.rows)
           b == Len(response.rows)
<1>1. /\ load.rows \in Seq(Row) /\ a \in Nat
      /\ response.rows \in Seq(Row) /\ b \in Nat
  BY DEF LoadState, Response
<1>2. /\ next.data = load.rows \o response.rows
      /\ next.total = IF response.total = -1 THEN load.total ELSE response.total
      /\ next.hasMore = (next.total > n)
  BY DEF Combined
<1>3. n = a + b
  BY <1>1, <1>2
<1>4. /\ a + b <= size
      /\ response.total = -1 \/ (response.total = 0 /\ "refused" \in FaultKinds)
  BY DEF Fits
<1>0. Continues(next.data, TheQuery, 0)
  BY <1>1, <1>2, ContinuesConcat DEF Fits
<1> SUFFICES /\ n \in Nat /\ a <= n /\ n <= size
             /\ \/ next.total = size /\ next.hasMore = (n < size)
                \/ next.total = 0 /\ next.hasMore = FALSE /\ "refused" \in FaultKinds
  BY <1>0
<1> HIDE DEF next, n, a, b
<1>5. n \in Nat /\ a <= n /\ n <= size
  BY <1>1, <1>3, <1>4
<1>6. CASE response.total = -1
  <2>1. next.total = size
    BY <1>2, <1>6
  <2>2. next.hasMore = (n < size)
    BY <1>2, <1>5, <2>1
  <2> QED
    BY <1>5, <2>1, <2>2
<1>7. CASE response.total = 0 /\ "refused" \in FaultKinds
  <2>1. next.total = 0
    BY <1>2, <1>7
  <2>2. (0 > n) = FALSE
    BY <1>5
  <2>3. next.hasMore = (0 > n)
    BY <1>2, <2>1
  <2>4. next.hasMore = FALSE
    BY <2>2, <2>3
  <2> QED
    BY <1>5, <1>7, <2>1, <2>4
<1> QED
  BY <1>4, <1>6, <1>7

\* A landing extends the view from what its call captured, or ends it refused.
LEMMA LandView ==
  ASSUME Queries = {TheQuery}, IInv, OneInv,
         NEW load \in LoadState, load.total = Rows[TheQuery],
         Len(store.data) <= Len(load.rows),
         Available(TheQuery, 0, FirstPage) <= Len(load.rows),
         Continues(load.rows, TheQuery, 0),
         NEW response \in Response, Fits(response, Len(load.rows)),
         NEW rest \in [Pids -> PrefetchState],
         \A p \in Pids : rest[p].on => InPlace(rest[p]),
         Land(load, response, rest),
         \A s \in LoadSlots : ~loads'[s].on
  PROVE  ViewStep
<1> DEFINE next == Combined(load, response)
           len == Len(next.data)
           size == Rows[TheQuery]
           first == Available(TheQuery, 0, FirstPage)
<1>1. /\ size \in Nat /\ Len(store.data) \in Nat /\ first \in Nat
      /\ Len(load.rows) \in Nat
  <2>1. TheQuery \in Queries
    OBVIOUS
  <2>2. size \in Nat
    BY <2>1, Sizes
  <2>3. first \in Nat
    BY <2>1, Sizes, AvailableBounds
  <2>4. Len(store.data) \in Nat
    BY DEF IInv, TypeOK, DataState
  <2>5. Len(load.rows) \in Nat
    BY DEF LoadState
  <2> QED
    BY <2>2, <2>3, <2>4, <2>5
<1>2. /\ Continues(next.data, TheQuery, 0)
      /\ len \in Nat /\ Len(load.rows) <= len /\ len <= size
      /\ \/ next.total = size /\ next.hasMore = (len < size)
         \/ next.total = 0 /\ next.hasMore = FALSE /\ "refused" \in FaultKinds
  BY <1>1, CombinedFits
<1>3. store' = next /\ Refill(next, load, rest)
  BY DEF Land
<1>4. Len(store.data) <= len /\ first <= len
  <2> DEFINE shown == Len(store.data)
             held == Len(load.rows)
  <2>1. shown \in Nat /\ first \in Nat /\ held \in Nat /\ len \in Nat
    BY <1>1, <1>2
  <2>2. shown <= held /\ first <= held /\ held <= len
    BY <1>2
  <2> HIDE DEF shown, first, held, len
  <2>3. shown <= len /\ first <= len
    BY <2>1, <2>2
  <2> QED
    BY <2>3 DEF shown, first, len
<1> HIDE DEF next
<1>5. View!Extend \/ View!Refuse
  BY <1>1, <1>2, <1>3, <1>4 DEF View!Extend, View!Refuse
<1>6. /\ cache'.kind # "data"
      /\ \A p \in Pids : prefetches'[p].on => InPlace(prefetches'[p])
  <2>1. next \in DataState
    BY CombinedFacts DEF next
  <2>2. /\ cache'.kind # "data"
        /\ \A p \in Pids : prefetches'[p] = rest[p] \/ prefetches'[p] = Sent(load, next.data)
    BY <1>3, <2>1, RefillFacts
  <2>3. next.data \in Seq(Row) /\ load.query = TheQuery
    BY <2>1 DEF DataState, LoadState
  <2>4. Start(load.query, next.data) = len
    BY <1>2, <2>3, StartFacts
  <2> HIDE DEF len
  <2>5. InPlace(Sent(load, next.data))
    BY <1>2, <2>4 DEF Sent, InPlace, len
  <2> QED
    BY <2>2, <2>5
<1>7. OneInv'
  BY <1>2, <1>3, <1>4, <1>6 DEF OneInv, Whence
<1>8. Grows
  BY <1>3, <1>4 DEF Grows
<1> QED
  BY <1>5, <1>7, <1>8 DEF ViewStep, View!Next

\* A step that keeps rows and offer is a stutter of the view.
LEMMA StutterView ==
  ASSUME OneInv,
         store'.data = store.data, store'.total = store.total,
         store'.hasMore = store.hasMore,
         \A s \in LoadSlots : loads'[s].on =>
           /\ loads'[s].total = Rows[TheQuery]
           /\ Len(store.data) <= Len(loads'[s].rows)
           /\ Available(TheQuery, 0, FirstPage) <= Len(loads'[s].rows)
           /\ Continues(loads'[s].rows, TheQuery, 0),
         cache'.kind = "data" => Fits(cache'.response, cache'.skip),
         \A p \in Pids : prefetches'[p].on => InPlace(prefetches'[p])
  PROVE  ViewStep
<1>1. OneInv'
  BY DEF OneInv, Whence
<1> QED
  BY <1>1 DEF ViewStep, Grows

\* Scrolling and an ignored callback show nothing new.
LEMMA CallbackView ==
  ASSUME OneInv, ScrollToEnd \/ ReachEndIgnored
  PROVE  ViewStep
<1>1. UNCHANGED <<store, loads, cache, prefetches>>
  BY DEF ScrollToEnd, ReachEndIgnored
<1> QED
  BY <1>1, StutterView DEF OneInv

\* A call that starts to wait shows nothing new, and captures what is shown.
LEMMA WaitView ==
  ASSUME IInv, OneInv, NEW s \in LoadSlots, ReachEndWait(s)
  PROVE  ViewStep
<1> DEFINE from == IF CacheInFlight(Len(store.data)) THEN cache.pid ELSE 0
<1>1. /\ store.hasMore
      /\ store' = [store EXCEPT !.isLoadingMore = TRUE]
      /\ loads' = [loads EXCEPT ![s] = Captured(from)]
      /\ UNCHANGED <<cache, prefetches>>
  BY DEF ReachEndWait, MayBegin
<1>2. store \in DataState /\ loads \in [LoadSlots -> LoadState] /\ store.data \in Seq(Row)
  BY DEF IInv, TypeOK, DataState
<1>3. /\ store'.data = store.data /\ store'.total = store.total
      /\ store'.hasMore = store.hasMore
  BY <1>1, <1>2 DEF DataState
<1>4. Captured(from).rows = store.data /\ Captured(from).total = store.total
  BY DEF Captured
<1> HIDE DEF from
<1>5. store.total = Rows[TheQuery] /\ Available(TheQuery, 0, FirstPage) <= Len(store.data)
  BY <1>1 DEF OneInv, Whence
<1>6. Len(store.data) <= Len(store.data)
  BY <1>2
<1>7. ASSUME NEW t \in LoadSlots, loads'[t].on
      PROVE  /\ loads'[t].total = Rows[TheQuery]
             /\ Len(store.data) <= Len(loads'[t].rows)
             /\ Available(TheQuery, 0, FirstPage) <= Len(loads'[t].rows)
             /\ Continues(loads'[t].rows, TheQuery, 0)
  <2>1. CASE t = s
    BY <1>1, <1>2, <1>4, <1>5, <1>6, <2>1 DEF OneInv
  <2>2. CASE t # s
    BY <1>1, <1>2, <1>7, <2>2 DEF OneInv
  <2> QED
    BY <2>1, <2>2
<1> QED
  BY <1>1, <1>3, <1>7, StutterView DEF OneInv

\* A buffered page extends the view from what is shown.
LEMMA HitView ==
  ASSUME Queries = {TheQuery}, IInv, OneInv, NEW s \in LoadSlots, ReachEndHit(s)
  PROVE  ViewStep
<1> DEFINE load == Captured(0)
<1>1. /\ ~isFetching /\ store.hasMore /\ UNCHANGED loads
      /\ CacheHits(Len(store.data))
      /\ Land(load, cache.response, prefetches)
  BY DEF ReachEndHit, MayBegin
<1>2. load \in LoadState /\ load.rows = store.data /\ load.total = store.total
  BY CapturedFacts
<1>3. /\ cache.response \in Response /\ prefetches \in [Pids -> PrefetchState]
      /\ store.data \in Seq(Row)
  BY DEF IInv, TypeOK, CacheState, DataState
<1>4. \A t \in LoadSlots : ~loads'[t].on
  BY <1>1 DEF IInv, SingleFlight
<1>5. store.total = Rows[TheQuery] /\ Available(TheQuery, 0, FirstPage) <= Len(store.data)
  BY <1>1 DEF OneInv, Whence
<1>6. Fits(cache.response, Len(load.rows))
  BY <1>1, <1>2 DEF CacheHits, OneInv
<1>7. Len(store.data) <= Len(store.data)
  BY <1>3
<1>8. /\ \A p \in Pids : prefetches[p].on => InPlace(prefetches[p])
      /\ Continues(store.data, TheQuery, 0)
  BY DEF OneInv
<1> HIDE DEF load
<1> QED
  BY <1>1, <1>2, <1>3, <1>4, <1>5, <1>6, <1>7, <1>8, LandView

\* A request of its own answers a call.
LEMMA FetchView ==
  ASSUME Queries = {TheQuery}, IInv, OneInv, NEW s \in LoadSlots, FetchResolves(s)
  PROVE  ViewStep
<1> DEFINE load == loads[s]
           skip == Len(load.rows)
           start == Start(load.query, load.rows)
<1>1. PICK response \in Responses(load.query, start) :
        /\ load.on
        /\ Answered(load.query, start, response)
        /\ Land(load, response, prefetches)
        /\ Return(s)
  BY DEF FetchResolves
<1>2. load \in LoadState /\ load.query \in Queries /\ load.rows \in Seq(Row)
      /\ skip \in Nat /\ prefetches \in [Pids -> PrefetchState]
  BY DEF IInv, TypeOK, LoadState
<1>3. /\ load.total = Rows[TheQuery]
      /\ Len(store.data) <= Len(load.rows)
      /\ Available(TheQuery, 0, FirstPage) <= Len(load.rows)
      /\ Continues(load.rows, TheQuery, 0)
      /\ \A p \in Pids : prefetches[p].on => InPlace(prefetches[p])
  BY <1>1 DEF OneInv
<1>4. start = skip
  BY <1>2, <1>3, Only, StartFacts
<1>5. response \in Response
  BY <1>1, <1>2, <1>4, ResponseFacts
<1>6. skip <= Rows[TheQuery]
  BY <1>1, <1>2, <1>3, Sizes DEF IInv, HasMoreHonest
<1>7. Fits(response, skip)
  BY <1>1, <1>2, <1>4, <1>6, AnswerFits
<1>8. \A t \in LoadSlots : ~loads'[t].on
  BY <1>1 DEF Return, IInv, TypeOK, SingleFlight, NoLoad
<1> HIDE DEF load
<1> QED
  BY <1>1, <1>2, <1>3, <1>5, <1>7, <1>8, LandView DEF load

\* A failed call shows nothing new.
LEMMA FailView ==
  ASSUME IInv, OneInv, NEW s \in LoadSlots, loads[s].on,
         store' = Failed(store), Return(s),
         cache'.kind = "data" => Fits(cache'.response, cache'.skip),
         \A p \in Pids : prefetches'[p].on => InPlace(prefetches'[p])
  PROVE  ViewStep
<1>1. store \in DataState /\ loads \in [LoadSlots -> LoadState]
  BY DEF IInv, TypeOK
<1>2. /\ store'.data = store.data /\ store'.total = store.total
      /\ store'.hasMore = store.hasMore
  BY <1>1, FailedFacts
<1>3. \A t \in LoadSlots : ~loads'[t].on
  BY <1>1 DEF Return, IInv, SingleFlight, NoLoad
<1> QED
  BY <1>2, <1>3, StutterView

\* A settled prefetch answers the call that waits, or fills the buffer.
LEMMA PrefetchView ==
  ASSUME Queries = {TheQuery}, IInv, OneInv, NEW p \in Pids, PrefetchResolves(p)
  PROVE  ViewStep
<1> DEFINE q == prefetches[p].query
           skip == prefetches[p].skip
<1>1. /\ prefetches[p].on /\ q \in Queries /\ skip \in Nat
      /\ prefetches \in [Pids -> PrefetchState]
      /\ prefetches[p].start = skip /\ skip <= Rows[TheQuery]
  BY DEF PrefetchResolves, IInv, TypeOK, PrefetchState, OneInv, InPlace
<1>2. PICK response \in Responses(q, skip) :
        /\ Answered(q, skip, response)
        /\ \/ /\ cache' = Adopt(p, Resolved(p, response))
              /\ prefetches' = Settled(p)
              /\ UNCHANGED <<store, loads>>
           \/ \E s \in LoadSlots :
                /\ Waiting(s, p)
                /\ Land(loads[s], response, Settled(p))
                /\ Return(s)
  BY <1>1 DEF PrefetchResolves
<1>3. response \in Response
  BY <1>1, <1>2, ResponseFacts
<1>4. Fits(response, skip)
  BY <1>1, <1>2, AnswerFits
<1>5. /\ Settled(p) \in [Pids -> PrefetchState]
      /\ \A o \in Pids : Settled(p)[o].on => InPlace(Settled(p)[o])
  BY <1>1, Blanks DEF Settled, NoPrefetch, OneInv
<1>6. CASE /\ cache' = Adopt(p, Resolved(p, response))
           /\ prefetches' = Settled(p)
           /\ UNCHANGED <<store, loads>>
  <2>1. cache'.kind = "data" => Fits(cache'.response, cache'.skip)
    BY <1>4, <1>6 DEF Adopt, Resolved, OneInv
  <2> QED
    BY <1>5, <1>6, <2>1, StutterView DEF OneInv
<1>7. CASE \E s \in LoadSlots :
             Waiting(s, p) /\ Land(loads[s], response, Settled(p)) /\ Return(s)
  <2>1. PICK s \in LoadSlots :
          Waiting(s, p) /\ Land(loads[s], response, Settled(p)) /\ Return(s)
    BY <1>7
  <2>2. loads[s].on /\ skip = Len(loads[s].rows) /\ loads[s] \in LoadState
    BY <2>1, PagingAssumption DEF Waiting, IInv, BufferLive, TypeOK
  <2>3. /\ loads[s].total = Rows[TheQuery]
        /\ Len(store.data) <= Len(loads[s].rows)
        /\ Available(TheQuery, 0, FirstPage) <= Len(loads[s].rows)
        /\ Continues(loads[s].rows, TheQuery, 0)
    BY <2>2 DEF OneInv
  <2>4. \A t \in LoadSlots : ~loads'[t].on
    BY <2>1, <2>2 DEF Return, IInv, TypeOK, SingleFlight, NoLoad
  <2>5. Fits(response, Len(loads[s].rows))
    BY <1>4, <2>2
  <2> QED
    BY <1>3, <1>5, <2>1, <2>2, <2>3, <2>4, <2>5, LandView
<1> QED
  BY <1>2, <1>6, <1>7

\* A rejected request, of a call or of a prefetch, shows nothing new.
LEMMA RejectView ==
  ASSUME IInv, OneInv,
         \/ \E s \in LoadSlots : FetchRejects(s)
         \/ \E p \in Pids : PrefetchRejects(p)
  PROVE  ViewStep
<1>1. CASE \E s \in LoadSlots : FetchRejects(s)
  <2>1. PICK s \in LoadSlots : FetchRejects(s)
    BY <1>1
  <2>2. /\ loads[s].on /\ store' = Failed(store) /\ Return(s)
        /\ UNCHANGED <<cache, prefetches>>
    BY <2>1 DEF FetchRejects
  <2> QED
    BY <2>2, FailView DEF OneInv
<1>2. CASE \E p \in Pids : PrefetchRejects(p)
  <2>1. PICK p \in Pids : PrefetchRejects(p)
    BY <1>2
  <2>2. prefetches \in [Pids -> PrefetchState]
    BY DEF IInv, TypeOK
  <2>3. /\ cache' = Adopt(p, EmptyCache)
        /\ prefetches' = Settled(p)
    BY <2>1 DEF PrefetchRejects
  <2>4. \A o \in Pids : prefetches'[o].on => InPlace(prefetches'[o])
    BY <2>2, <2>3 DEF Settled, NoPrefetch, OneInv
  <2>5. cache'.kind = "data" => Fits(cache'.response, cache'.skip)
    BY <2>3 DEF Adopt, EmptyCache, OneInv
  <2>6. CASE UNCHANGED <<store, loads>>
    BY <2>4, <2>5, <2>6, StutterView DEF OneInv
  <2>7. CASE \E s \in LoadSlots : Waiting(s, p) /\ store' = Failed(store) /\ Return(s)
    BY <2>4, <2>5, <2>7, FailView DEF Waiting
  <2> QED
    BY <2>1, <2>6, <2>7 DEF PrefetchRejects
<1> QED
  BY <1>1, <1>2

\* Both start alike.
LEMMA InitView ==
  ASSUME Queries = {TheQuery}, Init
  PROVE  View!Init /\ OneInv
<1>1. query = TheQuery /\ store = Seeded(TheQuery)
  BY DEF Init
<1>2. View!Init
  BY <1>1, SeededWhence DEF View!Init
<1>3. Available(TheQuery, 0, FirstPage) \in Nat
  BY Sizes, AvailableBounds
<1>4. /\ Continues(store.data, TheQuery, 0)
      /\ Whence(store.data, store.total, store.hasMore)
      /\ store.hasMore => Available(TheQuery, 0, FirstPage) <= Len(store.data)
  BY <1>1, <1>3, SeededWhence DEF Whence
<1>5. OneInv
  BY <1>4 DEF Init, NoLoad, EmptyCache, NoPrefetch, OneInv
<1> QED
  BY <1>2, <1>5

\* Every step is a step of the view or a stutter.
LEMMA NextView ==
  ASSUME Queries = {TheQuery}, IInv, OneInv, [Next]_vars
  PROVE  ViewStep
<1>1. CASE \E q \in Queries : Navigate(q)
  BY <1>1, NavigateView
<1>2. CASE ScrollToEnd
  BY <1>2, CallbackView
<1>3. CASE ReachEnd
  BY <1>3, CallbackView, HitView, WaitView DEF ReachEnd
<1>4. CASE Settle
  BY <1>4, FetchView, PrefetchView, RejectView DEF Settle
<1>5. CASE UNCHANGED vars
  BY <1>5, StutterView DEF vars, OneInv
<1> QED
  BY <1>1, <1>2, <1>3, <1>4, <1>5 DEF Next

\* With a single query the machinery of buffer, calls, failures and re-seeds
\* implements the view that only grows or starts again (executeFetchMore,
\* resolveFromCacheOrFetch, firePrefetch, TableDataProvider).
THEOREM Refinement ==
  ASSUME Queries = {TheQuery}
  PROVE  Spec => ImplementsView
<1>1. Init => View!Init /\ OneInv
  BY InitView
<1>2. IInv /\ OneInv /\ [Next]_vars => ViewStep
  BY NextView
<1>3. ViewStep => [View!Next]_(View!vars) /\ OneInv'
  BY DEF ViewStep, View!vars
<1> QED
  BY <1>1, <1>2, <1>3, Invariance, PTL DEF Spec, ImplementsView, View!Spec

\* Between re-reads of its only query a table only grows at its end, whatever
\* calls, buffered pages and failures come in between (commitFetchMoreSuccess).
THEOREM OnlyAppends ==
  ASSUME Queries = {TheQuery}
  PROVE  Spec => ScrollingOnlyAppends
<1> DEFINE Appends ==
      navs' = navs =>
        /\ Len(store.data) <= Len(store'.data)
        /\ \A i \in 1..Len(store.data) : store'.data[i] = store.data[i]
<1>1. Init => OneInv
  BY InitView
<1>2. IInv /\ OneInv /\ [Next]_vars => Grows /\ OneInv'
  BY NextView DEF ViewStep
<1>3. IInv /\ IInv' /\ OneInv /\ OneInv' /\ Grows => Appends
  <2> SUFFICES ASSUME IInv, IInv', OneInv, OneInv', Grows, navs' = navs
               PROVE  /\ Len(store.data) <= Len(store'.data)
                      /\ \A i \in 1..Len(store.data) : store'.data[i] = store.data[i]
    OBVIOUS
  <2>1. Len(store.data) \in Nat /\ Len(store'.data) \in Nat
    BY DEF IInv, TypeOK, DataState
  <2>2. Len(store.data) <= Len(store'.data)
    BY <2>1 DEF Grows
  <2>3. Continues(store.data, TheQuery, 0) /\ Continues(store'.data, TheQuery, 0)
    BY DEF OneInv
  <2>4. /\ \A i \in 1..Len(store.data) : store.data[i] = [query |-> TheQuery, rank |-> i]
        /\ \A i \in 1..Len(store'.data) : store'.data[i] = [query |-> TheQuery, rank |-> i]
    BY <2>1, <2>3 DEF Continues
  <2>5. \A i \in 1..Len(store.data) : i \in 1..Len(store'.data)
    BY <2>1, <2>2
  <2> QED
    BY <2>2, <2>4, <2>5
<1> HIDE DEF Appends
<1>4. [][Appends]_vars => ScrollingOnlyAppends
  BY PTL DEF ScrollingOnlyAppends, Appends
<1> QED
  BY <1>1, <1>2, <1>3, <1>4, Invariance, PTL DEF Spec

\* A table on its only query skips no row and shows none twice, however often
\* the query is read again underneath (executeFetchMore, firePrefetch).
THEOREM OneQueryUnmixed ==
  ASSUME Queries = {TheQuery}
  PROVE  Spec => []Unmixed
<1>1. Init => OneInv
  BY InitView
<1>2. IInv /\ OneInv /\ [Next]_vars => OneInv'
  BY NextView DEF ViewStep
<1>3. IInv /\ OneInv => Unmixed
  BY DEF IInv, TypeOK, OneInv, Continues, Unmixed
<1> QED
  BY <1>1, <1>2, <1>3, Invariance, PTL DEF Spec

\* Unless the server may refuse a page, a table on its only query that offers
\* no more rows shows every row there is (resolveFetchMoreState).
THEOREM NothingCutOff ==
  ASSUME Queries = {TheQuery}, "refused" \notin FaultKinds
  PROVE  Spec => []NoSilentTruncation
<1>1. Init => OneInv
  BY InitView
<1>2. IInv /\ OneInv /\ [Next]_vars => OneInv'
  BY NextView DEF ViewStep
<1>3. IInv /\ OneInv => NoSilentTruncation
  <2> SUFFICES ASSUME IInv, OneInv, ~store.hasMore
               PROVE  Len(store.data) = Rows[query]
    BY DEF NoSilentTruncation
  <2> DEFINE shown == Len(store.data)
             size == Rows[TheQuery]
  <2>1. query = TheQuery
    BY DEF IInv, TypeOK
  <2>2. shown <= size /\ store.total = size
    BY DEF OneInv, Whence
  <2>3. ~(store.total > shown)
    BY DEF IInv, HasMoreHonest
  <2>4. shown \in Nat /\ size \in Nat
    BY Sizes DEF IInv, TypeOK, DataState
  <2> HIDE DEF shown, size
  <2>5. shown = size
    BY <2>2, <2>3, <2>4
  <2> QED
    BY <2>1, <2>5 DEF shown, size
<1> QED
  BY <1>1, <1>2, <1>3, Invariance, PTL DEF Spec

-----------------------------------------------------------------------------
(* Wake-ups *)

\* What a step that is no navigation leaves: it does not clear a spinner while
\* its call is out, and loses a wake-up only by the return of a call whose
\* spinner is gone.
Keeps ==
  /\ ~Stalled /\ Stalled' => isFetching /\ ~store.isLoadingMore /\ ~isFetching'
  /\ navs' = 0 =>
       /\ navs = 0
       /\ (isFetching => store.isLoadingMore) => (isFetching' => store'.isLoadingMore)

\* A returning call attaches the observer anew if its spinner had detached it.
LEMMA ReturnKeeps ==
  ASSUME NEW s \in LoadSlots, Return(s), isFetching, navs' = navs,
         store'.isLoadingMore = FALSE
  PROVE  Keeps
<1>1. isFetching' = FALSE
  BY DEF Return
<1>2. ObserverOn(store') /\ ~ObserverOn(store) => armed'
  BY DEF Return, ArmedAfter
<1>3. store.hasMore /\ ~store.isLoadingMore /\ ~armed /\ ~isFetching => Stalled
  BY DEF Stalled
<1>4. CASE store.isLoadingMore
  BY <1>1, <1>2, <1>4 DEF ObserverOn, Stalled, Keeps
<1>5. CASE ~store.isLoadingMore
  BY <1>1, <1>2, <1>5 DEF ObserverOn, Stalled, Keeps
<1> QED
  BY <1>4, <1>5

\* A navigation without a call attaches the observer if it offers more rows.
LEMMA NavigateKeeps ==
  ASSUME IInv, NEW q \in Queries, Navigate(q)
  PROVE  Keeps
<1>1. isFetching' = isFetching /\ navs' = navs + 1 /\ navs \in Nat
  BY PagingAssumption DEF Navigate, IInv, TypeOK
<1>2. store'.isLoadingMore = FALSE
  BY DEF Navigate, Seeded, SeededRefusal
<1>3. ObserverOn(store') /\ (armed \/ ~ObserverOn(store)) => armed'
  BY DEF Navigate, ArmedAfter
<1>4. ~isFetching => ~store.isLoadingMore
  BY DEF IInv, SingleFlight
<1> QED
  BY <1>1, <1>2, <1>3, <1>4 DEF ObserverOn, Stalled, Keeps

\* A callback is spent on a call, on rows, or when there is nothing to ask for.
LEMMA ReachEndKeeps ==
  ASSUME IInv, ReachEnd
  PROVE  Keeps
<1>1. CASE ReachEndIgnored
  BY <1>1 DEF ReachEndIgnored, Stalled, Keeps
<1>2. ASSUME NEW s \in LoadSlots, ReachEndHit(s)
      PROVE  Keeps
  <2>1. /\ ~isFetching /\ UNCHANGED <<isFetching, navs>>
        /\ armed' = ObserverOn(store')
        /\ store' = Combined(Captured(0), cache.response)
    BY <1>2 DEF ReachEndHit, MayBegin, Land
  <2>2. store'.isLoadingMore = FALSE
    BY <2>1 DEF Combined
  <2> QED
    BY <2>1, <2>2 DEF ObserverOn, Stalled, Keeps
<1>3. ASSUME NEW s \in LoadSlots, ReachEndWait(s)
      PROVE  Keeps
  <2>1. /\ isFetching' = TRUE /\ navs' = navs
        /\ store' = [store EXCEPT !.isLoadingMore = TRUE]
    BY <1>3 DEF ReachEndWait
  <2>2. store'.isLoadingMore = TRUE
    BY <2>1 DEF IInv, TypeOK, DataState
  <2> QED
    BY <2>1, <2>2 DEF Stalled, Keeps
<1> QED
  BY <1>1, <1>2, <1>3 DEF ReachEnd

\* An answer or a rejection returns a call, or leaves store and observer alone.
LEMMA SettleKeeps ==
  ASSUME IInv, Settle
  PROVE  Keeps
<1>0. /\ Failed(store).isLoadingMore = FALSE
      /\ \A load, response : Combined(load, response).isLoadingMore = FALSE
  <2>1. store \in DataState
    BY DEF IInv, TypeOK
  <2> QED
    BY <2>1 DEF Failed, Combined, DataState
<1>1. UNCHANGED <<store, isFetching, armed, navs>> => Keeps
  BY DEF Stalled, Keeps
<1>2. ASSUME NEW s \in LoadSlots, FetchResolves(s) \/ FetchRejects(s)
      PROVE  Keeps
  <2>1. isFetching
    BY <1>2 DEF FetchResolves, FetchRejects, IInv, SingleFlight
  <2> QED
    BY <1>0, <1>2, <2>1, ReturnKeeps DEF FetchResolves, FetchRejects, Land
<1>3. ASSUME NEW p \in Pids, PrefetchResolves(p) \/ PrefetchRejects(p)
      PROVE  Keeps
  <2>1. navs' = navs
    BY <1>3 DEF PrefetchResolves, PrefetchRejects
  <2>2. ASSUME NEW s \in LoadSlots, Waiting(s, p), Return(s), store'.isLoadingMore = FALSE
        PROVE  Keeps
    <3>1. isFetching
      BY <2>2 DEF Waiting, IInv, SingleFlight
    <3> QED
      BY <2>1, <2>2, <3>1, ReturnKeeps
  <2>3. CASE PrefetchResolves(p)
    BY <1>0, <1>1, <2>2, <2>3 DEF PrefetchResolves, Land
  <2>4. CASE PrefetchRejects(p)
    BY <1>0, <1>1, <2>2, <2>4 DEF PrefetchRejects
  <2> QED
    BY <1>3, <2>3, <2>4
<1> QED
  BY <1>2, <1>3 DEF Settle

LEMMA NextKeeps == IInv /\ [Next]_vars => Keeps
<1> SUFFICES ASSUME IInv, [Next]_vars PROVE Keeps
  OBVIOUS
<1>1. CASE \E q \in Queries : Navigate(q)
  BY <1>1, NavigateKeeps
<1>2. CASE ScrollToEnd
  BY <1>2 DEF ScrollToEnd, Stalled, Keeps
<1>3. CASE ReachEnd
  BY <1>3, ReachEndKeeps
<1>4. CASE Settle
  BY <1>4, SettleKeeps
<1>5. CASE UNCHANGED vars
  BY <1>5 DEF vars, Stalled, Keeps
<1> QED
  BY <1>1, <1>2, <1>3, <1>4, <1>5 DEF Next

\* A wake-up is lost only to a call that returns after a re-seed, through any
\* navigations, calls, buffered pages and failures (executeFetchMore,
\* useInfiniteScrollObserver).
THEOREM WakeUpsKept == Spec => WakeUpKept
<1> DEFINE Lost == ~Stalled /\ Stalled' => isFetching /\ ~store.isLoadingMore /\ ~isFetching'
<1>1. IInv /\ [Next]_vars => Lost
  BY NextKeeps DEF Keeps
<1> HIDE DEF Lost
<1>2. [][Lost]_vars => WakeUpKept
  BY PTL DEF WakeUpKept, Lost
<1> QED
  BY <1>1, <1>2, Invariance, PTL DEF Spec

\* Without navigation the sentinel in view is enough to ask for every further
\* page: loading never stops short of the end by itself.
THEOREM NoStall == Spec => []NeverStalls
<1> DEFINE Awake == navs = 0 => ~Stalled /\ (isFetching => store.isLoadingMore)
<1>1. Init => Awake
  <2> SUFFICES ASSUME Init PROVE Awake
    OBVIOUS
  <2>1. store.isLoadingMore = FALSE
    BY DEF Init, Seeded
  <2> QED
    BY <2>1 DEF Init, ObserverOn, Stalled
<1>2. IInv /\ Awake /\ [Next]_vars => Awake'
  <2> SUFFICES ASSUME IInv, Awake, Keeps, navs' = 0
               PROVE  ~Stalled' /\ (isFetching' => store'.isLoadingMore)
    BY NextKeeps
  <2>1. navs = 0 /\ ~Stalled /\ (isFetching => store.isLoadingMore)
    BY DEF Keeps
  <2>2. ~(isFetching /\ ~store.isLoadingMore)
    BY <2>1
  <2> QED
    BY <2>1, <2>2 DEF Keeps
<1>3. Awake => NeverStalls
  BY DEF NeverStalls
<1> HIDE DEF Awake
<1> QED
  BY <1>1, <1>2, <1>3, Invariance, PTL DEF Spec

\* A landed answer is longer than what was captured, unless it met a fault.
LEMMA LandAdvances ==
  ASSUME Queries = {TheQuery}, IInv, OneInv, NEW s \in LoadSlots, loads[s].on,
         NEW q \in Queries,
         NEW response \in Responses(q, Len(loads[s].rows)),
         Answered(q, Len(loads[s].rows), response),
         store' = Combined(loads[s], response)
  PROVE  Len(store'.data) > Len(store.data) \/ faults' = faults + 1
<1> DEFINE load == loads[s]
           skip == Len(load.rows)
           count == Available(q, skip, Page)
<1>1. /\ load \in LoadState /\ load.rows \in Seq(Row) /\ skip \in Nat
      /\ store.data \in Seq(Row) /\ Len(store.data) \in Nat
  BY DEF IInv, TypeOK, LoadState, DataState
<1>2. load.total = Rows[TheQuery] /\ Len(store.data) <= skip /\ load.total > skip
  BY DEF OneInv, IInv, HasMoreHonest
<1>3. CASE response = Whole(q, skip)
  <2>1. /\ count \in Nat \ {0}
        /\ q = TheQuery
        /\ skip + count <= Rows[q]
    BY <1>1, <1>2, Only, Sizes, PagingAssumption DEF Available
  <2>2. /\ response.rows = RowsAfter(q, skip, count)
        /\ RowsAfter(q, skip, count) \in Seq(Row)
        /\ Len(RowsAfter(q, skip, count)) = count
    BY <1>1, <1>3, <2>1, RowsAfterFacts DEF Whole
  <2>3. store'.data = load.rows \o response.rows
    BY DEF Combined
  <2>4. Len(store'.data) = skip + count
    <3> HIDE DEF skip, count
    <3>1. response.rows \in Seq(Row) /\ Len(response.rows) = count
      BY <2>2
    <3>2. Len(load.rows \o response.rows) = Len(load.rows) + Len(response.rows)
      <4>1. \A a, b \in Seq(Row) : Len(a \o b) = Len(a) + Len(b)
        OBVIOUS
      <4> QED
        BY <1>1, <3>1, <4>1
    <3> QED
      BY <2>3, <3>1, <3>2 DEF skip
  <2> HIDE DEF skip, count
  <2> QED
    BY <1>1, <1>2, <2>1, <2>4
<1>4. CASE faults' = faults + 1
  BY <1>4
<1> QED
  BY <1>3, <1>4 DEF Answered, Fault

\* With one query a call that returns has shown something new, or met one of
\* the faults: with `NoStall`, what loading to the end takes beside fairness.
THEOREM EachCallAdvances ==
  ASSUME Queries = {TheQuery}
  PROVE  Spec => CallsAdvance
<1> DEFINE Advance == isFetching /\ ~isFetching' =>
             Len(store'.data) > Len(store.data) \/ faults' = faults + 1
<1>1. Init => OneInv
  BY InitView
<1>2. IInv /\ OneInv /\ [Next]_vars => OneInv'
  BY NextView DEF ViewStep
<1>3. IInv /\ OneInv /\ [Next]_vars => Advance
  <2> SUFFICES ASSUME IInv, OneInv, [Next]_vars, isFetching, ~isFetching'
               PROVE  Len(store'.data) > Len(store.data) \/ faults' = faults + 1
    OBVIOUS
  <2>1. ASSUME NEW s \in LoadSlots, FetchResolves(s)
        PROVE  Len(store'.data) > Len(store.data) \/ faults' = faults + 1
    <3>1. loads[s].on /\ loads[s].query \in Queries /\ loads[s].rows \in Seq(Row)
      BY <2>1 DEF FetchResolves, IInv, TypeOK, LoadState
    <3>2. Start(loads[s].query, loads[s].rows) = Len(loads[s].rows)
      BY <3>1, Only, StartFacts DEF OneInv
    <3> QED
      BY <2>1, <3>1, <3>2, LandAdvances DEF FetchResolves, Land
  <2>2. ASSUME NEW p \in Pids, PrefetchResolves(p)
        PROVE  Len(store'.data) > Len(store.data) \/ faults' = faults + 1
    <3>1. prefetches[p].query \in Queries
      BY DEF IInv, TypeOK, PrefetchState
    <3>0. prefetches[p].start = prefetches[p].skip
      BY <2>2 DEF PrefetchResolves, OneInv, InPlace
    <3>2. PICK response \in Responses(prefetches[p].query, prefetches[p].skip),
               s \in LoadSlots :
            /\ Answered(prefetches[p].query, prefetches[p].skip, response)
            /\ Waiting(s, p)
            /\ Land(loads[s], response, Settled(p))
      BY <2>2, <3>0 DEF PrefetchResolves
    <3>3. loads[s].on /\ prefetches[p].skip = Len(loads[s].rows)
      BY <3>2, PagingAssumption DEF Waiting, IInv, BufferLive
    <3> QED
      BY <3>1, <3>2, <3>3, LandAdvances DEF Land
  <2>3. ASSUME NEW s \in LoadSlots, FetchRejects(s)
        PROVE  faults' = faults + 1
    BY <2>3 DEF FetchRejects, Fault
  <2>4. ASSUME NEW p \in Pids, PrefetchRejects(p)
        PROVE  faults' = faults + 1
    BY <2>4 DEF PrefetchRejects, Fault
  <2>5. Settle
    BY DEF Next, Navigate, ScrollToEnd, ReachEnd, ReachEndIgnored, ReachEndHit,
           ReachEndWait, vars
  <2> QED
    BY <2>1, <2>2, <2>3, <2>4, <2>5 DEF Settle
<1> HIDE DEF Advance
<1>4. [][Advance]_vars => CallsAdvance
  BY PTL DEF CallsAdvance, Advance
<1> QED
  BY <1>1, <1>2, <1>3, <1>4, Invariance, PTL DEF Spec
=============================================================================
