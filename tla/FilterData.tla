----------------------------- MODULE FilterData -----------------------------
(***************************************************************************)
(* The options a column's filter offers: the FiltersData context of        *)
(* packages/ui's Table, for one column.                                    *)
(*                                                                         *)
(* The column's slice lives above the Suspense boundary and outlasts the   *)
(* inputs that show it.  Each input fetches into that one slice and has a  *)
(* prefetch buffer of its own; a call goes on, with the slice it captured  *)
(* and its input's buffer, when the input is gone.                         *)
(*                                                                         *)
(* An option is named by its rank.  A response settles at the instant its  *)
(* continuation runs.                                                      *)
(***************************************************************************)
EXTENDS Integers, Sequences

CONSTANTS
  Inputs,         \* bound: filter inputs mounted in the life of the table
  Size,           \* how many options the column has
  Page,           \* DEFAULT_FILTER_PAGE_SIZE (50 in the code)
  Exact,          \* does the source know its end: a static list, not a query
  EnablePrefetch, \* metaState.enablePrefetch
  Pids,           \* bound: prefetches in flight at once
  MaxFaults       \* bound: requests that fail or run into their timeout

ASSUME FilterAssumption ==
  /\ Size \in Nat /\ Page \in Nat \ {0}
  /\ Exact \in BOOLEAN /\ EnablePrefetch \in BOOLEAN
  /\ Pids \subseteq Nat \ {0}
  /\ MaxFaults \in Nat

VARIABLES
  slice,      \* filtersDataStore.get()[columnKey]
  mounted,    \* per input: "not yet", "shown" or "gone"
  buffer,     \* per input, prefetchRef.current
  calls,      \* fetchInitial and fetchMore calls that await a response
  prefetches, \* per pid, a prefetch on the wire
  faults

vars == <<slice, mounted, buffer, calls, prefetches, faults>>

-----------------------------------------------------------------------------
Smaller(m, n) == IF m < n THEN m ELSE n

Options(from, to) == [i \in 1..(to - from) |-> from + i]

(* onLoadMore.  A query takes a full page for a sign that there is more.   *)
Response(skip) ==
  LET end == Smaller(skip + Page, Size)
      values == IF skip < end THEN Options(skip, end) ELSE <<>>
  IN  [values |-> values,
       hasMore |-> IF Exact THEN skip + Page < Size ELSE Len(values) = Page]

(* More options than any list has.                                         *)
Infinity == Size + 1

(* dataTotalSelector.                                                      *)
TotalOf(response) ==
  IF response.hasMore THEN Infinity ELSE Len(response.values)

Slice == [data : Seq(Nat), hasMore : BOOLEAN, isLoading : BOOLEAN,
          isLoadingMore : BOOLEAN, totalRows : Nat]

EmptyBuffer == [skip |-> -1, kind |-> "empty", pid |-> 0]

(* A buffered response is named by its skip.                               *)
Buffer == [skip : Nat \cup {-1}, kind : {"empty", "promise", "data"}, pid : Nat]

(* from: the prefetch a call waits for; 0 for a request of its own.        *)
Call == [input : Inputs, kind : {"initial", "more"}, slice : Slice, from : Nat]

NoPrefetch == [on |-> FALSE, skip |-> 0]

Init ==
  /\ slice = [data |-> <<>>, hasMore |-> FALSE, isLoading |-> FALSE,
              isLoadingMore |-> FALSE, totalRows |-> 0]
  /\ mounted = [i \in Inputs |-> "not yet"]
  /\ buffer = [i \in Inputs |-> EmptyBuffer]
  /\ calls = {}
  /\ prefetches = [i \in Inputs |-> [p \in Pids |-> NoPrefetch]]
  /\ faults = 0

-----------------------------------------------------------------------------
(* maybePrefetchFilterPage into the input's buffer, when the slice becomes *)
(* `next`; `rest` is what is left of the input's prefetches, `kept` what   *)
(* its buffer holds if there is none.                                      *)
Prefetch(i, next, rest, kept) ==
  IF EnablePrefetch /\ next.hasMore
  THEN \E p \in Pids :
         /\ ~rest[p].on
         /\ \A o \in Pids : ~rest[o].on => p <= o
         /\ prefetches' = [prefetches EXCEPT ![i] =
              [rest EXCEPT ![p] = [on |-> TRUE, skip |-> Len(next.data)]]]
         /\ buffer' = [buffer EXCEPT ![i] =
              [skip |-> Len(next.data), kind |-> "promise", pid |-> p]]
  ELSE /\ prefetches' = [prefetches EXCEPT ![i] = rest]
       /\ buffer' = [buffer EXCEPT ![i] = kept]

(* The slice a call captured, with the first page.                         *)
Loaded(captured, response) ==
  [captured EXCEPT !.data = response.values,
                   !.totalRows = TotalOf(response),
                   !.hasMore = TotalOf(response) > Len(response.values),
                   !.isLoading = FALSE]

\* Mutant: the total is what is loaded.
ExtendedOnly(captured, response) ==
  [captured EXCEPT !.data = @ \o response.values, !.hasMore = FALSE,
                   !.totalRows = Len(captured.data \o response.values),
                   !.isLoading = FALSE, !.isLoadingMore = FALSE]

(* The slice a call captured, with the next page.                          *)
Extended(captured, response) ==
  LET data == captured.data \o response.values
  IN  [captured EXCEPT !.data = data,
                       !.totalRows = TotalOf(response),
                       !.hasMore = TotalOf(response) > Len(data),
                       !.isLoading = FALSE, !.isLoadingMore = FALSE]

\* Mutant: the slice is put back as it was read before the await.
FailedAsRead(call) == [call.slice EXCEPT !.isLoadingMore = slice.isLoadingMore]

(* handleFetchMoreFilterDataError and the catch of fetchInitial.           *)
Failed(call) ==
  IF call.kind = "initial" THEN [call.slice EXCEPT !.isLoading = FALSE]
  ELSE [call.slice EXCEPT !.isLoadingMore = FALSE]

-----------------------------------------------------------------------------
(* fetchInitial, up to its await; run by an effect of the list.            *)
FetchInitial(i) ==
  IF slice.data # <<>> \/ slice.isLoading THEN UNCHANGED <<slice, calls>>
  ELSE /\ slice' = [slice EXCEPT !.isLoading = TRUE]
       /\ calls' = calls \cup
            {[input |-> i, kind |-> "initial", slice |-> slice, from |-> 0]}

Mount(i) ==
  /\ mounted[i] = "not yet"
  /\ mounted' = [mounted EXCEPT ![i] = "shown"]
  /\ FetchInitial(i)
  /\ UNCHANGED <<buffer, prefetches, faults>>

(* The effect runs again when the column it closes over has changed.       *)
Refetch(i) ==
  /\ mounted[i] = "shown"
  /\ FetchInitial(i)
  /\ UNCHANGED <<mounted, buffer, prefetches, faults>>

Unmount(i) ==
  /\ mounted[i] = "shown"
  /\ mounted' = [mounted EXCEPT ![i] = "gone"]
  /\ UNCHANGED <<slice, buffer, calls, prefetches, faults>>

\* Mutant: nobody looks whether a call is in flight.
MayFetchAgain(i) == mounted[i] = "shown" /\ slice.hasMore

(* fetchMore goes past its early return.                                   *)
MayFetchMore(i) ==
  mounted[i] = "shown" /\ ~slice.isLoadingMore /\ slice.hasMore

Holds(i, kind) == buffer[i].skip = Len(slice.data) /\ buffer[i].kind = kind

(* The page is in the buffer: it lands at once.                            *)
FetchMoreHit(i) ==
  /\ MayFetchMore(i) /\ Holds(i, "data")
  /\ slice' = Extended(slice, Response(buffer[i].skip))
  /\ Prefetch(i, slice', prefetches[i], EmptyBuffer)
  /\ UNCHANGED <<mounted, calls, faults>>

FetchMoreWait(i) ==
  /\ MayFetchMore(i) /\ ~Holds(i, "data")
  /\ slice' = [slice EXCEPT !.isLoadingMore = TRUE]
  /\ calls' = calls \cup
       {[input |-> i, kind |-> "more", slice |-> slice,
         from |-> IF Holds(i, "promise") THEN buffer[i].pid ELSE 0]}
  /\ UNCHANGED <<mounted, buffer, prefetches, faults>>

-----------------------------------------------------------------------------
(* A call goes on with a response, or with a rejection.                    *)

Land(call, response, rest) ==
  /\ calls' = calls \ {call}
  /\ \/ /\ call.kind = "initial"
        /\ slice' = Loaded(call.slice, response)
        /\ Prefetch(call.input, slice', rest, buffer[call.input])
     \/ /\ call.kind = "more"
        /\ slice' = Extended(call.slice, response)
        /\ Prefetch(call.input, slice', rest, EmptyBuffer)

Resolve(call) ==
  /\ call.from = 0
  /\ Land(call, Response(Len(call.slice.data)), prefetches[call.input])
  /\ UNCHANGED <<mounted, faults>>

(* Rejected, or past FILTER_OPTIONS_TIMEOUT_MS.                            *)
Reject(call) ==
  /\ call.from = 0
  /\ faults < MaxFaults /\ faults' = faults + 1
  /\ calls' = calls \ {call}
  /\ slice' = Failed(call)
  /\ UNCHANGED <<mounted, buffer, prefetches>>

-----------------------------------------------------------------------------
(* A prefetch settles: firePrefetch adopts the outcome if the buffer still *)
(* stands at its skip, and a call that waits for it goes on.               *)

Waiting(i, p) == {call \in calls : call.input = i /\ call.from = p}

Settled(i, p) == [prefetches[i] EXCEPT ![p] = NoPrefetch]

Adopt(i, p, outcome) ==
  IF buffer[i].skip = prefetches[i][p].skip THEN outcome ELSE buffer[i]

PrefetchResolves(i, p) ==
  LET skip == prefetches[i][p].skip
  IN  /\ prefetches[i][p].on
      /\ \/ /\ Waiting(i, p) = {}
            /\ buffer' = [buffer EXCEPT ![i] =
                 Adopt(i, p, [skip |-> skip, kind |-> "data", pid |-> 0])]
            /\ prefetches' = [prefetches EXCEPT ![i] = Settled(i, p)]
            /\ UNCHANGED <<slice, calls>>
         \/ \E call \in Waiting(i, p) : Land(call, Response(skip), Settled(i, p))
      /\ UNCHANGED <<mounted, faults>>

PrefetchRejects(i, p) ==
  /\ prefetches[i][p].on
  /\ faults < MaxFaults /\ faults' = faults + 1
  /\ buffer' = [buffer EXCEPT ![i] = Adopt(i, p, EmptyBuffer)]
  /\ prefetches' = [prefetches EXCEPT ![i] = Settled(i, p)]
  /\ \/ Waiting(i, p) = {} /\ UNCHANGED <<slice, calls>>
     \/ \E call \in Waiting(i, p) :
          calls' = calls \ {call} /\ slice' = Failed(call)
  /\ UNCHANGED mounted

-----------------------------------------------------------------------------
Show(i) == Mount(i) \/ Refetch(i) \/ Unmount(i) \/ FetchMoreHit(i) \/ FetchMoreWait(i)

Answer ==
  \/ \E call \in calls : Resolve(call) \/ Reject(call)
  \/ \E i \in Inputs, p \in Pids : PrefetchResolves(i, p) \/ PrefetchRejects(i, p)

Next == (\E i \in Inputs : Show(i)) \/ Answer

(* Every request is bounded in time (resolveDistinctFilterOptions), so     *)
(* every one settles.                                                      *)
Fairness ==
  /\ WF_vars(\E call \in calls : Resolve(call) \/ Reject(call))
  /\ \A i \in Inputs, p \in Pids : WF_vars(PrefetchResolves(i, p) \/ PrefetchRejects(i, p))

Spec == Init /\ [][Next]_vars /\ Fairness

-----------------------------------------------------------------------------
(* Properties.                                                             *)

(* Every variable keeps its kind of value.                                 *)
TypeOK ==
  /\ slice \in Slice
  /\ mounted \in [Inputs -> {"not yet", "shown", "gone"}]
  /\ buffer \in [Inputs -> Buffer]
  /\ calls \subseteq Call
  /\ prefetches \in [Inputs -> [Pids -> [on : BOOLEAN, skip : Nat]]]
  /\ faults \in 0..MaxFaults

(* Whichever inputs fetch, with whatever in their buffers, the slice holds *)
(* the first options, each once and in order; all of them, once it offers  *)
(* no more.                                                                *)
NoneMissing ==
  /\ Len(slice.data) <= Size /\ slice.data = Options(0, Len(slice.data))
  /\ slice.data # <<>> /\ ~slice.hasMore => Len(slice.data) = Size

(* A slice captured before an await is written back whole after it, and    *)
(* yet never undoes what another call has loaded meanwhile.                *)
NothingUndone ==
  [][/\ Len(slice.data) <= Len(slice'.data)
     /\ slice.data # <<>> /\ ~slice.hasMore => ~slice'.hasMore]_vars

(* A raised guard is that of a call that is out, and no call is out under  *)
(* a lowered one, though every write-back replaces both.                   *)
GuardsHeld ==
  /\ slice.isLoading <=> \E call \in calls : call.kind = "initial"
  /\ slice.isLoadingMore <=> \E call \in calls : call.kind = "more"

(* "the guard is cleared only when the request settles": it always is, so  *)
(* no column is wedged.                                                    *)
GuardsClear ==
  /\ slice.isLoading ~> ~slice.isLoading
  /\ slice.isLoadingMore ~> ~slice.isLoadingMore
=============================================================================
