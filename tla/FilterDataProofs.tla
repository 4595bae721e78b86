-------------------------- MODULE FilterDataProofs --------------------------
(***************************************************************************)
(* For any list of options, any page size and any number of inputs: the    *)
(* slice never has a gap, and no write-back undoes what was loaded.        *)
(*                                                                         *)
(* The argument: the two loading flags live in the slice that all inputs   *)
(* share, so one call is out at a time, and the slice is then the one it   *)
(* captured with its flag raised.                                          *)
(***************************************************************************)
EXTENDS FilterData, SequenceTheorems, TLAPS

(* A slice that holds the first options and says rightly whether there are *)
(* more.                                                                   *)
Good(s) ==
  /\ Len(s.data) <= Size
  /\ s.data = Options(0, Len(s.data))
  /\ s.hasMore => s.data # <<>>
  /\ s.data # <<>> /\ ~s.hasMore => Len(s.data) = Size

Flagged(call) ==
  IF call.kind = "initial" THEN [call.slice EXCEPT !.isLoading = TRUE]
  ELSE [call.slice EXCEPT !.isLoadingMore = TRUE]

(* A call is the only one, and nothing but its flag has changed since.     *)
Alone(call) ==
  /\ calls = {call} /\ slice = Flagged(call)
  /\ ~call.slice.isLoading /\ ~call.slice.isLoadingMore
  /\ Good(call.slice)
  /\ call.kind = "initial" => call.slice.data = <<>> /\ call.from = 0
  /\ call.kind = "more" => call.slice.hasMore

(* The prefetch it waits for is on the wire, for the page it wants.        *)
Awaits(call) ==
  call.from # 0 =>
    /\ call.from \in Pids
    /\ prefetches[call.input][call.from].on
    /\ prefetches[call.input][call.from].skip = Len(call.slice.data)

Alive(i) ==
  buffer[i].kind = "promise" =>
    /\ buffer[i].pid \in Pids
    /\ prefetches[i][buffer[i].pid].on
    /\ prefetches[i][buffer[i].pid].skip = buffer[i].skip

IInv ==
  /\ TypeOK
  /\ Good(slice)
  /\ \A call \in calls : Alone(call) /\ Awaits(call)
  /\ calls = {} => ~slice.isLoading /\ ~slice.isLoadingMore
  /\ \A i \in Inputs : Alive(i)

(* What NothingUndone asks of a step.                                      *)
Kept ==
  /\ Len(slice.data) <= Len(slice'.data)
  /\ slice.data # <<>> /\ ~slice.hasMore => ~slice'.hasMore

-----------------------------------------------------------------------------
(* Lists of options.                                                       *)

LEMMA OptionsIsList ==
  ASSUME NEW m \in Nat, NEW n \in Nat, m <= n
  PROVE  /\ Options(m, n) \in Seq(Nat)
         /\ Len(Options(m, n)) = n - m
         /\ \A i \in 1..(n - m) : Options(m, n)[i] = m + i
         /\ Options(m, n) = <<>> <=> m = n
<1> DEFINE o == Options(m, n)
<1>1. o = [i \in 1..(n - m) |-> m + i]
  BY DEF Options
<1>2. o \in Seq(Nat) /\ Len(o) = n - m
  BY <1>1
<1>3. \A i \in 1..(n - m) : o[i] = m + i
  BY <1>1
<1>4. o = <<>> <=> m = n
  BY <1>2
<1> QED BY <1>2, <1>3, <1>4

(* A page joins the options before it.                                     *)
LEMMA Joined ==
  ASSUME NEW m \in Nat, NEW n \in Nat, m <= n
  PROVE  Options(0, m) \o Options(m, n) = Options(0, n)
<1> DEFINE a == Options(0, m)  b == Options(m, n)  c == Options(0, n)
<1>1. a \in Seq(Nat) /\ Len(a) = m /\ \A i \in 1..m : a[i] = i
  BY DEF Options
<1>2. b \in Seq(Nat) /\ Len(b) = n - m /\ \A i \in 1..(n - m) : b[i] = m + i
  BY OptionsIsList
<1>3. c \in Seq(Nat) /\ Len(c) = n /\ \A i \in 1..n : c[i] = i
  BY DEF Options
<1> HIDE DEF a, b, c
<1>4. a \o b \in Seq(Nat) /\ Len(a \o b) = n
  <2>1. a \o b \in Seq(Nat) /\ Len(a \o b) = Len(a) + Len(b)
    BY <1>1, <1>2, ConcatProperties
  <2> QED BY <1>1, <1>2, <2>1
<1>5. ASSUME NEW i \in 1..n PROVE (a \o b)[i] = c[i]
  <2>1. (a \o b)[i] = IF i <= m THEN a[i] ELSE b[i - m]
    BY <1>1, <1>2, ConcatProperties
  <2>2. CASE i <= m
    BY <1>1, <1>3, <2>1, <2>2
  <2>3. CASE ~(i <= m)
    <3>1. i - m \in 1..(n - m) /\ m + (i - m) = i
      BY <2>3
    <3>2. b[i - m] = i
      BY <1>2, <3>1
    <3>3. (a \o b)[i] = b[i - m]
      BY <2>1, <2>3
    <3>4. c[i] = i
      BY <1>3
    <3> QED BY <3>2, <3>3, <3>4, Zenon
  <2> QED BY <2>2, <2>3
<1>6. a \o b = c
  BY <1>3, <1>4, <1>5, SeqEqual
<1> QED BY <1>6 DEF a, b, c

(* An answer to a request for what follows the first options.              *)
LEMMA Answers ==
  ASSUME NEW skip \in Nat, skip <= Size
  PROVE  \E end \in Nat :
           LET r == Response(skip)
           IN  /\ skip <= end /\ end <= Size
               /\ r.values = Options(skip, end) /\ r.hasMore \in BOOLEAN
               /\ ~r.hasMore => end = Size
               /\ r.hasMore => skip < end
<1> USE FilterAssumption
<1> DEFINE end == IF skip < Size THEN Smaller(skip + Page, Size) ELSE skip
           r == Response(skip)
<1>1. end \in Nat /\ skip <= end /\ end <= Size
  BY DEF Smaller
<1>2. Options(skip, end) \in Seq(Nat) /\ Len(Options(skip, end)) = end - skip
  BY <1>1, OptionsIsList
<1>3. r.values = Options(skip, end)
  <2>1. CASE skip < Size
    <3>1. skip < Smaller(skip + Page, Size)
      BY <2>1 DEF Smaller
    <3> QED BY <2>1, <3>1 DEF Response
  <2>2. CASE skip = Size
    <3>1. ~(skip < Smaller(skip + Page, Size))
      BY <2>2 DEF Smaller
    <3>2. r.values = <<>>
      BY <3>1 DEF Response
    <3>3. Options(skip, end) = <<>>
      BY <1>1, <2>2, OptionsIsList
    <3> QED BY <3>2, <3>3
  <2> QED BY <2>1, <2>2
<1>4. /\ r.hasMore \in BOOLEAN
      /\ Exact => (r.hasMore <=> skip + Page < Size)
      /\ ~Exact => (r.hasMore <=> Len(r.values) = Page)
  <2> DEFINE v == IF skip < Smaller(skip + Page, Size)
                  THEN Options(skip, Smaller(skip + Page, Size)) ELSE <<>>
  <2>1. r.values = v
    BY DEF Response
  <2> DEFINE more == IF Exact THEN skip + Page < Size ELSE Len(v) = Page
  <2>2. r = [values |-> v, hasMore |-> more]
    BY DEF Response
  <2>3. /\ more \in BOOLEAN
        /\ Exact => (more <=> skip + Page < Size)
        /\ ~Exact => (more <=> Len(v) = Page)
    <3> HIDE DEF v
    <3>1. CASE Exact
      BY <3>1
    <3>2. CASE ~Exact
      BY <3>2
    <3> QED BY <3>1, <3>2
  <2> HIDE DEF v, r, more
  <2>4. r.hasMore = more
    BY <2>2
  <2> QED BY <2>1, <2>3, <2>4, Zenon
<1>5. Len(r.values) = end - skip
  BY <1>2, <1>3
<1>6. (~r.hasMore => end = Size) /\ (r.hasMore => skip < end)
  <2> HIDE DEF r
  <2>1. CASE Exact
    BY <1>4, <2>1 DEF Smaller
  <2>2. CASE ~Exact
    BY <1>4, <1>5, <2>2 DEF Smaller
  <2> QED BY <2>1, <2>2
<1> QED BY <1>1, <1>3, <1>4, <1>6

(* The next page extends a good slice to a good one.                       *)
LEMMA ExtendedIsGood ==
  ASSUME NEW s \in Slice, Good(s)
  PROVE  LET t == Extended(s, Response(Len(s.data)))
         IN  /\ t \in Slice /\ Good(t) /\ ~t.isLoading /\ ~t.isLoadingMore
             /\ Len(s.data) <= Len(t.data)
             /\ s.data # <<>> /\ ~s.hasMore => ~t.hasMore
<1> USE FilterAssumption
<1> DEFINE n == Len(s.data)  r == Response(n)  t == Extended(s, r)
<1> HIDE DEF r, t
<1>1. n \in Nat /\ n <= Size /\ s.data = Options(0, n)
  BY DEF Good, Slice
<1>2. PICK end \in Nat :
        /\ n <= end /\ end <= Size
        /\ r.values = Options(n, end) /\ r.hasMore \in BOOLEAN
        /\ ~r.hasMore => end = Size
        /\ r.hasMore => n < end
  BY <1>1, Answers DEF r
<1>3. s.data \o r.values = Options(0, end)
  BY <1>1, <1>2, Joined
<1>4. Options(0, end) \in Seq(Nat) /\ Len(Options(0, end)) = end
  BY OptionsIsList
<1>5. Len(r.values) = end - n
  BY <1>1, <1>2, OptionsIsList
<1>6. TotalOf(r) = IF r.hasMore THEN Size + 1 ELSE end - n
  BY <1>5 DEF TotalOf, Infinity
<1>7. (TotalOf(r) > end <=> r.hasMore) /\ TotalOf(r) \in Nat
  BY <1>1, <1>2, <1>6
<1> HIDE DEF n
<1>8. t = [s EXCEPT !.data = s.data \o r.values, !.totalRows = TotalOf(r),
                    !.hasMore = TotalOf(r) > Len(s.data \o r.values),
                    !.isLoading = FALSE, !.isLoadingMore = FALSE]
  BY DEF Extended, t
<1>9. /\ t.data = Options(0, end) /\ (t.hasMore <=> r.hasMore) /\ t \in Slice
      /\ ~t.isLoading /\ ~t.isLoadingMore
  <2> DEFINE more == TotalOf(r) > end
  <2>1. t = [s EXCEPT !.data = Options(0, end), !.totalRows = TotalOf(r), !.hasMore = more,
                      !.isLoading = FALSE, !.isLoadingMore = FALSE]
    BY <1>3, <1>4, <1>8
  <2>2. more \in BOOLEAN /\ (more <=> r.hasMore)
    BY <1>7
  <2> HIDE DEF more
  <2> QED BY <1>4, <1>7, <2>1, <2>2 DEF Slice
<1>10. Good(t)
  <2>1. Len(t.data) = end
    BY <1>4, <1>9
  <2>2. t.hasMore => t.data # <<>>
    BY <1>1, <1>2, <1>4, <1>9, <2>1
  <2> QED BY <1>2, <1>9, <2>1, <2>2 DEF Good
<1>11. s.data # <<>> /\ ~s.hasMore => ~t.hasMore
  BY <1>2, <1>9 DEF Good, n
<1> QED BY <1>1, <1>2, <1>4, <1>9, <1>10, <1>11 DEF n, r, t

(* The first page of an empty slice is a good one.                         *)
LEMMA LoadedIsGood ==
  ASSUME NEW s \in Slice, s.data = <<>>, ~s.isLoadingMore
  PROVE  LET t == Loaded(s, Response(Len(s.data)))
         IN  t \in Slice /\ Good(t) /\ ~t.isLoading /\ ~t.isLoadingMore
<1> USE FilterAssumption
<1> DEFINE r == Response(0)  t == Loaded(s, r)
<1> HIDE DEF r, t
<1>1. PICK end \in Nat :
        /\ 0 <= end /\ end <= Size
        /\ r.values = Options(0, end) /\ r.hasMore \in BOOLEAN
        /\ ~r.hasMore => end = Size
        /\ r.hasMore => 0 < end
  BY Answers DEF r
<1>2. Options(0, end) \in Seq(Nat) /\ Len(Options(0, end)) = end
  BY OptionsIsList
<1>3. (TotalOf(r) > end <=> r.hasMore) /\ TotalOf(r) \in Nat
  BY <1>1, <1>2 DEF TotalOf, Infinity
<1>4. t = [s EXCEPT !.data = r.values, !.totalRows = TotalOf(r),
                    !.hasMore = TotalOf(r) > Len(r.values), !.isLoading = FALSE]
  BY DEF Loaded, t
<1>5. /\ t.data = Options(0, end) /\ (t.hasMore <=> r.hasMore) /\ t \in Slice
      /\ ~t.isLoading /\ ~t.isLoadingMore
  <2> DEFINE more == TotalOf(r) > end
  <2>1. t = [s EXCEPT !.data = Options(0, end), !.totalRows = TotalOf(r), !.hasMore = more,
                      !.isLoading = FALSE]
    BY <1>1, <1>2, <1>4
  <2>2. more \in BOOLEAN /\ (more <=> r.hasMore)
    BY <1>3
  <2> HIDE DEF more
  <2> QED BY <1>2, <1>3, <2>1, <2>2 DEF Slice
<1>6. Good(t)
  <2>1. Len(t.data) = end
    BY <1>2, <1>5
  <2>2. t.hasMore => t.data # <<>>
    BY <1>1, <1>2, <1>5, <2>1
  <2> QED BY <1>1, <1>5, <2>1, <2>2 DEF Good
<1>7. Len(s.data) = 0
  OBVIOUS
<1> QED BY <1>5, <1>6, <1>7 DEF r, t

(* A raised or lowered flag changes nothing else.                          *)
LEMMA FlagsAside ==
  ASSUME NEW s \in Slice, Good(s), NEW f \in BOOLEAN
  PROVE  /\ [s EXCEPT !.isLoading = f] \in Slice /\ Good([s EXCEPT !.isLoading = f])
         /\ [s EXCEPT !.isLoadingMore = f] \in Slice
         /\ Good([s EXCEPT !.isLoadingMore = f])
BY DEF Slice, Good

-----------------------------------------------------------------------------
(* The invariant.                                                          *)

LEMMA InitIInv == Init => IInv
<1> SUFFICES ASSUME Init PROVE IInv
  OBVIOUS
<1> USE FilterAssumption
<1>1. TypeOK
  <2>1. slice \in Slice
    <3>1. <<>> \in Seq(Nat)
      OBVIOUS
    <3> QED BY <3>1 DEF Init, Slice
  <2>2. EmptyBuffer \in Buffer /\ NoPrefetch \in [on : BOOLEAN, skip : Nat]
    BY DEF EmptyBuffer, Buffer, NoPrefetch
  <2>3. mounted \in [Inputs -> {"not yet", "shown", "gone"}]
    BY DEF Init
  <2>4. buffer \in [Inputs -> Buffer]
    BY <2>2 DEF Init
  <2>5. prefetches \in [Inputs -> [Pids -> [on : BOOLEAN, skip : Nat]]]
    BY <2>2 DEF Init
  <2>6. calls \subseteq Call /\ faults \in 0..MaxFaults
    <3>1. calls = {} /\ faults = 0
      BY DEF Init
    <3> QED BY <3>1
  <2> QED BY <2>1, <2>3, <2>4, <2>5, <2>6 DEF TypeOK
<1>2. Good(slice)
  <2>1. Options(0, 0) = <<>>
    BY OptionsIsList
  <2>2. slice.data = <<>> /\ Len(slice.data) = 0 /\ ~slice.hasMore
    BY DEF Init
  <2> QED BY <2>1, <2>2 DEF Good
<1>3. \A i \in Inputs : Alive(i)
  BY DEF Init, Alive, EmptyBuffer
<1> QED BY <1>1, <1>2, <1>3 DEF Init, IInv

(* Whoever may fetch finds no call in flight.                              *)
LEMMA NobodyElse ==
  ASSUME IInv
  PROVE  /\ slice.data = <<>> /\ ~slice.isLoading => calls = {}
         /\ ~slice.isLoadingMore /\ slice.hasMore => calls = {}
<1> SUFFICES ASSUME NEW call \in calls
             PROVE  /\ ~(slice.data = <<>> /\ ~slice.isLoading)
                    /\ ~(~slice.isLoadingMore /\ slice.hasMore)
  OBVIOUS
<1>1. /\ slice = Flagged(call) /\ Good(slice)
      /\ call.kind = "initial" => call.slice.data = <<>>
      /\ call.kind = "more" => call.slice.hasMore
      /\ call.slice \in Slice /\ call.kind \in {"initial", "more"}
  BY DEF IInv, Alone, TypeOK, Call
<1>2. CASE call.kind = "initial"
  BY <1>1, <1>2 DEF Flagged, Slice, Good
<1>3. CASE call.kind = "more"
  BY <1>1, <1>3 DEF Flagged, Slice, Good
<1> QED BY <1>1, <1>2, <1>3

(* The prefetch fired as a call lands.  Among the others, only the one the *)
(* call waited for may have settled.                                       *)
LEMMA Fires ==
  ASSUME IInv, NEW i \in Inputs, NEW next \in Slice,
         NEW rest \in [Pids -> [on : BOOLEAN, skip : Nat]], NEW kept \in Buffer,
         kept.kind = "promise" =>
           kept.pid \in Pids /\ rest[kept.pid].on /\ rest[kept.pid].skip = kept.skip,
         Prefetch(i, next, rest, kept)
  PROVE  /\ buffer' \in [Inputs -> Buffer]
         /\ prefetches' \in [Inputs -> [Pids -> [on : BOOLEAN, skip : Nat]]]
         /\ \A j \in Inputs : Alive(j)'
<1> USE FilterAssumption
<1>1. /\ buffer \in [Inputs -> Buffer]
      /\ prefetches \in [Inputs -> [Pids -> [on : BOOLEAN, skip : Nat]]]
      /\ \A j \in Inputs : Alive(j)
  BY DEF IInv, TypeOK
<1>2. Len(next.data) \in Nat
  BY DEF Slice
<1>3. CASE EnablePrefetch /\ next.hasMore
  <2> DEFINE n == Len(next.data)
  <2>1. PICK p \in Pids :
          /\ prefetches' = [prefetches EXCEPT ![i] =
               [rest EXCEPT ![p] = [on |-> TRUE, skip |-> n]]]
          /\ buffer' = [buffer EXCEPT ![i] = [skip |-> n, kind |-> "promise", pid |-> p]]
    BY <1>3 DEF Prefetch
  <2> HIDE DEF n
  <2>2. n \in Nat
    BY <1>2 DEF n
  <2>3. [skip |-> n, kind |-> "promise", pid |-> p] \in Buffer
    BY <2>2 DEF Buffer
  <2>4. buffer' \in [Inputs -> Buffer]
    BY <1>1, <2>1, <2>3
  <2>5. prefetches' \in [Inputs -> [Pids -> [on : BOOLEAN, skip : Nat]]]
    BY <1>1, <2>1, <2>2
  <2>6. ASSUME NEW j \in Inputs PROVE Alive(j)'
    <3>1. CASE j = i
      BY <1>1, <2>1, <3>1 DEF Alive
    <3>2. CASE j # i
      BY <1>1, <2>1, <3>2 DEF Alive
    <3> QED BY <3>1, <3>2
  <2> QED BY <2>4, <2>5, <2>6
<1>4. CASE ~(EnablePrefetch /\ next.hasMore)
  <2>1. /\ prefetches' = [prefetches EXCEPT ![i] = rest]
        /\ buffer' = [buffer EXCEPT ![i] = kept]
    BY <1>4 DEF Prefetch
  <2>2. ASSUME NEW j \in Inputs PROVE Alive(j)'
    <3>1. CASE j = i
      BY <1>1, <2>1, <3>1 DEF Alive
    <3>2. CASE j # i
      BY <1>1, <2>1, <3>2 DEF Alive
    <3> QED BY <3>1, <3>2
  <2> QED BY <1>1, <2>1, <2>2
<1> QED BY <1>3, <1>4

(* A step that touches only the flags keeps what there is.                 *)
LEMMA SameDataKeeps ==
  ASSUME IInv, slice'.data = slice.data, slice'.hasMore <=> slice.hasMore
  PROVE  Kept
<1>1. slice.data \in Seq(Nat)
  BY DEF IInv, TypeOK, Slice
<1>2. Len(slice.data) \in Nat
  BY <1>1
<1> QED BY <1>2 DEF Kept

(* A call that lands leaves a good slice, with all that was there.         *)
LEMMA LandKeeps ==
  ASSUME IInv, NEW call \in calls,
         NEW rest \in [Pids -> [on : BOOLEAN, skip : Nat]],
         \A p \in Pids : p # call.from => rest[p] = prefetches[call.input][p],
         Land(call, Response(Len(call.slice.data)), rest),
         UNCHANGED <<mounted, faults>>
  PROVE  IInv' /\ Kept
<1> USE FilterAssumption
<1> DEFINE i == call.input  s == call.slice
<1>1. /\ TypeOK /\ i \in Inputs /\ s \in Slice /\ call.kind \in {"initial", "more"}
      /\ Alone(call)
  BY DEF IInv, TypeOK, Call
<1>2. calls' = {}
  BY <1>1 DEF Land, Alone
<1>3. CASE call.kind = "initial"
  <2>1. slice' = Loaded(s, Response(Len(s.data))) /\ Prefetch(i, slice', rest, buffer[i])
    BY <1>3 DEF Land
  <2>2. s.data = <<>> /\ ~s.isLoadingMore /\ call.from = 0 /\ slice.data = s.data
    BY <1>1, <1>3 DEF Alone, Flagged, Slice
  <2>3. slice' \in Slice /\ Good(slice)' /\ ~slice'.isLoading /\ ~slice'.isLoadingMore
    BY <1>1, <2>1, <2>2, LoadedIsGood DEF Good
  <2>4. /\ buffer[i] \in Buffer
        /\ buffer[i].kind = "promise" =>
             /\ buffer[i].pid \in Pids /\ rest[buffer[i].pid].on
             /\ rest[buffer[i].pid].skip = buffer[i].skip
    BY <1>1, <2>2 DEF IInv, TypeOK, Alive
  <2>5. /\ buffer' \in [Inputs -> Buffer]
        /\ prefetches' \in [Inputs -> [Pids -> [on : BOOLEAN, skip : Nat]]]
        /\ \A j \in Inputs : Alive(j)'
    BY <1>1, <2>1, <2>3, <2>4, Fires
  <2>6. Kept
    BY <2>2, <2>3 DEF Kept, Slice
  <2> QED BY <1>1, <1>2, <2>3, <2>5, <2>6 DEF IInv, TypeOK
<1>4. CASE call.kind = "more"
  <2>1. /\ slice' = Extended(s, Response(Len(s.data)))
        /\ Prefetch(i, slice', rest, EmptyBuffer)
    BY <1>4 DEF Land
  <2>2. Good(s) /\ s.hasMore /\ slice.data = s.data /\ slice.hasMore
    BY <1>1, <1>4 DEF Alone, Flagged, Slice
  <2>3. /\ slice' \in Slice /\ Good(slice)' /\ ~slice'.isLoading /\ ~slice'.isLoadingMore
        /\ Len(s.data) <= Len(slice'.data)
    BY <1>1, <2>1, <2>2, ExtendedIsGood DEF Good
  <2>4. EmptyBuffer \in Buffer /\ EmptyBuffer.kind # "promise"
    BY DEF EmptyBuffer, Buffer
  <2>5. /\ buffer' \in [Inputs -> Buffer]
        /\ prefetches' \in [Inputs -> [Pids -> [on : BOOLEAN, skip : Nat]]]
        /\ \A j \in Inputs : Alive(j)'
    BY <1>1, <2>1, <2>3, <2>4, Fires
  <2>6. Kept
    BY <2>2, <2>3 DEF Kept
  <2> QED BY <1>1, <1>2, <2>3, <2>5, <2>6 DEF IInv, TypeOK
<1> QED BY <1>1, <1>3, <1>4

(* A call that fails puts back what it captured: nothing has changed.      *)
LEMMA FailKeeps ==
  ASSUME IInv, NEW call \in calls, calls' = calls \ {call}, slice' = Failed(call)
  PROVE  calls' = {} /\ slice' \in Slice /\ Good(slice)' /\ Kept
         /\ ~slice'.isLoading /\ ~slice'.isLoadingMore
<1> DEFINE s == call.slice
<1>1. s \in Slice /\ call.kind \in {"initial", "more"} /\ Alone(call)
  BY DEF IInv, TypeOK, Call
<1>2. calls' = {}
  BY <1>1 DEF Alone
<1>3. slice' \in Slice /\ Good(slice)'
  <2>1. slice' = [s EXCEPT !.isLoading = FALSE] \/ slice' = [s EXCEPT !.isLoadingMore = FALSE]
    BY DEF Failed
  <2>2. /\ [s EXCEPT !.isLoading = FALSE] \in Slice /\ Good([s EXCEPT !.isLoading = FALSE])
        /\ [s EXCEPT !.isLoadingMore = FALSE] \in Slice
        /\ Good([s EXCEPT !.isLoadingMore = FALSE])
    BY <1>1, FlagsAside DEF Alone
  <2> QED BY <2>1, <2>2 DEF Good
<1>4. /\ ~slice'.isLoading /\ ~slice'.isLoadingMore
      /\ slice'.data = slice.data /\ (slice'.hasMore <=> slice.hasMore)
  BY <1>1 DEF Failed, Alone, Flagged, Slice
<1> QED BY <1>2, <1>3, <1>4, SameDataKeeps

(* The buffer stays alive as a prefetch of its input settles.              *)
LEMMA SettleKeeps ==
  ASSUME IInv, NEW i \in Inputs, NEW p \in Pids, NEW outcome \in Buffer,
         outcome.kind # "promise",
         buffer' = [buffer EXCEPT ![i] = Adopt(i, p, outcome)],
         prefetches' = [prefetches EXCEPT ![i] = Settled(i, p)]
  PROVE  /\ buffer' \in [Inputs -> Buffer]
         /\ prefetches' \in [Inputs -> [Pids -> [on : BOOLEAN, skip : Nat]]]
         /\ \A j \in Inputs : Alive(j)'
<1>1. /\ buffer \in [Inputs -> Buffer]
      /\ prefetches \in [Inputs -> [Pids -> [on : BOOLEAN, skip : Nat]]]
      /\ \A j \in Inputs : Alive(j)
  BY DEF IInv, TypeOK
<1>2. Adopt(i, p, outcome) \in Buffer
  BY <1>1 DEF Adopt
<1>3. Settled(i, p) \in [Pids -> [on : BOOLEAN, skip : Nat]]
  BY <1>1 DEF Settled, NoPrefetch
<1>4. ASSUME NEW j \in Inputs PROVE Alive(j)'
  <2>1. CASE j # i
    BY <1>1, <2>1 DEF Alive
  <2>2. CASE j = i
    <3>1. CASE buffer[i].skip = prefetches[i][p].skip
      BY <1>1, <2>2, <3>1 DEF Alive, Adopt
    <3>2. CASE buffer[i].skip # prefetches[i][p].skip
      BY <1>1, <2>2, <3>2 DEF Alive, Adopt, Settled
    <3> QED BY <3>1, <3>2
  <2> QED BY <2>1, <2>2
<1> QED BY <1>1, <1>2, <1>3, <1>4

LEMMA MountKeeps ==
  ASSUME IInv, NEW i \in Inputs, FetchInitial(i),
         mounted' \in [Inputs -> {"not yet", "shown", "gone"}],
         UNCHANGED <<buffer, prefetches, faults>>
  PROVE  IInv' /\ Kept
<1>1. TypeOK /\ Good(slice) /\ slice \in Slice /\ slice.data \in Seq(Nat)
      /\ buffer \in [Inputs -> Buffer]
      /\ \A j \in Inputs : Alive(j)
  BY DEF IInv, TypeOK, Slice
<1>2. \A j \in Inputs : Alive(j)'
  BY <1>1 DEF Alive
<1>3. CASE UNCHANGED <<slice, calls>>
  <2>1. \A call \in calls' : (Alone(call) /\ Awaits(call))'
    BY <1>3 DEF IInv, Good, Alone, Flagged, Awaits
  <2>2. Good(slice)' /\ slice' = slice /\ calls' = calls
    BY <1>1, <1>3 DEF Good
  <2>3. Kept
    BY <2>2, SameDataKeeps
  <2>4. TypeOK'
    BY <1>1, <2>2 DEF TypeOK
  <2> QED BY <1>2, <2>1, <2>2, <2>3, <2>4 DEF IInv
<1>4. CASE ~UNCHANGED <<slice, calls>>
  <2>0. PICK c : c = [input |-> i, kind |-> "initial", slice |-> slice, from |-> 0]
    OBVIOUS
  <2>1. /\ slice.data = <<>> /\ ~slice.isLoading
        /\ slice' = [slice EXCEPT !.isLoading = TRUE] /\ calls' = calls \cup {c}
    BY <1>4, <2>0 DEF FetchInitial
  <2>2. calls = {} /\ ~slice.isLoadingMore
    BY <2>1, NobodyElse DEF IInv
  <2>3. slice' \in Slice /\ Good(slice)'
    BY <1>1, <2>1, FlagsAside DEF Good
  <2>4. c \in Call /\ calls' = {c}
    BY <1>1, <2>0, <2>1, <2>2 DEF Call
  <2>5. Alone(c)'
    <3>1. /\ c.kind = "initial" /\ c.slice = slice /\ c.from = 0
      BY <2>0
    <3> QED BY <1>1, <2>1, <2>2, <2>4, <3>1 DEF Alone, Flagged, Good
  <2>6. Awaits(c)'
    BY <2>0 DEF Awaits
  <2>7. Kept
    <3>1. slice'.data = slice.data /\ (slice'.hasMore <=> slice.hasMore)
      BY <1>1, <2>1 DEF Slice
    <3> QED BY <3>1, SameDataKeeps
  <2> QED BY <1>1, <1>2, <2>3, <2>4, <2>5, <2>6, <2>7 DEF IInv, TypeOK
<1> QED BY <1>3, <1>4

LEMMA HitKeeps ==
  ASSUME IInv, NEW i \in Inputs, FetchMoreHit(i)
  PROVE  IInv' /\ Kept
<1>1. /\ TypeOK /\ Good(slice) /\ slice \in Slice
      /\ buffer \in [Inputs -> Buffer]
      /\ prefetches \in [Inputs -> [Pids -> [on : BOOLEAN, skip : Nat]]]
  BY DEF IInv, TypeOK
<1>2. /\ slice.hasMore /\ slice' = Extended(slice, Response(Len(slice.data)))
      /\ Prefetch(i, slice', prefetches[i], EmptyBuffer)
      /\ UNCHANGED <<mounted, calls, faults>>
  BY DEF FetchMoreHit, MayFetchMore, Holds
<1>3. calls = {}
  BY <1>1, NobodyElse DEF FetchMoreHit, MayFetchMore
<1>4. /\ slice' \in Slice /\ Good(slice)' /\ ~slice'.isLoading /\ ~slice'.isLoadingMore
      /\ Len(slice.data) <= Len(slice'.data)
  BY <1>1, <1>2, ExtendedIsGood DEF Good
<1>5. EmptyBuffer \in Buffer /\ EmptyBuffer.kind # "promise"
  BY DEF EmptyBuffer, Buffer
<1>6. /\ buffer' \in [Inputs -> Buffer]
      /\ prefetches' \in [Inputs -> [Pids -> [on : BOOLEAN, skip : Nat]]]
      /\ \A j \in Inputs : Alive(j)'
  BY <1>1, <1>2, <1>4, <1>5, Fires
<1> QED BY <1>1, <1>2, <1>3, <1>4, <1>6 DEF IInv, TypeOK, Kept

LEMMA WaitKeeps ==
  ASSUME IInv, NEW i \in Inputs, FetchMoreWait(i)
  PROVE  IInv' /\ Kept
<1> USE FilterAssumption
<1>0. PICK c : c = [input |-> i, kind |-> "more", slice |-> slice,
                    from |-> IF Holds(i, "promise") THEN buffer[i].pid ELSE 0]
  OBVIOUS
<1>1. /\ TypeOK /\ Good(slice) /\ slice \in Slice /\ slice.data \in Seq(Nat)
      /\ buffer \in [Inputs -> Buffer]
      /\ \A j \in Inputs : Alive(j)
  BY DEF IInv, TypeOK, Slice
<1>2. /\ slice.hasMore /\ slice' = [slice EXCEPT !.isLoadingMore = TRUE]
      /\ calls' = calls \cup {c} /\ UNCHANGED <<mounted, buffer, prefetches, faults>>
  BY <1>0 DEF FetchMoreWait, MayFetchMore
<1>3. calls = {}
  BY <1>1, NobodyElse DEF FetchMoreWait, MayFetchMore
<1>4. slice' \in Slice /\ Good(slice)'
  BY <1>1, <1>2, FlagsAside DEF Good
<1>5. c \in Call /\ calls' = {c}
  <2>1. c.from \in Nat
    BY <1>0, <1>1 DEF Buffer
  <2> QED BY <1>0, <1>1, <1>2, <1>3, <2>1 DEF Call
<1>6. Alone(c)'
  <2>1. ~slice.isLoading /\ ~slice.isLoadingMore
    BY <1>3 DEF IInv
  <2>2. c.kind = "more" /\ c.slice = slice
    BY <1>0
  <2> QED BY <1>1, <1>2, <1>5, <2>1, <2>2 DEF Alone, Flagged, Good
<1>7. Awaits(c)'
  <2>1. Awaits(c)
    BY <1>0, <1>1 DEF Awaits, Holds, Alive
  <2> QED BY <1>2, <2>1 DEF Awaits
<1>8. \A j \in Inputs : Alive(j)'
  BY <1>1, <1>2 DEF Alive
<1>9. Kept
  <2>1. slice'.data = slice.data /\ (slice'.hasMore <=> slice.hasMore)
    BY <1>1, <1>2 DEF Slice
  <2> QED BY <2>1, SameDataKeeps
<1> QED BY <1>1, <1>2, <1>4, <1>5, <1>6, <1>7, <1>8, <1>9 DEF IInv, TypeOK

LEMMA CallSettlesKeeps ==
  ASSUME IInv, NEW call \in calls, Resolve(call) \/ Reject(call)
  PROVE  IInv' /\ Kept
<1> USE FilterAssumption
<1>1. /\ TypeOK /\ call.input \in Inputs
      /\ prefetches \in [Inputs -> [Pids -> [on : BOOLEAN, skip : Nat]]]
      /\ \A j \in Inputs : Alive(j)
  BY DEF IInv, TypeOK, Call
<1>2. CASE Resolve(call)
  <2>1. prefetches[call.input] \in [Pids -> [on : BOOLEAN, skip : Nat]]
    BY <1>1
  <2> QED BY <1>2, <2>1, LandKeeps DEF Resolve
<1>3. CASE Reject(call)
  <2>1. calls' = {} /\ slice' \in Slice /\ Good(slice)' /\ Kept
        /\ ~slice'.isLoading /\ ~slice'.isLoadingMore
    BY <1>3, FailKeeps DEF Reject
  <2>2. UNCHANGED <<mounted, buffer, prefetches>> /\ faults' \in 0..MaxFaults
    <3>1. faults \in 0..MaxFaults /\ faults < MaxFaults /\ faults' = faults + 1
      BY <1>1, <1>3 DEF Reject, TypeOK
    <3> QED BY <1>3, <3>1 DEF Reject
  <2>3. \A j \in Inputs : Alive(j)'
    BY <1>1, <2>2 DEF Alive
  <2> QED BY <1>1, <2>1, <2>2, <2>3 DEF IInv, TypeOK
<1> QED BY <1>2, <1>3

(* A prefetch nobody waits for settles.                                    *)
LEMMA QuietSettleKeeps ==
  ASSUME IInv, NEW i \in Inputs, NEW p \in Pids, NEW outcome \in Buffer,
         outcome.kind # "promise", Waiting(i, p) = {},
         buffer' = [buffer EXCEPT ![i] = Adopt(i, p, outcome)],
         prefetches' = [prefetches EXCEPT ![i] = Settled(i, p)],
         UNCHANGED <<slice, calls, mounted>>, faults' \in 0..MaxFaults
  PROVE  IInv' /\ Kept
<1>1. /\ buffer' \in [Inputs -> Buffer]
      /\ prefetches' \in [Inputs -> [Pids -> [on : BOOLEAN, skip : Nat]]]
      /\ \A j \in Inputs : Alive(j)'
  BY SettleKeeps
<1>2. TypeOK'
  BY <1>1 DEF IInv, TypeOK
<1>3. ASSUME NEW call \in calls PROVE (Alone(call) /\ Awaits(call))'
  <2>1. Alone(call) /\ Awaits(call)
    BY DEF IInv
  <2>2. Alone(call)'
    BY <2>1 DEF Alone, Flagged, Good
  <2>3. ~(call.input = i /\ call.from = p)
    BY DEF Waiting
  <2>4. prefetches \in [Inputs -> [Pids -> [on : BOOLEAN, skip : Nat]]] /\ call.input \in Inputs
    BY DEF IInv, TypeOK, Call
  <2>5. Awaits(call)'
    BY <2>1, <2>3, <2>4 DEF Awaits, Settled
  <2> QED BY <2>2, <2>5
<1>4. Kept
  BY SameDataKeeps
<1>5. Good(slice)'
  BY DEF IInv, Good
<1> QED BY <1>1, <1>2, <1>3, <1>4, <1>5 DEF IInv

LEMMA PrefetchSettlesKeeps ==
  ASSUME IInv, NEW i \in Inputs, NEW p \in Pids,
         PrefetchResolves(i, p) \/ PrefetchRejects(i, p)
  PROVE  IInv' /\ Kept
<1> USE FilterAssumption
<1> DEFINE skip == prefetches[i][p].skip
<1>1. /\ TypeOK /\ skip \in Nat /\ faults \in 0..MaxFaults
      /\ prefetches \in [Inputs -> [Pids -> [on : BOOLEAN, skip : Nat]]]
  BY DEF IInv, TypeOK
<1>2. CASE PrefetchResolves(i, p)
  <2>1. CASE Waiting(i, p) = {}
    <3> DEFINE outcome == [skip |-> skip, kind |-> "data", pid |-> 0]
    <3>1. outcome \in Buffer /\ outcome.kind # "promise"
      BY <1>1 DEF Buffer
    <3>2. /\ buffer' = [buffer EXCEPT ![i] = Adopt(i, p, outcome)]
          /\ prefetches' = [prefetches EXCEPT ![i] = Settled(i, p)]
          /\ UNCHANGED <<slice, calls, mounted>> /\ faults' = faults
      BY <1>2, <2>1 DEF PrefetchResolves
    <3> HIDE DEF outcome
    <3> QED BY <1>1, <2>1, <3>1, <3>2, QuietSettleKeeps
  <2>2. CASE Waiting(i, p) # {}
    <3>1. PICK call \in Waiting(i, p) : Land(call, Response(skip), Settled(i, p))
      BY <1>2, <2>2 DEF PrefetchResolves
    <3>2. call \in calls /\ call.input = i /\ call.from = p
      BY <3>1 DEF Waiting
    <3>3. skip = Len(call.slice.data)
      <4>1. Awaits(call) /\ p # 0
        BY <3>2 DEF IInv
      <4> QED BY <3>2, <4>1 DEF Awaits
    <3>4. /\ Settled(i, p) \in [Pids -> [on : BOOLEAN, skip : Nat]]
          /\ \A q \in Pids : q # p => Settled(i, p)[q] = prefetches[i][q]
      BY <1>1 DEF Settled, NoPrefetch
    <3>5. UNCHANGED <<mounted, faults>>
      BY <1>2 DEF PrefetchResolves
    <3> QED BY <3>1, <3>2, <3>3, <3>4, <3>5, LandKeeps
  <2> QED BY <2>1, <2>2
<1>3. CASE PrefetchRejects(i, p)
  <2>1. /\ buffer' = [buffer EXCEPT ![i] = Adopt(i, p, EmptyBuffer)]
        /\ prefetches' = [prefetches EXCEPT ![i] = Settled(i, p)]
        /\ mounted' = mounted /\ faults' \in 0..MaxFaults
    BY <1>1, <1>3 DEF PrefetchRejects
  <2>2. EmptyBuffer \in Buffer /\ EmptyBuffer.kind # "promise"
    BY DEF EmptyBuffer, Buffer
  <2>3. CASE Waiting(i, p) = {}
    <3>1. UNCHANGED <<slice, calls>>
      BY <1>3, <2>3 DEF PrefetchRejects
    <3> QED BY <2>1, <2>2, <2>3, <3>1, QuietSettleKeeps
  <2>4. CASE Waiting(i, p) # {}
    <3>1. PICK call \in Waiting(i, p) : calls' = calls \ {call} /\ slice' = Failed(call)
      BY <1>3, <2>4 DEF PrefetchRejects
    <3>2. call \in calls
      BY <3>1 DEF Waiting
    <3>3. calls' = {} /\ slice' \in Slice /\ Good(slice)' /\ Kept
          /\ ~slice'.isLoading /\ ~slice'.isLoadingMore
      BY <3>1, <3>2, FailKeeps
    <3>4. /\ buffer' \in [Inputs -> Buffer]
          /\ prefetches' \in [Inputs -> [Pids -> [on : BOOLEAN, skip : Nat]]]
          /\ \A j \in Inputs : Alive(j)'
      BY <2>1, <2>2, SettleKeeps
    <3> QED BY <1>1, <2>1, <3>3, <3>4 DEF IInv, TypeOK
  <2> QED BY <2>3, <2>4
<1> QED BY <1>2, <1>3

LEMMA StepKeeps ==
  ASSUME IInv, [Next]_vars
  PROVE  IInv' /\ Kept
<1>1. mounted \in [Inputs -> {"not yet", "shown", "gone"}]
  BY DEF IInv, TypeOK
<1>2. CASE \E i \in Inputs : Show(i)
  <2>1. PICK i \in Inputs : Show(i)
    BY <1>2
  <2>2. CASE Mount(i)
    BY <1>1, <2>2, MountKeeps DEF Mount
  <2>3. CASE Refetch(i)
    BY <1>1, <2>3, MountKeeps DEF Refetch
  <2>4. CASE Unmount(i)
    <3>1. UNCHANGED <<slice, buffer, calls, prefetches, faults>>
          /\ mounted' \in [Inputs -> {"not yet", "shown", "gone"}]
      BY <1>1, <2>4 DEF Unmount
    <3>2. Kept
      BY <3>1, SameDataKeeps
    <3> QED BY <3>1, <3>2 DEF IInv, TypeOK, Good, Alone, Flagged, Awaits, Alive
  <2>5. CASE FetchMoreHit(i)
    BY <2>5, HitKeeps
  <2>6. CASE FetchMoreWait(i)
    BY <2>6, WaitKeeps
  <2> QED BY <2>1, <2>2, <2>3, <2>4, <2>5, <2>6 DEF Show
<1>3. CASE Answer
  <2>1. CASE \E call \in calls : Resolve(call) \/ Reject(call)
    BY <2>1, CallSettlesKeeps
  <2>2. CASE \E i \in Inputs, p \in Pids : PrefetchResolves(i, p) \/ PrefetchRejects(i, p)
    BY <2>2, PrefetchSettlesKeeps
  <2> QED BY <1>3, <2>1, <2>2 DEF Answer
<1>4. CASE UNCHANGED vars
  <2>1. UNCHANGED <<slice, mounted, buffer, calls, prefetches, faults>>
    BY <1>4 DEF vars
  <2>2. Kept
    BY <2>1, SameDataKeeps
  <2> QED BY <2>1, <2>2 DEF IInv, TypeOK, Good, Alone, Flagged, Awaits, Alive
<1> QED BY <1>2, <1>3, <1>4 DEF Next

LEMMA Inductive == Spec => []IInv
<1>1. IInv /\ [Next]_vars => IInv'
  BY StepKeeps
<1> QED BY InitIInv, <1>1, PTL DEF Spec

-----------------------------------------------------------------------------
(* The theorems.                                                           *)

(* Every variable keeps its kind of value.                                 *)
THEOREM TypeCorrect == Spec => []TypeOK
<1>1. IInv => TypeOK
  BY DEF IInv
<1> QED BY <1>1, Inductive, PTL

(* Whichever inputs fetch, the slice holds the first options in order, and *)
(* all of them once fetchMore is told that there are no more.              *)
THEOREM NoneIsMissing == Spec => []NoneMissing
<1>1. IInv => NoneMissing
  BY DEF IInv, Good, NoneMissing
<1> QED BY <1>1, Inductive, PTL

(* The write-back of a captured slice undoes nothing.                      *)
THEOREM NothingIsUndone == Spec => NothingUndone
<1>1. IInv /\ [Next]_vars => Kept
  BY StepKeeps
<1>2. Spec => [][Kept]_vars
  BY <1>1, Inductive, PTL DEF Spec
<1> QED BY <1>2, PTL DEF NothingUndone, Kept

(* All inputs of a column share one loading guard: one call at a time.     *)
THEOREM OneCallAtATime == Spec => [](\A c, d \in calls : c = d)
<1>1. IInv => \A c, d \in calls : c = d
  BY DEF IInv, Alone
<1> QED BY <1>1, Inductive, PTL

(* Each guard is up exactly while a call of its kind is out: neither is    *)
(* ever left up by a write-back, nor taken down under another's call.      *)
THEOREM GuardsAreHeld == Spec => []GuardsHeld
<1>1. IInv => GuardsHeld
  <2> SUFFICES ASSUME IInv PROVE GuardsHeld
    OBVIOUS
  <2>1. CASE calls = {}
    BY <2>1 DEF IInv, GuardsHeld
  <2>2. ASSUME NEW call \in calls PROVE GuardsHeld
    <3>1. calls = {call} /\ slice = Flagged(call) /\ call.slice \in Slice
          /\ ~call.slice.isLoading /\ ~call.slice.isLoadingMore
      BY DEF IInv, Alone, TypeOK, Call
    <3>2. call.kind \in {"initial", "more"}
      BY DEF IInv, TypeOK, Call
    <3>3. CASE call.kind = "initial"
      <4>1. slice.isLoading /\ ~slice.isLoadingMore
        BY <3>1, <3>3 DEF Flagged, Slice
      <4> QED
        BY <3>1, <3>3, <4>1 DEF GuardsHeld
    <3>4. CASE call.kind = "more"
      <4>1. ~slice.isLoading /\ slice.isLoadingMore
        BY <3>1, <3>4 DEF Flagged, Slice
      <4> QED
        BY <3>1, <3>4, <4>1 DEF GuardsHeld
    <3> QED
      BY <3>2, <3>3, <3>4
  <2> QED
    BY <2>1, <2>2
<1> QED BY <1>1, Inductive, PTL

=============================================================================
