--------------------------- MODULE PrQueueProofs ---------------------------
(***************************************************************************)
(* Theorems about PrQueue for every finite set of pull requests, every     *)
(* snapshot and every answer of the model.                                 *)
(***************************************************************************)
EXTENDS PrQueue, FiniteSetTheorems, WellFoundedInduction, TLAPS

-----------------------------------------------------------------------------
(* The inductive invariant *)

Rules == {"O1", "O2", "O3", "O4"}

\* The edges that still hold a number back.
Unmet(n) == {e \in Into(n) : e.from \notin Placed}

\* The numbers placed at the first k places.
Before(k) == {order[i] : i \in 1..k}

\* Shapes.  The snapshot's edges join different open pull requests.
Shapes ==
  /\ Numbers \subseteq PRs
  /\ queue \in [Numbers -> Facts]
  /\ only \in OnlyChoices
  /\ apply \in BOOLEAN
  /\ edges \subseteq [from : Numbers, rule : Rules, to : Numbers]
  /\ \A e \in edges : e.from # e.to
  /\ IsFiniteSet(edges)
  /\ phase \in {"sort", "decide", "spread", "apply", "done", "failed"}
  /\ order \in Seq(Numbers)
  /\ sequence \in Seq(Numbers)
  /\ at \in Nat \ {0}
  /\ verdict \in [Numbers -> Verdicts \cup {"none"}]
  /\ pending \subseteq Numbers
  /\ reached \subseteq Numbers
  /\ executed \in Seq([number : Numbers, outcome : {"done", "error"}])

\* topoSort counts exactly the edges that hold a number back.
Counts == indegree = [n \in Numbers |-> Cardinality(Unmet(n))]

\* The ready list is what nothing holds back.
ReadyList == ready = {n \in Numbers \ Placed : Unmet(n) = {}}

\* No number is placed twice.
Distinct == \A i, j \in 1..Len(order) : order[i] = order[j] => i = j

\* What is placed at k was, of what nothing held back then, the least.
LeastChosen ==
  \A k \in 1..Len(order) : \A n \in Numbers :
    n \notin Before(k) /\ (\A e \in Into(n) : e.from \in Before(k - 1)) => order[k] < n

\* How far the pass is: nothing is decided before the sort ends, searched
\* before all is decided, or executed before the escalations are spread.
Stages ==
  /\ phase # "sort" => ready = {}
  /\ phase = "sort" => sequence = <<>> /\ at = 1
  /\ phase \in {"sort", "decide"} => reached = {}
  /\ phase \in {"sort", "decide", "spread"} => executed = <<>>

\* The entries list placed numbers once, in an order that respects the edges,
\* and all numbers unless --pr selects one.
EntriesSorted ==
  /\ \A k, l \in 1..Len(sequence) :
       sequence[k] = sequence[l] /\ sequence[k] \in Placed => k = l
  /\ \A e \in edges : \A k, l \in 1..Len(sequence) :
       sequence[k] = e.from /\ sequence[l] = e.to /\ {e.from, e.to} \subseteq Placed => k < l
  /\ phase # "sort" /\ only = 0 => Entries = Numbers

\* A decided verdict keeps to the leash.
Leashed(n) ==
  /\ verdict[n] \in Verdicts
  /\ n \notin Placed \/ Stopped(queue[n]) => verdict[n] = "ESCALATE"
  /\ IsWithinCeiling(Ceiling(queue[n]), verdict[n])

VerdictsLeashed ==
  /\ \A n \in Numbers : verdict[n] = "none" \/ Leashed(n)
  /\ phase = "decide" => \A i \in 1..Len(sequence) : i < at => verdict[sequence[i]] # "none"
  /\ phase = "spread" \/ Applied => \A n \in Entries : verdict[n] # "none"

\* The search has followed every edge out of what it is done with.
SearchClosed ==
  phase = "spread" =>
    \A e \in edges :
      \/ e.from \in pending
      \/ e.to \in reached
      \/ e.from \notin reached /\ (e.from \in Entries => verdict[e.from] # "ESCALATE")

\* Executed entries lie behind the hand, in the order of the sequence.
ExecutedBehind ==
  /\ \A i \in 1..Len(executed) :
       /\ verdict[executed[i].number] \in {"ACT", "ENQUEUE"}
       /\ \E k \in 1..Len(sequence) :
            k < at /\ sequence[k] = executed[i].number
  /\ \A i, j \in 1..Len(executed) : i < j =>
       \E k, l \in 1..Len(sequence) :
         /\ k < l
         /\ l < at
         /\ sequence[k] = executed[i].number
         /\ sequence[l] = executed[j].number

IInv ==
  /\ Shapes
  /\ Counts
  /\ ReadyList
  /\ Distinct
  /\ MergeOrder
  /\ LeastChosen
  /\ Stages
  /\ EntriesSorted
  /\ VerdictsLeashed
  /\ SearchClosed
  /\ EscalationsSpread
  /\ ExecutedBehind

-----------------------------------------------------------------------------
(* Numbers *)

\* A nonempty set of naturals has a least member, and Least is it.
LEMMA LeastMember ==
  ASSUME NEW S \in SUBSET Nat, S # {}
  PROVE  Least(S) \in S /\ \A n \in S : Least(S) <= n
<1> DEFINE Initial == {0..n : n \in S}
<1>1. Initial \subseteq FiniteSubsetsOf(Nat) /\ Initial # {}
  <2>1. ASSUME NEW n \in Nat PROVE 0..n \in FiniteSubsetsOf(Nat)
    <3>1. IsFiniteSet(0..n)
      BY FS_Interval
    <3>2. 0..n \in SUBSET Nat
      OBVIOUS
    <3> QED
      BY <3>1, <3>2 DEF FiniteSubsetsOf
  <2> QED
    BY <2>1
<1>2. \E I \in Initial : \A J \in Initial : ~(<<J, I>> \in StrictSubsetOrdering(Nat))
  BY <1>1, FS_StrictSubsetOrderingWellFounded, WFMin
<1>3. PICK n \in S : \A m \in S : ~(<<0..m, 0..n>> \in StrictSubsetOrdering(Nat))
  BY <1>2
<1>4. \A m \in S : n <= m
  <2> SUFFICES ASSUME NEW m \in S, m < n PROVE FALSE
    OBVIOUS
  <2>1. 0..m \subseteq 0..n /\ 0..m # 0..n
    <3>1. n \in 0..n /\ n \notin 0..m
      OBVIOUS
    <3> QED
      BY <3>1
  <2>2. <<0..m, 0..n>> \in StrictSubsetOrdering(Nat)
    BY <2>1 DEF StrictSubsetOrdering
  <2> QED
    BY <2>2, <1>3
<1> QED
  BY <1>4 DEF Least

\* A finite set of naturals has an upper bound: were there none, there would be
\* a shortest listing of its first members without one.
LEMMA FiniteBounded ==
  ASSUME NEW S \in SUBSET Nat, IsFiniteSet(S)
  PROVE  \E u \in Nat : \A n \in S : n <= u
<1> DEFINE c == Cardinality(S)
<1>1. /\ c \in Nat
      /\ ExistsBijection(1..c, S)
  BY FS_CardinalityType
<1>2. PICK f \in [1..c -> S] : \A n \in S : \E i \in 1..c : f[i] = n
  BY <1>1 DEF ExistsBijection, Bijection, Surjection, Injection
<1> DEFINE Over(k) == \A u \in Nat : \E i \in 1..c : i <= k /\ f[i] > u
           Free == {k \in Nat : Over(k)}
<1>3. ASSUME c \in Free PROVE FALSE
  <2>1. Free # {} /\ Free \in SUBSET Nat
    BY <1>3
  <2> DEFINE k == Least(Free)
  <2>2. k \in Free /\ \A m \in Free : k <= m
    BY <2>1, LeastMember
  <2> HIDE DEF k
  <2>3. k # 0
    BY <2>2
  <2>4. k - 1 \in Nat /\ k - 1 \notin Free
    <3>1. k \in Nat /\ k - 1 \in Nat /\ ~(k <= k - 1)
      BY <2>2, <2>3
    <3> HIDE DEF Free
    <3> QED
      BY <3>1, <2>2
  <2>5. PICK u \in Nat : \A i \in 1..c : i <= k - 1 => f[i] <= u
    <3>1. ~Over(k - 1)
      BY <2>4
    <3>2. \A i \in 1..c : f[i] \in Nat
      BY <1>2
    <3> QED
      BY <3>1, <3>2
  <2>6. CASE k \in 1..c
    <3>1. f[k] \in Nat
      BY <1>2, <2>6
    <3>2. \A i \in 1..c : i <= k => f[i] <= u + f[k]
      <4> TAKE i \in 1..c
      <4> HAVE i <= k
      <4>1. f[i] \in Nat
        BY <1>2
      <4>2. i = k \/ i <= k - 1
        BY <2>2
      <4> QED
        BY <4>1, <4>2, <3>1, <2>5
    <3>3. u + f[k] \in Nat
      BY <3>1
    <3>4. \A i \in 1..c : f[i] \in Nat
      BY <1>2
    <3>5. Over(k)
      BY <2>2
    <3>6. PICK top \in Nat : \A i \in 1..c : i <= k => f[i] <= top
      BY <3>2, <3>3
    <3>7. PICK i \in 1..c : i <= k /\ f[i] > top
      BY <3>5
    <3>8. f[i] <= top /\ f[i] \in Nat
      BY <3>4, <3>6, <3>7
    <3> QED
      BY <3>7, <3>8
  <2>7. CASE k \notin 1..c
    <3>1. \A i \in 1..c : i <= k => i <= k - 1
      BY <2>7, <2>2, <1>1
    <3>2. \A i \in 1..c : f[i] \in Nat
      BY <1>2
    <3>3. Over(k)
      BY <2>2
    <3> QED
      BY <3>1, <3>2, <3>3, <2>5
  <2> QED
    BY <2>6, <2>7
<1>4. ~Over(c)
  BY <1>1, <1>3
<1>5. PICK u \in Nat : \A i \in 1..c : f[i] <= u
  <2>1. \A i \in 1..c : f[i] \in Nat
    BY <1>2
  <2>2. \A i \in 1..c : i <= c
    BY <1>1
  <2> QED
    BY <1>4, <2>1, <2>2
<1> QED
  BY <1>2, <1>5

\* Greatest is the greatest member of a finite nonempty set of naturals: the
\* least of its upper bounds is a member.
LEMMA GreatestMember ==
  ASSUME NEW S \in SUBSET Nat, IsFiniteSet(S), S # {}
  PROVE  Greatest(S) \in S
<1> DEFINE Bounds == {u \in Nat : \A n \in S : n <= u}
           b == Least(Bounds)
<1>1. Bounds \in SUBSET Nat /\ Bounds # {}
  BY FiniteBounded
<1>2. b \in Bounds /\ \A u \in Bounds : b <= u
  BY <1>1, LeastMember
<1> HIDE DEF b
<1>3. b \in S
  <2> SUFFICES ASSUME b \notin S PROVE FALSE
    OBVIOUS
  <2>1. b \in Nat /\ \A n \in S : n <= b
    BY <1>2
  <2>2. \A n \in S : n <= b - 1 /\ n \in Nat
    BY <2>1
  <2>3. b - 1 \in Nat
    <3>1. PICK n \in S : TRUE
      OBVIOUS
    <3> QED
      BY <3>1, <2>1, <2>2
  <2>4. b - 1 \in Bounds
    BY <2>2, <2>3
  <2> QED
    BY <2>1, <2>4, <1>2
<1>4. \E n \in S : \A m \in S : m <= n
  BY <1>2, <1>3
<1> QED
  BY <1>4 DEF Greatest

-----------------------------------------------------------------------------
(* The snapshot's edges *)

\* The open pull requests are finitely many, with positive numbers.
LEMMA Snapshot ==
  ASSUME NEW q \in Queues
  PROVE  /\ DOMAIN q \in SUBSET PRs
         /\ DOMAIN q \in SUBSET (Nat \ {0})
         /\ IsFiniteSet(DOMAIN q)
         /\ q \in [DOMAIN q -> Facts]
  BY QueueAssumption, FS_Subset

\* Every edge joins two different open pull requests.
LEMMA EdgesJoin ==
  ASSUME NEW q \in Queues
  PROVE  /\ DerivedEdges(q) \subseteq [from : DOMAIN q, rule : Rules, to : DOMAIN q]
         /\ \A e \in DerivedEdges(q) : e.from # e.to
<1> DEFINE Edges == [from : DOMAIN q, rule : Rules, to : DOMAIN q]
<1>1. ASSUME NEW n \in DOMAIN q, NEW m \in DOMAIN q, NEW r \in Rules
      PROVE  Edge(n, r, m) \in Edges
  BY DEF Edge
<1>2. StackEdges(q) \subseteq Edges
  <2> SUFFICES ASSUME NEW n \in DOMAIN q,
                      {m \in DOMAIN q : q[m].head = q[n].base} # {}
               PROVE  Edge(Greatest({m \in DOMAIN q : q[m].head = q[n].base}), "O1", n) \in Edges
    BY DEF StackEdges
  <2> DEFINE S == {m \in DOMAIN q : q[m].head = q[n].base}
  <2>1. S \in SUBSET DOMAIN q /\ S \in SUBSET Nat /\ IsFiniteSet(S) /\ S # {}
    BY Snapshot, FS_Subset
  <2>2. Greatest(S) \in S
    BY <2>1, GreatestMember
  <2> QED
    BY <2>1, <2>2, <1>1 DEF Rules
<1>3. DeclaredEdges(q) \subseteq Edges
  BY <1>1 DEF DeclaredEdges, Rules
<1>4. OverlapEdges(q) \subseteq Edges
  BY <1>1 DEF OverlapEdges, Rules
<1>5. SnapshotEdges(q) \subseteq Edges
  BY <1>1 DEF SnapshotEdges, Rules
<1> QED
  BY <1>2, <1>3, <1>4, <1>5 DEF DerivedEdges

\* Edges over finitely many numbers are finitely many.
LEMMA EdgesFinite ==
  ASSUME NEW N, IsFiniteSet(N), NEW E \in SUBSET [from : N, rule : Rules, to : N]
  PROVE  IsFiniteSet(E)
<1> DEFINE T == (N \X Rules) \X N
           f == [e \in E |-> <<<<e.from, e.rule>>, e.to>>]
<1>1. IsFiniteSet(Rules)
  <2>1. Rules = (({"O1"} \cup {"O2"}) \cup {"O3"}) \cup {"O4"}
    BY DEF Rules
  <2>2. IsFiniteSet({"O1"})
    BY FS_Singleton
  <2>3. IsFiniteSet({"O1"} \cup {"O2"})
    BY <2>2, FS_AddElement
  <2>4. IsFiniteSet(({"O1"} \cup {"O2"}) \cup {"O3"})
    BY <2>3, FS_AddElement
  <2> QED
    BY <2>1, <2>4, FS_AddElement
<1>2. IsFiniteSet(T)
  <2>1. IsFiniteSet(N \X Rules)
    BY <1>1, FS_Product
  <2> QED
    BY <2>1, FS_Product
<1>3. f \in [E -> T]
  OBVIOUS
<1>4. \A d, e \in E : f[d] = f[e] => d = e
  OBVIOUS
<1>5. f \in Injection(E, T)
  BY <1>3, <1>4 DEF Injection, IsInjective
<1> QED
  BY <1>2, <1>5, FS_Injection

-----------------------------------------------------------------------------
(* The gate *)

\* Every pull request has a ceiling among the verdicts.
LEMMA CeilingVerdict ==
  ASSUME NEW pr \in Facts
  PROVE  Ceiling(pr) \in Verdicts
<1>1. Blockers(pr) \subseteq {"ESCALATE", "ACT", "WAIT"}
  BY DEF Blockers
<1>2. ASSUME NEW vs \in SUBSET {"ESCALATE", "ACT", "WAIT"}
      PROVE  Strictest(vs) \in Verdicts
  <2>1. CASE vs = {}
    BY <2>1 DEF Strictest, Verdicts
  <2>2. CASE vs # {}
    <3>1. /\ Rank["ESCALATE"] = 1
          /\ Rank["ACT"] = 2
          /\ Rank["WAIT"] = 3
      BY DEF Rank, Verdicts
    <3>2. \E v \in vs : \A w \in vs : Rank[v] <= Rank[w]
      <4>1. /\ Rank["ESCALATE"] <= Rank["ESCALATE"]
            /\ Rank["ESCALATE"] <= Rank["ACT"]
            /\ Rank["ESCALATE"] <= Rank["WAIT"]
            /\ Rank["ACT"] <= Rank["ACT"]
            /\ Rank["ACT"] <= Rank["WAIT"]
            /\ Rank["WAIT"] <= Rank["WAIT"]
        BY <3>1
      <4>2. CASE "ESCALATE" \in vs
        BY <4>1, <4>2, Zenon
      <4>3. CASE "ESCALATE" \notin vs /\ "ACT" \in vs
        BY <4>1, <4>3, Zenon
      <4>4. CASE "ESCALATE" \notin vs /\ "ACT" \notin vs
        BY <4>1, <4>4, <2>2, Zenon
      <4> QED
        BY <4>2, <4>3, <4>4
    <3>3. Strictest(vs) \in vs
      BY <2>2, <3>2 DEF Strictest
    <3> QED
      BY <3>3 DEF Verdicts
  <2> QED
    BY <2>1, <2>2
<1> QED
  BY <1>1, <1>2 DEF Ceiling, Verdicts

\* A verdict is within its own ceiling, and ESCALATE is within every one.
LEMMA WithinCeiling ==
  ASSUME NEW v \in Verdicts
  PROVE  /\ IsWithinCeiling(v, v)
         /\ IsWithinCeiling(v, "ESCALATE")
  BY DEF IsWithinCeiling, Rank, Verdicts

\* Whatever the model replies, the verdict is within the ceiling, and a stop
\* escalates.
LEMMA JudgedWithinCeiling ==
  ASSUME NEW pr \in Facts, NEW reply \in Reply
  PROVE  /\ Judged(pr, reply) \in Verdicts
         /\ Stopped(pr) => Judged(pr, reply) = "ESCALATE"
         /\ IsWithinCeiling(Ceiling(pr), Judged(pr, reply))
<1>1. Ceiling(pr) \in Verdicts
  BY CeilingVerdict
<1>2. reply.verdict \in Verdicts
  BY DEF Reply
<1>3. "ESCALATE" \in Verdicts
  BY DEF Verdicts
<1> QED
  BY <1>1, <1>2, <1>3, WithinCeiling DEF Judged

-----------------------------------------------------------------------------
(* The invariant is inductive *)

\* The part of the invariant that is about the sort.
SortInv == Counts /\ ReadyList /\ Distinct /\ MergeOrder /\ LeastChosen

LEMMA InitInv == Init => IInv
<1> SUFFICES ASSUME Init PROVE IInv
  OBVIOUS
<1>1. /\ Numbers \in SUBSET PRs
      /\ Numbers \in SUBSET (Nat \ {0})
      /\ IsFiniteSet(Numbers)
      /\ queue \in [Numbers -> Facts]
  BY Snapshot DEF Init, Numbers
<1>2. /\ edges \subseteq [from : Numbers, rule : Rules, to : Numbers]
      /\ \A e \in edges : e.from # e.to
  BY EdgesJoin DEF Init, Numbers
<1>3. IsFiniteSet(edges)
  BY <1>1, <1>2, EdgesFinite
<1>4. Shapes
  <2>1. verdict \in [Numbers -> Verdicts \cup {"none"}]
    BY DEF Init
  <2>2. order = <<>> /\ sequence = <<>> /\ executed = <<>> /\ at = 1
    BY DEF Init
  <2>3. pending = {} /\ reached = {}
    BY DEF Init
  <2>4. phase \in {"sort", "done"} /\ only \in OnlyChoices /\ apply \in BOOLEAN
    BY DEF Init
  <2> QED
    BY <1>1, <1>2, <1>3, <2>1, <2>2, <2>3, <2>4 DEF Shapes
<1>5. order = <<>> /\ Placed = {}
  BY DEF Init, Placed
<1>6. \A n \in Numbers : Unmet(n) = Into(n)
  BY <1>5 DEF Unmet
<1>7. Counts
  BY <1>6 DEF Init, Counts
<1>8. ReadyList
  BY <1>5, <1>6 DEF Init, ReadyList
<1>9. Distinct /\ MergeOrder /\ LeastChosen
  BY <1>5 DEF Distinct, MergeOrder, LeastChosen
<1>10. Numbers = {} => ready = {}
  BY DEF Init
<1>11. Stages
  BY <1>10 DEF Init, Stages
<1>12. EntriesSorted
  <2>1. sequence = <<>>
    BY DEF Init
  <2>2. phase # "sort" => Numbers = {}
    BY DEF Init
  <2>3. Entries = {}
    BY <2>1 DEF Entries
  <2> QED
    BY <2>1, <2>2, <2>3 DEF EntriesSorted
<1>13. VerdictsLeashed
  <2>1. sequence = <<>> /\ \A n \in Numbers : verdict[n] = "none"
    BY DEF Init
  <2>2. Entries = {}
    BY <2>1 DEF Entries
  <2> QED
    BY <2>1, <2>2 DEF VerdictsLeashed, Applied
<1>14. SearchClosed
  BY DEF Init, SearchClosed
<1>15. EscalationsSpread
  <2>1. Entries = {}
    BY DEF Init, Entries
  <2> QED
    BY <2>1 DEF EscalationsSpread, Applied
<1>16. ExecutedBehind
  <2>1. executed = <<>>
    BY DEF Init
  <2> QED
    BY <2>1 DEF ExecutedBehind
<1> QED
  BY <1>4, <1>7, <1>8, <1>9, <1>11, <1>12, <1>13, <1>14, <1>15, <1>16 DEF IInv

\* What a turn of the sort leaves: one more place, and one number fewer to wait
\* for.
LEMMA PlaceFacts ==
  ASSUME IInv, Place
  PROVE  /\ Least(ready) \in Numbers \ Placed
         /\ Unmet(Least(ready)) = {}
         /\ \A m \in ready : Least(ready) <= m
         /\ order' = Append(order, Least(ready))
         /\ Len(order') = Len(order) + 1
         /\ order'[Len(order) + 1] = Least(ready)
         /\ \A i \in 1..Len(order) : order'[i] = order[i]
         /\ Numbers' = Numbers
         /\ Placed' = Placed \cup {Least(ready)}
         /\ \A m \in Numbers : Into(m)' = Into(m)
         /\ \A m \in Numbers : Unmet(m)' = Unmet(m) \ Between(Least(ready), m)
         /\ \A m \in Numbers : Between(Least(ready), m) \subseteq Unmet(m)
<1> DEFINE n == Least(ready)
<1>1. ready \in SUBSET Nat /\ ready # {}
  BY QueueAssumption DEF IInv, Shapes, ReadyList, Place
<1>2. n \in ready /\ \A m \in ready : n <= m
  BY <1>1, LeastMember
<1>3. n \in Numbers \ Placed /\ Unmet(n) = {}
  BY <1>2 DEF IInv, ReadyList
<1>4. order' = Append(order, n) /\ queue' = queue /\ edges' = edges
  BY DEF Place, Fixed
<1> HIDE DEF n
<1>5. order \in Seq(Numbers)
  BY DEF IInv, Shapes
<1>6. /\ Len(order') = Len(order) + 1
      /\ order'[Len(order) + 1] = n
      /\ \A i \in 1..Len(order) : order'[i] = order[i]
  BY <1>3, <1>4, <1>5
<1>7. Numbers' = Numbers
  BY <1>4 DEF Numbers
<1>8. Placed' = Placed \cup {n}
  <2>1. Placed' = {order'[i] : i \in 1..(Len(order) + 1)}
    BY <1>6 DEF Placed
  <2>2. Len(order) \in Nat
    BY <1>5
  <2>3. 1..(Len(order) + 1) = 1..Len(order) \cup {Len(order) + 1}
    BY <2>2
  <2> QED
    BY <2>1, <2>3, <1>6 DEF Placed
<1>9. \A m \in Numbers : Into(m)' = Into(m)
  BY <1>4 DEF Into
<1>10. \A m \in Numbers : Unmet(m)' = Unmet(m) \ Between(n, m)
  BY <1>8, <1>4 DEF Unmet, Into, Between
<1>11. \A m \in Numbers : Between(n, m) \subseteq Unmet(m)
  BY <1>3 DEF Unmet, Into, Between
<1> QED
  BY <1>2, <1>3, <1>4, <1>6, <1>7, <1>8, <1>9, <1>10, <1>11 DEF n

\* A turn of the sort keeps the counts and the ready list exact.
LEMMA PlaceCounts ==
  ASSUME IInv, Place
  PROVE  Counts' /\ ReadyList'
<1> DEFINE n == Least(ready)
<1>1. PICK p \in Numbers \ Placed : p = n
  BY PlaceFacts
<1>2. \A m \in Numbers : /\ IsFiniteSet(Unmet(m))
                         /\ IsFiniteSet(Unmet(m) \ Between(n, m))
                         /\ Cardinality(Unmet(m) \ Between(n, m))
                              = Cardinality(Unmet(m)) - Cardinality(Between(n, m))
  <2> SUFFICES ASSUME NEW m \in Numbers
               PROVE  /\ IsFiniteSet(Unmet(m))
                      /\ IsFiniteSet(Unmet(m) \ Between(n, m))
                      /\ Cardinality(Unmet(m) \ Between(n, m))
                           = Cardinality(Unmet(m)) - Cardinality(Between(n, m))
    OBVIOUS
  <2>1. Unmet(m) \in SUBSET edges /\ IsFiniteSet(edges)
    BY DEF Unmet, Into, IInv, Shapes
  <2>2. IsFiniteSet(Unmet(m))
    BY <2>1, FS_Subset
  <2>3. Unmet(m) \cap Between(n, m) = Between(n, m)
    BY PlaceFacts
  <2> QED
    BY <2>2, <2>3, FS_Difference
<1>3. indegree' = [m \in Numbers |-> indegree[m] - Cardinality(Between(n, m))]
  BY DEF Place
<1>4. indegree = [m \in Numbers |-> Cardinality(Unmet(m))]
  BY DEF IInv, Counts
<1>5. \A m \in Numbers : indegree'[m] = Cardinality(Unmet(m)')
  <2> SUFFICES ASSUME NEW m \in Numbers PROVE indegree'[m] = Cardinality(Unmet(m)')
    OBVIOUS
  <2>1. Unmet(m)' = Unmet(m) \ Between(n, m)
    BY PlaceFacts
  <2>2. indegree'[m] = Cardinality(Unmet(m)) - Cardinality(Between(n, m))
    BY <1>3, <1>4
  <2> QED
    BY <2>1, <2>2, <1>2
<1>6. Counts'
  <2>1. Numbers' = Numbers
    BY PlaceFacts
  <2>2. indegree' = [m \in Numbers |-> Cardinality(Unmet(m)')]
    BY <1>3, <1>5
  <2> QED
    BY <2>1, <2>2 DEF Counts
<1>7. \A m \in Numbers : indegree'[m] = 0 <=> Unmet(m)' = {}
  <2> SUFFICES ASSUME NEW m \in Numbers PROVE indegree'[m] = 0 <=> Unmet(m)' = {}
    OBVIOUS
  <2>1. IsFiniteSet(Unmet(m)')
    BY <1>2, PlaceFacts
  <2> QED
    BY <2>1, <1>5, FS_EmptySet
<1>8. ready' = (ready \ {n}) \cup {m \in Numbers : Between(n, m) # {} /\ indegree'[m] = 0}
  BY DEF Place
<1>9. ready = {m \in Numbers \ Placed : Unmet(m) = {}}
  BY DEF IInv, ReadyList
<1>10. \A m \in Numbers : Between(n, m) # {} => m \notin Placed /\ m # n
  <2> SUFFICES ASSUME NEW m \in Numbers, NEW e \in Between(n, m)
               PROVE  m \notin Placed /\ m # n
    OBVIOUS
  <2>1. e \in edges /\ e.from = n /\ e.to = m
    BY DEF Between
  <2>2. m # n
    BY <2>1 DEF IInv, Shapes
  <2>3. ASSUME m \in Placed PROVE FALSE
    <3>1. PICK j \in 1..Len(order) : order[j] = m
      BY <2>3 DEF Placed
    <3>2. PICK i \in 1..(j - 1) : order[i] = n
      BY <3>1, <2>1 DEF IInv, MergeOrder
    <3>3. i \in 1..Len(order)
      <4>1. Len(order) \in Nat
        BY DEF IInv, Shapes
      <4> QED
        BY <4>1
    <3>4. n \in Placed
      BY <3>2, <3>3 DEF Placed
    <3> QED
      BY <3>4, <1>1
  <2> QED
    BY <2>2, <2>3
<1>11. ready' = {m \in Numbers \ (Placed \cup {n}) : Unmet(m)' = {}}
  <2>1. ASSUME NEW m \in ready'
        PROVE  m \in Numbers \ (Placed \cup {n}) /\ Unmet(m)' = {}
    <3>1. CASE m \in ready \ {n}
      BY <3>1, <1>9, PlaceFacts
    <3>2. CASE m \in Numbers /\ Between(n, m) # {} /\ indegree'[m] = 0
      BY <3>2, <1>7, <1>10
    <3> QED
      BY <2>1, <1>8, <3>1, <3>2
  <2>2. ASSUME NEW m \in Numbers, m \notin Placed, m # n, Unmet(m)' = {}
        PROVE  m \in ready'
    <3>1. CASE Unmet(m) = {}
      BY <3>1, <2>2, <1>8, <1>9
    <3>2. CASE Unmet(m) # {}
      <4>1. Between(n, m) # {}
        BY <3>2, <2>2, PlaceFacts
      <4> QED
        BY <4>1, <2>2, <1>7, <1>8
    <3> QED
      BY <3>1, <3>2
  <2> HIDE DEF n
  <2> QED
    BY <2>1, <2>2
<1> QED
  BY <1>6, <1>11, PlaceFacts DEF ReadyList

\* A turn of the sort keeps the order a merge order, least ready number first.
LEMMA PlaceOrder ==
  ASSUME IInv, Place
  PROVE  Distinct' /\ MergeOrder' /\ LeastChosen'
<1> DEFINE n == Least(ready)
           len == Len(order)
<1>1. /\ n \in Numbers \ Placed
      /\ Unmet(n) = {}
      /\ order'[len + 1] = n
      /\ \A i \in 1..len : order'[i] = order[i]
      /\ Len(order') = len + 1
  BY PlaceFacts
<1>2. len \in Nat
  BY DEF IInv, Shapes
<1>3. edges' = edges /\ Numbers' = Numbers /\ Placed = {order[i] : i \in 1..len}
  BY DEF Place, Fixed, Numbers, Placed
<1>4. \A e \in edges : e.to = n => e.from \in Placed
  BY <1>1 DEF Unmet, Into
<1>5. /\ \A i \in 1..(len + 1) : i \in 1..len \/ i = len + 1
      /\ \A i \in 1..len : i \in 1..(len + 1)
  BY <1>2
<1>6. Distinct'
  <2>1. \A i, j \in 1..len : order[i] = order[j] => i = j
    BY DEF IInv, Distinct
  <2>2. \A i \in 1..len : order[i] # n
    BY <1>1, <1>3
  <2> HIDE DEF n, len
  <2>3. \A i, j \in 1..(len + 1) : order'[i] = order'[j] => i = j
    BY <2>1, <2>2, <1>1, <1>5
  <2> QED
    BY <2>3, <1>1 DEF Distinct
<1>7. MergeOrder'
  <2>1. ASSUME NEW e \in edges, NEW j \in 1..(len + 1), order'[j] = e.to
        PROVE  \E i \in 1..(j - 1) : order'[i] = e.from
    <3>1. CASE j \in 1..len
      <4>1. PICK i \in 1..(j - 1) : order[i] = e.from
        BY <3>1, <2>1, <1>1 DEF IInv, MergeOrder
      <4>2. i \in 1..len
        BY <1>2, <3>1
      <4> QED
        BY <4>1, <4>2, <1>1
    <3>2. CASE j = len + 1
      <4>1. e.from \in Placed
        BY <3>2, <2>1, <1>1, <1>4
      <4>2. PICK i \in 1..len : order[i] = e.from
        BY <4>1, <1>3
      <4>3. i \in 1..(j - 1)
        BY <1>2, <3>2
      <4> QED
        BY <4>2, <4>3, <1>1
    <3> QED
      BY <3>1, <3>2, <1>5
  <2>2. \A e \in edges : \A j \in 1..(len + 1) :
          order'[j] = e.to => \E i \in 1..(j - 1) : order'[i] = e.from
    BY <2>1
  <2>3. Distinct'
    BY <1>6
  <2> HIDE DEF n, len
  <2> QED
    BY <2>2, <2>3, <1>1, <1>3 DEF MergeOrder, Distinct
<1>8. LeastChosen'
  <2>1. \A k \in 0..len : Before(k)' = Before(k)
    <3> SUFFICES ASSUME NEW k \in 0..len PROVE Before(k)' = Before(k)
      OBVIOUS
    <3>1. \A i \in 1..k : i \in 1..len
      BY <1>2
    <3>2. \A i \in 1..k : order'[i] = order[i]
      BY <3>1, <1>1
    <3> QED
      BY <3>2 DEF Before
  <2>2. \A m \in Numbers : Into(m)' = Into(m)
    BY PlaceFacts
  <2>3. ASSUME NEW k \in 1..(len + 1), NEW m \in Numbers,
               m \notin Before(k)',
               \A e \in Into(m)' : e.from \in Before(k - 1)'
        PROVE  order'[k] < m
    <3>1. CASE k \in 1..len
      <4>1. k \in 0..len /\ k - 1 \in 0..len
        BY <1>2, <3>1
      <4>2. m \notin Before(k) /\ \A e \in Into(m) : e.from \in Before(k - 1)
        BY <4>1, <2>1, <2>2, <2>3
      <4>3. order[k] < m
        BY <4>2, <3>1 DEF IInv, LeastChosen
      <4> QED
        BY <4>3, <3>1, <1>1
    <3>2. CASE k = len + 1
      <4>1. k - 1 = len /\ len \in 0..len
        BY <1>2, <3>2
      <4>2. Before(k - 1)' = Placed
        BY <4>1, <2>1, <1>3 DEF Before
      <4>3. Before(k)' = Placed'
        BY <3>2, <1>1 DEF Before, Placed
      <4>4. m \notin Placed /\ m # n
        BY <4>3, <2>3, PlaceFacts
      <4>5. Unmet(m) = {}
        BY <4>2, <2>2, <2>3 DEF Unmet
      <4>6. m \in ready
        BY <4>4, <4>5 DEF IInv, ReadyList
      <4>7. n <= m
        BY <4>6, PlaceFacts
      <4>8. n \in Nat /\ m \in Nat
        BY <1>1, QueueAssumption DEF IInv, Shapes
      <4>9. n < m
        BY <4>4, <4>7, <4>8
      <4> QED
        BY <4>9, <3>2, <1>1
    <3> QED
      BY <3>1, <3>2, <1>5
  <2>4. \A k \in 1..(len + 1) : \A m \in Numbers :
          m \notin Before(k)' /\ (\A e \in Into(m)' : e.from \in Before(k - 1)')
            => order'[k] < m
    BY <2>3
  <2> HIDE DEF n, len
  <2> QED
    BY <2>4, <1>1, <1>3 DEF LeastChosen
<1> QED
  BY <1>6, <1>7, <1>8

LEMMA PlaceInv ==
  ASSUME IInv, Place
  PROVE  IInv'
<1>1. /\ phase = "sort" /\ phase' = phase
      /\ queue' = queue /\ only' = only /\ apply' = apply /\ edges' = edges
      /\ sequence' = sequence /\ at' = at /\ verdict' = verdict
      /\ pending' = pending /\ reached' = reached /\ executed' = executed
  BY DEF Place, Fixed
<1>2. Numbers' = Numbers /\ Entries' = Entries
  BY <1>1 DEF Numbers, Entries
<1>3. Shapes'
  <2>1. order' \in Seq(Numbers)
    <3>1. order \in Seq(Numbers) /\ Least(ready) \in Numbers
      BY PlaceFacts DEF IInv, Shapes
    <3>2. order' = Append(order, Least(ready))
      BY PlaceFacts
    <3> HIDE DEF Numbers
    <3> QED
      BY <3>1, <3>2
  <2> QED
    BY <2>1, <1>1, <1>2 DEF IInv, Shapes
<1>4. sequence = <<>> /\ executed = <<>> /\ at = 1 /\ reached = {}
  BY <1>1 DEF IInv, Stages
<1>5. Stages'
  BY <1>1, <1>4 DEF Stages
<1>6. EntriesSorted'
  BY <1>1, <1>4 DEF EntriesSorted
<1>7. Placed \subseteq Placed'
  BY PlaceFacts
<1>8. VerdictsLeashed'
  <2>1. \A n \in Numbers : verdict[n] = "none" \/ Leashed(n)
    BY DEF IInv, VerdictsLeashed, Applied
  <2>2. \A n \in Numbers : Leashed(n) => Leashed(n)'
    BY <1>1, <1>7 DEF Leashed
  <2>3. \A n \in Numbers' : verdict'[n] = "none" \/ Leashed(n)'
    BY <2>1, <2>2, <1>1, <1>2
  <2> QED
    BY <2>3, <1>1, <1>4 DEF VerdictsLeashed, Applied
<1>9. SearchClosed' /\ EscalationsSpread'
  BY <1>1, <1>4 DEF SearchClosed, EscalationsSpread, Applied
<1>10. ExecutedBehind'
  BY <1>1, <1>4 DEF ExecutedBehind
<1> QED
  BY <1>3, <1>5, <1>6, <1>8, <1>9, <1>10, PlaceCounts, PlaceOrder DEF IInv

\* What the steps after the sort leave alone.
LEMMA SortUnchanged ==
  ASSUME IInv, UNCHANGED <<queue, edges, indegree, ready, order>>
  PROVE  /\ SortInv'
         /\ Numbers' = Numbers
         /\ Placed' = Placed
<1>1. Numbers' = Numbers /\ Placed' = Placed
  BY DEF Numbers, Placed
<1>2. \A n : Into(n)' = Into(n)
  BY DEF Into
<1>3. \A n : Unmet(n)' = Unmet(n)
  BY <1>1, <1>2 DEF Unmet
<1>4. \A k : Before(k)' = Before(k)
  BY DEF Before
<1>5. Counts'
  BY <1>1, <1>3 DEF IInv, Counts
<1>6. ReadyList'
  BY <1>1, <1>3 DEF IInv, ReadyList
<1>7. Distinct' /\ MergeOrder'
  BY DEF IInv, Distinct, MergeOrder
<1>8. LeastChosen'
  BY <1>1, <1>2, <1>4 DEF IInv, LeastChosen
<1> QED
  BY <1>1, <1>5, <1>6, <1>7, <1>8 DEF SortInv

\* The entries are the order, then the unplaced; or what --pr selects of them.
LEMMA SortedEntries ==
  ASSUME IInv, Sorted
  PROVE  /\ sequence' \in Seq(Numbers)
         /\ EntriesSorted'
<1>1. PICK cycle \in Listings(Numbers \ Placed) : sequence' = Selected(order \o cycle)
  BY DEF Sorted
<1> DEFINE len == Len(order)
           rest == Cardinality(Numbers \ Placed)
           all == order \o cycle
<1>2. order \in Seq(Numbers) /\ len \in Nat
  BY DEF IInv, Shapes
<1>3. rest \in Nat
  <2>1. IsFiniteSet(Numbers)
    BY QueueAssumption, FS_Subset DEF IInv, Shapes
  <2> QED
    BY <2>1, FS_Subset, FS_CardinalityType
<1>4. /\ cycle \in [1..rest -> Numbers \ Placed]
      /\ {cycle[i] : i \in 1..rest} = Numbers \ Placed
  BY DEF Listings
<1>5. cycle \in Seq(Numbers) /\ Len(cycle) = rest
  <2>1. cycle \in [1..rest -> Numbers]
    BY <1>4
  <2> HIDE DEF rest
  <2> QED
    BY <2>1, <1>3
<1>6. /\ all \in Seq(Numbers)
      /\ Len(all) = len + rest
      /\ \A i \in 1..len : all[i] = order[i]
      /\ \A i \in 1..rest : all[len + i] = cycle[i]
  <2> HIDE DEF rest, Numbers
  <2> QED
    BY <1>2, <1>3, <1>5
<1>7. \A i \in 1..(len + rest) : i \in 1..len \/ (i - len \in 1..rest /\ len + (i - len) = i)
  BY <1>2, <1>3
<1>8. Placed' = Placed /\ Numbers' = Numbers /\ edges' = edges
  BY SortUnchanged DEF Sorted, Fixed
<1>9. \A i \in 1..len : all[i] \in Placed
  BY <1>6 DEF Placed
<1>10. \A i \in 1..(len + rest) : all[i] \in Placed => i \in 1..len
  <2> SUFFICES ASSUME NEW i \in 1..(len + rest), i \notin 1..len PROVE all[i] \notin Placed
    OBVIOUS
  <2>1. i - len \in 1..rest /\ len + (i - len) = i
    BY <1>7
  <2>2. all[i] = cycle[i - len]
    BY <2>1, <1>6
  <2> QED
    BY <2>1, <2>2, <1>4
<1>11. CASE only = 0
  <2>1. sequence' = all
    BY <1>1, <1>11 DEF Selected
  <2>2. Len(sequence') = len + rest
    BY <2>1, <1>6
  <2>3. \A k, l \in 1..(len + rest) : all[k] = all[l] /\ all[k] \in Placed => k = l
    BY <1>6, <1>10 DEF IInv, Distinct
  <2>4. ASSUME NEW e \in edges, NEW k \in 1..(len + rest), NEW l \in 1..(len + rest),
               all[k] = e.from, all[l] = e.to, {e.from, e.to} \subseteq Placed
        PROVE  k < l
    <3>1. k \in 1..len /\ l \in 1..len
      BY <2>4, <1>10
    <3>2. order[k] = e.from /\ order[l] = e.to
      BY <2>4, <3>1, <1>6
    <3>3. PICK i \in 1..(l - 1) : order[i] = e.from
      BY <3>1, <3>2 DEF IInv, MergeOrder
    <3>4. i \in 1..len /\ i < l
      BY <3>1, <1>2
    <3>5. i = k
      BY <3>1, <3>2, <3>3, <3>4 DEF IInv, Distinct
    <3> QED
      BY <3>4, <3>5
  <2>5. Entries' = Numbers
    <3>1. Entries' = {all[i] : i \in 1..(len + rest)}
      BY <2>1, <2>2 DEF Entries
    <3>2. ASSUME NEW n \in Numbers PROVE \E i \in 1..(len + rest) : all[i] = n
      <4>1. CASE n \in Placed
        <5>1. PICK i \in 1..len : order[i] = n
          BY <4>1 DEF Placed
        <5>2. i \in 1..(len + rest)
          BY <1>2, <1>3
        <5> QED
          BY <5>1, <5>2, <1>6
      <4>2. CASE n \notin Placed
        <5>1. PICK i \in 1..rest : cycle[i] = n
          BY <4>2, <1>4
        <5>2. len + i \in 1..(len + rest)
          BY <1>2, <1>3
        <5> QED
          BY <5>1, <5>2, <1>6
      <4> QED
        BY <4>1, <4>2
    <3>3. \A i \in 1..(len + rest) : all[i] \in Numbers
      <4> HIDE DEF all, len, rest, Numbers
      <4> QED
        BY <1>6
    <3> HIDE DEF all, len, rest
    <3> QED
      BY <3>1, <3>2, <3>3
  <2> HIDE DEF all, len, rest
  <2> QED
    BY <2>1, <2>2, <2>3, <2>4, <2>5, <1>6, <1>8 DEF EntriesSorted
<1>12. CASE only # 0
  <2>1. \/ sequence' = <<only>> /\ only \in Numbers
        \/ sequence' = <<>>
    BY <1>1, <1>12 DEF Selected
  <2>2. only' = only
    BY DEF Sorted, Fixed
  <2>3. \A e \in edges : e.from # e.to
    BY DEF IInv, Shapes
  <2>4. CASE sequence' = <<only>> /\ only \in Numbers
    <3>1. Len(sequence') = 1 /\ sequence' \in Seq(Numbers)
      BY <2>4
    <3>2. \A k, l \in 1..Len(sequence') : k = l
      BY <3>1
    <3> QED
      BY <3>1, <3>2, <2>2, <2>3, <1>8, <1>12 DEF EntriesSorted
  <2>5. CASE sequence' = <<>>
    BY <2>5, <2>2, <1>12 DEF EntriesSorted
  <2> QED
    BY <2>1, <2>4, <2>5
<1> QED
  BY <1>11, <1>12

LEMMA SortedInv ==
  ASSUME IInv, Sorted
  PROVE  IInv'
<1>1. /\ phase = "sort" /\ phase' = "decide"
      /\ queue' = queue /\ only' = only /\ apply' = apply /\ edges' = edges
      /\ indegree' = indegree /\ ready' = ready /\ order' = order /\ ready = {}
      /\ at' = at /\ verdict' = verdict
      /\ pending' = pending /\ reached' = reached /\ executed' = executed
  BY DEF Sorted, Fixed
<1>2. SortInv' /\ Numbers' = Numbers /\ Placed' = Placed
  BY <1>1, SortUnchanged
<1>3. Shapes'
  BY <1>1, <1>2, SortedEntries DEF IInv, Shapes
<1>4. executed = <<>> /\ at = 1 /\ reached = {}
  BY <1>1 DEF IInv, Stages
<1>5. Stages'
  BY <1>1, <1>4 DEF Stages
<1>6. VerdictsLeashed'
  <2>1. \A n \in Numbers : verdict[n] = "none" \/ Leashed(n)
    BY DEF IInv, VerdictsLeashed, Applied
  <2>2. \A n : Leashed(n)' = Leashed(n)
    BY <1>1, <1>2 DEF Leashed
  <2> QED
    BY <2>1, <2>2, <1>1, <1>2, <1>4 DEF VerdictsLeashed, Applied
<1>7. SearchClosed' /\ EscalationsSpread'
  BY <1>1, <1>4 DEF SearchClosed, EscalationsSpread, Applied
<1>8. ExecutedBehind'
  BY <1>1, <1>4 DEF ExecutedBehind
<1> QED
  BY <1>2, <1>3, <1>5, <1>6, <1>7, <1>8, SortedEntries DEF IInv, SortInv

\* Where the entries and what they are sorted by stay, so does their order.
LEMMA EntriesUnchanged ==
  ASSUME IInv, phase # "sort",
         UNCHANGED <<queue, only, edges, indegree, ready, order, sequence>>
  PROVE  EntriesSorted' /\ Entries' = Entries
<1>1. Entries' = Entries /\ Numbers' = Numbers /\ Placed' = Placed
  BY SortUnchanged DEF Entries
<1> QED
  BY <1>1 DEF IInv, EntriesSorted

LEMMA DecideInv ==
  ASSUME IInv, Decide
  PROVE  IInv'
<1>1. /\ phase = "decide" /\ phase' = phase
      /\ queue' = queue /\ only' = only /\ apply' = apply /\ edges' = edges
      /\ indegree' = indegree /\ ready' = ready /\ order' = order
      /\ sequence' = sequence /\ at' = at + 1
      /\ pending' = pending /\ reached' = reached /\ executed' = executed
  BY DEF Decide, Fixed
<1>2. at \in 1..Len(sequence) /\ sequence[at] \in Numbers
  BY DEF Decide, IInv, Shapes
<1>3. PICK n \in Numbers : n = sequence[at]
  BY <1>2
<1>4. PICK reply \in Reply :
        verdict' = [verdict EXCEPT ![n] =
          IF n \notin Placed THEN "ESCALATE" ELSE Judged(queue[n], reply)]
  BY <1>3 DEF Decide
<1>5. SortInv' /\ Numbers' = Numbers /\ Placed' = Placed
  BY <1>1, SortUnchanged
<1>6. EntriesSorted' /\ Entries' = Entries
  BY <1>1, EntriesUnchanged
<1>7. queue[n] \in Facts /\ verdict \in [Numbers -> Verdicts \cup {"none"}]
  BY DEF IInv, Shapes
<1>8. verdict'[n] = IF n \notin Placed THEN "ESCALATE" ELSE Judged(queue[n], reply)
  BY <1>4, <1>7
<1>9. \A m \in Numbers : m # n => verdict'[m] = verdict[m]
  BY <1>4, <1>7
<1>10. Leashed(n)'
  <2>1. Ceiling(queue[n]) \in Verdicts /\ "ESCALATE" \in Verdicts
    BY <1>7, CeilingVerdict DEF Verdicts
  <2>2. /\ verdict'[n] \in Verdicts
        /\ n \notin Placed \/ Stopped(queue[n]) => verdict'[n] = "ESCALATE"
        /\ IsWithinCeiling(Ceiling(queue[n]), verdict'[n])
    BY <2>1, <1>7, <1>8, JudgedWithinCeiling, WithinCeiling
  <2> QED
    BY <2>2, <1>1, <1>5 DEF Leashed
<1>11. verdict'[n] \in Verdicts /\ "none" \notin Verdicts
  BY <1>10 DEF Leashed, Verdicts
<1>12. Shapes'
  <2>1. verdict' \in [Numbers -> Verdicts \cup {"none"}]
    BY <1>4, <1>7, <1>8, <1>11
  <2>2. at' \in Nat \ {0}
    BY <1>1, <1>2
  <2> QED
    BY <2>1, <2>2, <1>1, <1>5 DEF IInv, Shapes
<1>13. executed = <<>>
  BY <1>1 DEF IInv, Stages
<1>14. Stages'
  BY <1>1 DEF IInv, Stages
<1>15. VerdictsLeashed'
  <2>1. \A m \in Numbers : verdict'[m] = "none" \/ Leashed(m)'
    <3> SUFFICES ASSUME NEW m \in Numbers PROVE verdict'[m] = "none" \/ Leashed(m)'
      OBVIOUS
    <3>1. CASE m = n
      BY <3>1, <1>10
    <3>2. CASE m # n
      <4>1. verdict[m] = "none" \/ Leashed(m)
        BY DEF IInv, VerdictsLeashed, Applied
      <4> QED
        BY <4>1, <3>2, <1>1, <1>5, <1>9 DEF Leashed
    <3> QED
      BY <3>1, <3>2
  <2>2. ASSUME NEW i \in 1..Len(sequence), i < at + 1 PROVE verdict'[sequence[i]] # "none"
    <3>1. sequence[i] \in Numbers
      BY DEF IInv, Shapes
    <3>2. CASE sequence[i] = n
      BY <3>2, <1>11
    <3>3. CASE sequence[i] # n
      <4>1. i < at
        BY <3>3, <2>2, <1>2, <1>3
      <4>2. verdict[sequence[i]] # "none"
        BY <4>1, <1>1 DEF IInv, VerdictsLeashed, Applied
      <4> QED
        BY <4>2, <3>1, <3>3, <1>9
    <3> QED
      BY <3>2, <3>3
  <2> QED
    BY <2>1, <2>2, <1>1, <1>5, <1>13 DEF VerdictsLeashed, Applied
<1>16. SearchClosed' /\ EscalationsSpread'
  BY <1>1, <1>13 DEF SearchClosed, EscalationsSpread, Applied
<1>17. ExecutedBehind'
  BY <1>1, <1>13 DEF ExecutedBehind
<1> QED
  BY <1>5, <1>6, <1>12, <1>14, <1>15, <1>16, <1>17 DEF IInv, SortInv

\* What the steps that leave the verdicts and the sort alone keep.
LEMMA LeashUnchanged ==
  ASSUME IInv, UNCHANGED <<queue, edges, indegree, ready, order, verdict>>
  PROVE  \A n \in Numbers : verdict'[n] = "none" \/ Leashed(n)'
<1>1. \A n \in Numbers : verdict[n] = "none" \/ Leashed(n)
  BY DEF IInv, VerdictsLeashed, Applied
<1>2. \A n : Leashed(n)' = Leashed(n)
  BY SortUnchanged DEF Leashed
<1> QED
  BY <1>1, <1>2

LEMMA DecidedInv ==
  ASSUME IInv, Decided
  PROVE  IInv'
<1>1. /\ phase = "decide" /\ phase' = "spread"
      /\ queue' = queue /\ only' = only /\ apply' = apply /\ edges' = edges
      /\ indegree' = indegree /\ ready' = ready /\ order' = order
      /\ sequence' = sequence /\ at' = at /\ at > Len(sequence)
      /\ verdict' = verdict /\ reached' = reached /\ executed' = executed
      /\ pending' = {n \in Entries : verdict[n] = "ESCALATE"}
  BY DEF Decided, Fixed
<1>2. SortInv' /\ Numbers' = Numbers /\ Placed' = Placed
  BY <1>1, SortUnchanged
<1>3. EntriesSorted' /\ Entries' = Entries
  BY <1>1, EntriesUnchanged
<1>4. reached = {} /\ executed = <<>>
  BY <1>1 DEF IInv, Stages
<1>5. Shapes'
  <2>1. Entries \subseteq Numbers
    BY DEF Entries, IInv, Shapes
  <2>2. pending' \subseteq Numbers
    BY <1>1, <2>1
  <2> QED
    BY <2>2, <1>1, <1>2 DEF IInv, Shapes
<1>6. Stages'
  BY <1>1, <1>4 DEF IInv, Stages
<1>7. VerdictsLeashed'
  <2>1. \A i \in 1..Len(sequence) : i < at
    BY <1>1 DEF IInv, Shapes
  <2>2. \A n \in Entries : verdict[n] # "none"
    BY <2>1, <1>1 DEF IInv, VerdictsLeashed, Entries, Applied
  <2> QED
    BY <2>2, <1>1, <1>2, <1>3, LeashUnchanged DEF VerdictsLeashed, Applied
<1>8. SearchClosed'
  BY <1>1, <1>3, <1>4 DEF SearchClosed
<1>9. EscalationsSpread' /\ ExecutedBehind'
  BY <1>1, <1>4 DEF EscalationsSpread, ExecutedBehind, Applied
<1> QED
  BY <1>2, <1>3, <1>5, <1>6, <1>7, <1>8, <1>9 DEF IInv, SortInv

LEMMA ReachInv ==
  ASSUME IInv, Reach
  PROVE  IInv'
<1>1. /\ phase = "spread" /\ phase' = phase
      /\ queue' = queue /\ only' = only /\ apply' = apply /\ edges' = edges
      /\ indegree' = indegree /\ ready' = ready /\ order' = order
      /\ sequence' = sequence /\ at' = at
      /\ verdict' = verdict /\ executed' = executed
  BY DEF Reach, Fixed
<1>2. PICK n \in pending :
        /\ reached' = reached \cup ({m \in Numbers : Between(n, m) # {}} \ reached)
        /\ pending' = (pending \ {n}) \cup ({m \in Numbers : Between(n, m) # {}} \ reached)
  BY DEF Reach
<1>3. SortInv' /\ Numbers' = Numbers /\ Placed' = Placed
  BY <1>1, SortUnchanged
<1>4. EntriesSorted' /\ Entries' = Entries
  BY <1>1, EntriesUnchanged
<1>5. Shapes'
  <2>1. pending' \subseteq Numbers /\ reached' \subseteq Numbers
    BY <1>2 DEF IInv, Shapes
  <2> QED
    BY <2>1, <1>1, <1>3 DEF IInv, Shapes
<1>6. Stages'
  BY <1>1 DEF IInv, Stages
<1>7. VerdictsLeashed'
  BY <1>1, <1>3, <1>4, LeashUnchanged DEF IInv, VerdictsLeashed, Applied
<1>8. SearchClosed'
  <2> SUFFICES ASSUME NEW e \in edges
               PROVE  \/ e.from \in pending'
                      \/ e.to \in reached'
                      \/ e.from \notin reached'
                           /\ (e.from \in Entries => verdict[e.from] # "ESCALATE")
    BY <1>1, <1>4 DEF SearchClosed
  <2>1. e.from \in Numbers /\ e.to \in Numbers
    BY DEF IInv, Shapes
  <2>2. CASE e.from = n
    <3>1. e \in Between(n, e.to)
      BY <2>2 DEF Between
    <3> QED
      BY <3>1, <2>1, <1>2
  <2>3. CASE e.from # n
    BY <2>3, <1>1, <1>2 DEF IInv, SearchClosed
  <2> QED
    BY <2>2, <2>3
<1>9. EscalationsSpread' /\ ExecutedBehind'
  <2>1. executed = <<>>
    BY <1>1 DEF IInv, Stages
  <2> QED
    BY <2>1, <1>1 DEF EscalationsSpread, Applied, ExecutedBehind
<1> QED
  BY <1>3, <1>4, <1>5, <1>6, <1>7, <1>8, <1>9 DEF IInv, SortInv

LEMMA RecordInv ==
  ASSUME IInv, Record
  PROVE  IInv'
<1>1. /\ phase = "spread" /\ phase' \in {"apply", "done"} /\ pending = {}
      /\ queue' = queue /\ only' = only /\ apply' = apply /\ edges' = edges
      /\ indegree' = indegree /\ ready' = ready /\ order' = order
      /\ sequence' = sequence /\ at' = 1
      /\ pending' = pending /\ reached' = reached /\ executed' = executed
  BY DEF Record, Fixed
<1>2. verdict' = [n \in Numbers |->
        IF n \in Entries /\ n \in reached THEN "ESCALATE" ELSE verdict[n]]
  BY DEF Record
<1>3. SortInv' /\ Numbers' = Numbers /\ Placed' = Placed
  BY <1>1, SortUnchanged
<1>4. EntriesSorted' /\ Entries' = Entries
  BY <1>1, EntriesUnchanged
<1>5. executed = <<>>
  BY <1>1 DEF IInv, Stages
<1>6. "ESCALATE" \in Verdicts /\ "ESCALATE" # "none"
  BY DEF Verdicts
<1>7. Shapes'
  <2>1. verdict' \in [Numbers -> Verdicts \cup {"none"}]
    BY <1>2, <1>6 DEF IInv, Shapes
  <2> QED
    BY <2>1, <1>1, <1>3 DEF IInv, Shapes
<1>8. Stages'
  BY <1>1, <1>5 DEF IInv, Stages
<1>9. VerdictsLeashed'
  <2>1. ASSUME NEW n \in Numbers PROVE verdict'[n] = "none" \/ Leashed(n)'
    <3>1. CASE n \in Entries /\ n \in reached
      <4>1. verdict'[n] = "ESCALATE" /\ Ceiling(queue[n]) \in Verdicts
        BY <3>1, <1>2, CeilingVerdict DEF IInv, Shapes
      <4>2. IsWithinCeiling(Ceiling(queue[n]), "ESCALATE")
        BY <4>1, WithinCeiling
      <4> QED
        BY <4>1, <4>2, <1>1, <1>6 DEF Leashed
    <3>2. CASE ~(n \in Entries /\ n \in reached)
      <4>1. verdict[n] = "none" \/ Leashed(n)
        BY DEF IInv, VerdictsLeashed, Applied
      <4> QED
        BY <4>1, <3>2, <1>1, <1>2, <1>3 DEF Leashed
    <3> QED
      BY <3>1, <3>2
  <2>2. \A n \in Entries : verdict[n] # "none" /\ n \in Numbers
    BY <1>1 DEF IInv, VerdictsLeashed, Entries, Shapes, Applied
  <2>3. \A n \in Entries : verdict'[n] # "none"
    BY <2>2, <1>2, <1>6
  <2> QED
    BY <2>1, <2>3, <1>1, <1>3, <1>4 DEF VerdictsLeashed, Applied
<1>10. SearchClosed'
  BY <1>1 DEF SearchClosed
<1>11. EscalationsSpread'
  <2> SUFFICES ASSUME NEW e \in edges, {e.from, e.to} \subseteq Entries,
                      verdict'[e.from] = "ESCALATE"
               PROVE  verdict'[e.to] = "ESCALATE"
    BY <1>1, <1>4 DEF EscalationsSpread, Applied
  <2>1. e.from \in Numbers /\ e.to \in Numbers
    BY DEF IInv, Shapes
  <2>2. e.from \in reached \/ verdict[e.from] = "ESCALATE"
    BY <2>1, <1>2
  <2>3. e.to \in reached
    BY <2>2, <1>1 DEF IInv, SearchClosed
  <2> QED
    BY <2>1, <2>3, <1>2
<1>12. ExecutedBehind'
  BY <1>1, <1>5 DEF ExecutedBehind
<1> QED
  BY <1>3, <1>4, <1>7, <1>8, <1>9, <1>10, <1>11, <1>12 DEF IInv, SortInv

LEMMA ExecuteInv ==
  ASSUME IInv, Execute
  PROVE  IInv'
<1>1. /\ phase = "apply" /\ phase' = phase
      /\ queue' = queue /\ only' = only /\ apply' = apply /\ edges' = edges
      /\ indegree' = indegree /\ ready' = ready /\ order' = order
      /\ sequence' = sequence /\ at' = at + 1 /\ verdict' = verdict
      /\ pending' = pending /\ reached' = reached
      /\ verdict[sequence[at]] \in {"ACT", "ENQUEUE"}
  BY DEF Execute, Fixed
<1>2. at \in 1..Len(sequence) /\ sequence[at] \in Numbers
  BY DEF Execute, IInv, Shapes
<1>3. PICK outcome \in {"done", "error"} :
        executed' = Append(executed, [number |-> sequence[at], outcome |-> outcome])
  BY DEF Execute
<1> DEFINE Executed == [number : Numbers, outcome : {"done", "error"}]
           last == [number |-> sequence[at], outcome |-> outcome]
           len == Len(executed)
<1>4. executed \in Seq(Executed) /\ last \in Executed /\ last.number = sequence[at]
  BY <1>2 DEF IInv, Shapes
<1>5. /\ executed' \in Seq(Executed)
      /\ len \in Nat
      /\ Len(executed') = len + 1
      /\ executed'[len + 1] = last
      /\ \A i \in 1..len : executed'[i] = executed[i]
  <2> HIDE DEF Executed, last
  <2> QED
    BY <1>3, <1>4 DEF last
<1>6. \A i \in 1..(len + 1) : i \in 1..len \/ i = len + 1
  BY <1>5
<1>7. SortInv' /\ Numbers' = Numbers /\ Placed' = Placed
  BY <1>1, SortUnchanged
<1>8. EntriesSorted' /\ Entries' = Entries
  BY <1>1, EntriesUnchanged
<1>9. Shapes'
  BY <1>1, <1>2, <1>5, <1>7 DEF IInv, Shapes
<1>10. Stages'
  BY <1>1 DEF IInv, Stages
<1>11. VerdictsLeashed'
  BY <1>1, <1>7, <1>8, LeashUnchanged DEF IInv, VerdictsLeashed, Applied
<1>12. SearchClosed' /\ EscalationsSpread'
  BY <1>1, <1>8 DEF IInv, SearchClosed, EscalationsSpread, Applied
<1>13. ASSUME NEW i \in 1..(len + 1)
       PROVE  /\ verdict[executed'[i].number] \in {"ACT", "ENQUEUE"}
              /\ \E k \in 1..Len(sequence) : k < at + 1 /\ sequence[k] = executed'[i].number
  <2>1. CASE i \in 1..len
    <3>1. PICK k \in 1..Len(sequence) : k < at /\ sequence[k] = executed[i].number
      BY <2>1 DEF IInv, ExecutedBehind
    <3>2. k < at + 1
      BY <3>1, <1>2
    <3>3. verdict[executed[i].number] \in {"ACT", "ENQUEUE"}
      BY <2>1 DEF IInv, ExecutedBehind
    <3> QED
      BY <2>1, <3>1, <3>2, <3>3, <1>5
  <2>2. CASE i = len + 1
    <3>1. executed'[i].number = sequence[at] /\ at < at + 1
      BY <2>2, <1>2, <1>4, <1>5
    <3> QED
      BY <3>1, <1>1, <1>2
  <2> QED
    BY <2>1, <2>2, <1>6
<1>14. ASSUME NEW i \in 1..(len + 1), NEW j \in 1..(len + 1), i < j
       PROVE  \E k, l \in 1..Len(sequence) :
                /\ k < l
                /\ l < at + 1
                /\ sequence[k] = executed'[i].number
                /\ sequence[l] = executed'[j].number
  <2>1. i \in 1..len
    BY <1>14, <1>5
  <2>2. CASE j \in 1..len
    <3>1. PICK k, l \in 1..Len(sequence) :
            /\ k < l
            /\ l < at
            /\ sequence[k] = executed[i].number
            /\ sequence[l] = executed[j].number
      BY <2>1, <2>2, <1>14 DEF IInv, ExecutedBehind
    <3>2. l < at + 1
      BY <3>1, <1>2
    <3> QED
      BY <2>1, <2>2, <3>1, <3>2, <1>5
  <2>3. CASE j = len + 1
    <3>1. PICK k \in 1..Len(sequence) : k < at /\ sequence[k] = executed[i].number
      BY <2>1 DEF IInv, ExecutedBehind
    <3>2. executed'[j].number = sequence[at] /\ at < at + 1
      BY <2>3, <1>2, <1>4, <1>5
    <3> QED
      BY <2>1, <3>1, <3>2, <1>2, <1>5
  <2> QED
    BY <2>2, <2>3, <1>6
<1>15. ExecutedBehind'
  <2> HIDE DEF len, last
  <2> QED
    BY <1>1, <1>5, <1>13, <1>14 DEF ExecutedBehind
<1> QED
  BY <1>7, <1>8, <1>9, <1>10, <1>11, <1>12, <1>15 DEF IInv, SortInv

LEMMA PassOverInv ==
  ASSUME IInv, PassOver
  PROVE  IInv'
<1>1. /\ phase = "apply" /\ phase' = phase
      /\ queue' = queue /\ only' = only /\ apply' = apply /\ edges' = edges
      /\ indegree' = indegree /\ ready' = ready /\ order' = order
      /\ sequence' = sequence /\ at' = at + 1 /\ verdict' = verdict
      /\ pending' = pending /\ reached' = reached /\ executed' = executed
  BY DEF PassOver, Fixed
<1>2. at \in Nat \ {0}
  BY DEF IInv, Shapes
<1>3. SortInv' /\ Numbers' = Numbers /\ Placed' = Placed
  BY <1>1, SortUnchanged
<1>4. EntriesSorted' /\ Entries' = Entries
  BY <1>1, EntriesUnchanged
<1>5. Shapes'
  BY <1>1, <1>2, <1>3 DEF IInv, Shapes
<1>6. Stages'
  BY <1>1 DEF IInv, Stages
<1>7. VerdictsLeashed'
  BY <1>1, <1>3, <1>4, LeashUnchanged DEF IInv, VerdictsLeashed, Applied
<1>8. SearchClosed' /\ EscalationsSpread'
  BY <1>1, <1>4 DEF IInv, SearchClosed, EscalationsSpread, Applied
<1>9. ExecutedBehind'
  <2>1. \A k \in 1..Len(sequence) : k < at => k < at + 1
    BY <1>2
  <2> QED
    BY <2>1, <1>1 DEF IInv, ExecutedBehind
<1> QED
  BY <1>3, <1>4, <1>5, <1>6, <1>7, <1>8, <1>9 DEF IInv, SortInv

LEMMA FinishInv ==
  ASSUME IInv, Finish
  PROVE  IInv'
<1>1. /\ phase = "apply" /\ phase' = "done"
      /\ queue' = queue /\ only' = only /\ apply' = apply /\ edges' = edges
      /\ indegree' = indegree /\ ready' = ready /\ order' = order
      /\ sequence' = sequence /\ at' = at /\ verdict' = verdict
      /\ pending' = pending /\ reached' = reached /\ executed' = executed
  BY DEF Finish, Fixed
<1>2. SortInv' /\ Numbers' = Numbers /\ Placed' = Placed
  BY <1>1, SortUnchanged
<1>3. EntriesSorted' /\ Entries' = Entries
  BY <1>1, EntriesUnchanged
<1>4. Shapes' /\ Stages'
  BY <1>1, <1>2 DEF IInv, Shapes, Stages
<1>5. VerdictsLeashed'
  BY <1>1, <1>2, <1>3, LeashUnchanged DEF IInv, VerdictsLeashed, Applied
<1>6. SearchClosed' /\ EscalationsSpread' /\ ExecutedBehind'
  BY <1>1, <1>3 DEF IInv, SearchClosed, EscalationsSpread, ExecutedBehind, Applied
<1> QED
  BY <1>2, <1>3, <1>4, <1>5, <1>6 DEF IInv, SortInv

LEMMA FailInv ==
  ASSUME IInv, Fail
  PROVE  IInv'
<1>1. /\ phase \in {"decide", "spread", "apply"} /\ phase' = "failed"
      /\ queue' = queue /\ only' = only /\ apply' = apply /\ edges' = edges
      /\ indegree' = indegree /\ ready' = ready /\ order' = order
      /\ sequence' = sequence /\ at' = at /\ verdict' = verdict
      /\ pending' = pending /\ reached' = reached /\ executed' = executed
  BY DEF Fail, Fixed
<1>2. SortInv' /\ Numbers' = Numbers /\ Placed' = Placed
  BY <1>1, SortUnchanged
<1>3. EntriesSorted' /\ Entries' = Entries
  BY <1>1, EntriesUnchanged
<1>4. Shapes' /\ Stages'
  BY <1>1, <1>2 DEF IInv, Shapes, Stages
<1>5. VerdictsLeashed'
  BY <1>1, <1>2, <1>3, LeashUnchanged DEF IInv, VerdictsLeashed, Applied
<1>6. SearchClosed' /\ EscalationsSpread'
  BY <1>1, <1>3 DEF IInv, SearchClosed, EscalationsSpread, Applied
<1>7. ExecutedBehind'
  BY <1>1 DEF IInv, ExecutedBehind
<1> QED
  BY <1>2, <1>3, <1>4, <1>5, <1>6, <1>7 DEF IInv, SortInv

LEMMA StutterInv ==
  ASSUME IInv, UNCHANGED vars
  PROVE  IInv'
<1>1. /\ phase' = phase
      /\ queue' = queue /\ only' = only /\ apply' = apply /\ edges' = edges
      /\ indegree' = indegree /\ ready' = ready /\ order' = order
      /\ sequence' = sequence /\ at' = at /\ verdict' = verdict
      /\ pending' = pending /\ reached' = reached /\ executed' = executed
  BY DEF vars
<1>2. SortInv' /\ Numbers' = Numbers /\ Placed' = Placed
  BY <1>1, SortUnchanged
<1>3. Entries' = Entries
  BY <1>1 DEF Entries
<1>4. Shapes' /\ Stages' /\ EntriesSorted'
  BY <1>1, <1>2, <1>3 DEF IInv, Shapes, Stages, EntriesSorted
<1>5. VerdictsLeashed'
  BY <1>1, <1>2, <1>3, LeashUnchanged DEF IInv, VerdictsLeashed, Applied
<1>6. SearchClosed' /\ EscalationsSpread'
  BY <1>1, <1>3 DEF IInv, SearchClosed, EscalationsSpread, Applied
<1>7. ExecutedBehind'
  BY <1>1 DEF IInv, ExecutedBehind
<1> QED
  BY <1>2, <1>4, <1>5, <1>6, <1>7 DEF IInv, SortInv

\* The invariant holds in every state of every pass (main).
THEOREM Invariance == Spec => []IInv
<1>1. Init => IInv
  BY InitInv
<1>2. IInv /\ [Next]_vars => IInv'
  BY PlaceInv, SortedInv, DecideInv, DecidedInv, ReachInv, RecordInv, ExecuteInv,
     PassOverInv, FinishInv, FailInv, StutterInv DEF Next
<1> QED
  BY <1>1, <1>2, PTL DEF Spec

-----------------------------------------------------------------------------
(* What follows from it *)

\* What is executed is an open pull request.
LEMMA ExecutedNumbers ==
  ASSUME IInv
  PROVE  \A i \in 1..Len(executed) : executed[i].number \in Numbers
<1> DEFINE Executed == [number : Numbers, outcome : {"done", "error"}]
<1>1. executed \in Seq(Executed)
  BY DEF IInv, Shapes
<1>2. \A i \in 1..Len(executed) : executed[i] \in Executed
  <2> HIDE DEF Executed
  <2> QED
    BY <1>1
<1> QED
  BY <1>2

\* Every variable keeps to its values; in particular no count of topoSort
\* falls below zero.
THEOREM Typing == Spec => []TypeOK
<1>1. IInv => TypeOK
  <2> SUFFICES ASSUME IInv PROVE TypeOK
    OBVIOUS
  <2>1. indegree \in [Numbers -> Nat]
    <3>1. \A n \in Numbers : Cardinality(Unmet(n)) \in Nat
      <4> SUFFICES ASSUME NEW n \in Numbers PROVE Cardinality(Unmet(n)) \in Nat
        OBVIOUS
      <4>1. Unmet(n) \in SUBSET edges /\ IsFiniteSet(edges)
        BY DEF Unmet, Into, IInv, Shapes
      <4> QED
        BY <4>1, FS_Subset, FS_CardinalityType
    <3> QED
      BY <3>1 DEF IInv, Counts
  <2>2. ready \subseteq Numbers
    BY DEF IInv, ReadyList
  <2> QED
    BY <2>1, <2>2 DEF IInv, Shapes, TypeOK, Rules
<1> QED
  BY <1>1, Invariance, PTL

\* No pull request is placed before one it merges after, or twice (topoSort).
THEOREM MergeOrdered == Spec => []MergeOrder
<1>1. IInv => MergeOrder
  BY DEF IInv
<1> QED
  BY <1>1, Invariance, PTL

\* What the sort leaves out waits for something else it leaves out (topoSort's
\* cycle).
THEOREM OnlyCyclesLeft == Spec => []OnlyCyclesUnplaced
<1>1. IInv => OnlyCyclesUnplaced
  <2> SUFFICES ASSUME IInv, phase # "sort", NEW n \in Numbers \ Placed
               PROVE  \E e \in Into(n) : e.from \notin Placed
    BY DEF OnlyCyclesUnplaced
  <2>1. ready = {}
    BY DEF IInv, Stages
  <2>2. Unmet(n) # {}
    BY <2>1 DEF IInv, ReadyList
  <2> QED
    BY <2>2 DEF Unmet
<1> QED
  BY <1>1, Invariance, PTL

\* The order is the one that always places the least number it may (topoSort's
\* ascending ready list).
THEOREM LeastFirst == Spec => []LeastReadyFirst
<1>1. IInv => LeastReadyFirst
  <2> SUFFICES ASSUME IInv,
                      NEW i \in 1..Len(order), NEW j \in 1..Len(order),
                      i < j, order[j] < order[i],
                      \A e \in Into(order[j]) : \A k \in i..(j - 1) : order[k] # e.from
               PROVE  FALSE
    BY DEF LeastReadyFirst
  <2>1. order[i] \in Nat /\ order[j] \in Nat /\ order[j] \in Numbers
    BY QueueAssumption DEF IInv, Shapes
  <2>2. order[j] \notin Before(i)
    <3> SUFFICES ASSUME NEW k \in 1..i, order[k] = order[j] PROVE FALSE
      BY DEF Before
    <3>1. k \in 1..Len(order) /\ k # j
      OBVIOUS
    <3> QED
      BY <3>1 DEF IInv, Distinct
  <2>3. \A e \in Into(order[j]) : e.from \in Before(i - 1)
    <3> SUFFICES ASSUME NEW e \in Into(order[j]) PROVE e.from \in Before(i - 1)
      OBVIOUS
    <3>1. e \in edges /\ e.to = order[j]
      BY DEF Into
    <3>2. PICK k \in 1..(j - 1) : order[k] = e.from
      BY <3>1 DEF IInv, MergeOrder
    <3>3. k \in 1..(i - 1)
      BY <3>2
    <3> QED
      BY <3>2, <3>3 DEF Before
  <2>4. order[i] < order[j]
    BY <2>1, <2>2, <2>3 DEF IInv, LeastChosen
  <2> QED
    BY <2>1, <2>4
<1> QED
  BY <1>1, Invariance, PTL

\* Nothing runs past its leash (isWithinCeiling, decide): no model's reply, and
\* no failure of it, lets a pull request be executed that the gate stops, that
\* lies on a cycle, or on a verdict weaker than its ceiling.
THEOREM Leash == Spec => []LeashHolds
<1>1. IInv => LeashHolds
  <2> SUFFICES ASSUME IInv, NEW i \in 1..Len(executed)
               PROVE  /\ executed[i].number \in Placed
                      /\ ~Stopped(queue[executed[i].number])
                      /\ verdict[executed[i].number] \in Verdicts
                      /\ IsWithinCeiling(Ceiling(queue[executed[i].number]),
                                         verdict[executed[i].number])
    BY DEF LeashHolds
  <2>1. verdict[executed[i].number] \in {"ACT", "ENQUEUE"}
    BY DEF IInv, ExecutedBehind
  <2>2. executed[i].number \in Numbers
    BY ExecutedNumbers
  <2>3. Leashed(executed[i].number)
    BY <2>1, <2>2 DEF IInv, VerdictsLeashed, Applied
  <2> QED
    BY <2>1, <2>3 DEF Leashed
<1> QED
  BY <1>1, Invariance, PTL

\* Before anything is executed, escalations have spread to all that merges
\* after (propagateEscalations).
THEOREM Spread == Spec => []EscalationsSpread
<1>1. IInv => EscalationsSpread
  BY DEF IInv
<1> QED
  BY <1>1, Invariance, PTL

\* Pull requests are executed once each and in the merge order (applyDecisions).
THEOREM InOrder == Spec => []ExecutesInOrder
<1>1. IInv => ExecutesInOrder
  <2> SUFFICES ASSUME IInv PROVE ExecutesInOrder
    OBVIOUS
  <2>1. \A i \in 1..Len(executed) : executed[i].number \in Placed
    <3> SUFFICES ASSUME NEW i \in 1..Len(executed) PROVE executed[i].number \in Placed
      OBVIOUS
    <3>1. verdict[executed[i].number] \in {"ACT", "ENQUEUE"}
      BY DEF IInv, ExecutedBehind
    <3>2. executed[i].number \in Numbers
      BY ExecutedNumbers
    <3> QED
      BY <3>1, <3>2 DEF IInv, VerdictsLeashed, Leashed
  <2>2. ASSUME NEW i \in 1..Len(executed), NEW j \in 1..Len(executed), i < j
        PROVE  executed[i].number # executed[j].number
    <3>1. PICK k, l \in 1..Len(sequence) :
            /\ k < l
            /\ l < at
            /\ sequence[k] = executed[i].number
            /\ sequence[l] = executed[j].number
      BY <2>2 DEF IInv, ExecutedBehind
    <3> QED
      BY <3>1, <2>1 DEF IInv, EntriesSorted
  <2>3. ASSUME NEW e \in edges, NEW i \in 1..Len(executed), NEW j \in 1..Len(executed),
               executed[i].number = e.from, executed[j].number = e.to, ~(i < j)
        PROVE  FALSE
    <3>1. i # j
      BY <2>3 DEF IInv, Shapes
    <3>2. j < i
      BY <3>1, <2>3
    <3>3. PICK k, l \in 1..Len(sequence) :
            /\ k < l
            /\ l < at
            /\ sequence[k] = executed[j].number
            /\ sequence[l] = executed[i].number
      BY <3>2 DEF IInv, ExecutedBehind
    <3>4. {e.from, e.to} \subseteq Placed
      BY <2>1, <2>3
    <3>5. l < k
      BY <3>3, <3>4, <2>3 DEF IInv, EntriesSorted
    <3> QED
      BY <3>3, <3>5
  <2>4. \A i, j \in 1..Len(executed) : executed[i].number = executed[j].number => i = j
    BY <2>2
  <2> QED
    BY <2>3, <2>4 DEF ExecutesInOrder
<1> QED
  BY <1>1, Invariance, PTL

\* A pass over the whole queue executes nothing that merges after what the gate
\* stops (propagateEscalations; a pass with --pr may, see JudgedInContext).
THEOREM WholeQueue ==
  ASSUME OnlyChoices = {0}
  PROVE  Spec => []JudgedInContext
<1>1. IInv => JudgedInContext
  <2> SUFFICES ASSUME IInv,
                      NEW i \in 1..Len(executed), NEW e \in Into(executed[i].number),
                      Stopped(queue[e.from])
               PROVE  FALSE
    BY DEF JudgedInContext
  <2>1. e \in edges /\ e.to = executed[i].number /\ e.from \in Numbers /\ e.to \in Numbers
    BY DEF Into, IInv, Shapes
  <2>2. Applied /\ phase # "sort"
    <3>1. executed # <<>>
      OBVIOUS
    <3> QED
      BY <3>1 DEF IInv, Stages, Applied
  <2>3. Entries = Numbers
    BY <2>2 DEF IInv, Shapes, EntriesSorted
  <2>4. verdict[e.from] # "none"
    BY <2>1, <2>2, <2>3 DEF IInv, VerdictsLeashed, Applied
  <2>5. verdict[e.from] = "ESCALATE"
    BY <2>1, <2>4 DEF IInv, VerdictsLeashed, Leashed
  <2>6. verdict[e.to] = "ESCALATE"
    BY <2>1, <2>2, <2>3, <2>5 DEF IInv, EscalationsSpread, Applied
  <2>7. verdict[e.to] \in {"ACT", "ENQUEUE"}
    BY <2>1 DEF IInv, ExecutedBehind
  <2> QED
    BY <2>6, <2>7
<1> QED
  BY <1>1, Invariance, PTL

-----------------------------------------------------------------------------
(* Spreading the escalations *)

\* The search reaches only what merges after an escalation.
SearchSound ==
  phase = "spread" => reached \subseteq Below /\ pending \subseteq Escalated \cup Below

\* What an edge leads to from an escalation, or from below one, is below it.
LEMMA BelowClosed ==
  ASSUME IInv, NEW e \in edges, e.from \in Escalated \cup Below
  PROVE  e.to \in Below
<1>1. e.from \in Numbers /\ e.to \in Numbers
  BY DEF IInv, Shapes
<1>2. ASSUME NEW S \in SUBSET Numbers,
             \A d \in edges : d.from \in Escalated \cup S => d.to \in S
      PROVE  e.to \in S
  <2>1. e.from \in Escalated \cup S
    BY <1>2 DEF Below
  <2> QED
    BY <1>2, <2>1
<1> QED
  BY <1>1, <1>2 DEF Below

LEMMA BelowUnchanged ==
  ASSUME UNCHANGED <<queue, edges, sequence, verdict>>
  PROVE  Below' = Below /\ Escalated' = Escalated
<1>1. Numbers' = Numbers /\ Escalated' = Escalated
  BY DEF Numbers, Escalated, Entries
<1> QED
  BY <1>1 DEF Below

LEMMA SearchSoundNext ==
  ASSUME IInv, SearchSound, [Next]_vars
  PROVE  SearchSound'
<1>1. CASE Decided
  <2>1. /\ pending' = {n \in Entries : verdict[n] = "ESCALATE"}
        /\ reached' = reached /\ phase = "decide"
        /\ UNCHANGED <<queue, edges, sequence, verdict>>
    BY <1>1 DEF Decided, Fixed
  <2>2. reached = {}
    BY <2>1 DEF IInv, Stages
  <2>3. pending' = Escalated
    BY <2>1 DEF Escalated
  <2> QED
    BY <2>1, <2>2, <2>3, BelowUnchanged DEF SearchSound
<1>2. CASE Reach
  <2>1. phase = "spread" /\ UNCHANGED <<queue, edges, sequence, verdict>>
    BY <1>2 DEF Reach, Fixed
  <2>2. PICK n \in pending :
          /\ reached' = reached \cup ({m \in Numbers : Between(n, m) # {}} \ reached)
          /\ pending' = (pending \ {n}) \cup ({m \in Numbers : Between(n, m) # {}} \ reached)
    BY <1>2 DEF Reach
  <2>3. n \in Escalated \cup Below
    BY <2>1 DEF SearchSound
  <2>4. ASSUME NEW m \in Numbers, Between(n, m) # {} PROVE m \in Below
    <3>1. PICK e \in edges : e.from = n /\ e.to = m
      BY <2>4 DEF Between
    <3> QED
      BY <2>3, <3>1, BelowClosed
  <2>5. reached' \subseteq Below /\ pending' \subseteq Escalated \cup Below
    BY <2>1, <2>2, <2>4 DEF SearchSound
  <2> QED
    BY <2>1, <2>5, BelowUnchanged DEF SearchSound
<1>3. CASE UNCHANGED vars
  <2>1. UNCHANGED <<phase, reached, pending>>
    BY <1>3 DEF vars
  <2>2. Below' = Below /\ Escalated' = Escalated
    BY <1>3, BelowUnchanged DEF vars
  <2> QED
    BY <2>1, <2>2 DEF SearchSound
<1>4. CASE Place \/ Sorted \/ Decide \/ Record \/ Execute \/ PassOver \/ Finish \/ Fail
  <2>1. phase' # "spread"
    BY <1>4 DEF Place, Sorted, Decide, Record, Execute, PassOver, Finish, Fail
  <2> QED
    BY <2>1 DEF SearchSound
<1> QED
  BY <1>1, <1>2, <1>3, <1>4 DEF Next

\* With nothing pending the search has reached all there is to reach.
LEMMA SearchComplete ==
  ASSUME IInv, phase = "spread", pending = {}
  PROVE  Below \subseteq reached
<1>1. reached \in SUBSET Numbers
  BY DEF IInv, Shapes
<1>2. \A e \in edges : e.from \in Escalated \cup reached => e.to \in reached
  BY DEF IInv, SearchClosed, Escalated
<1> QED
  BY <1>1, <1>2 DEF Below

\* Exactly what merges after an escalation is escalated, through stacks,
\* declarations, overlaps and cycles alike (propagateEscalations, descendants).
THEOREM SpreadIsExact == Spec => SpreadsExactly
<1> DEFINE Exact == phase = "spread" /\ phase' \in {"apply", "done"} =>
             \A n \in Numbers :
               verdict'[n] = IF n \in Entries \cap Below THEN "ESCALATE" ELSE verdict[n]
<1>1. Init => SearchSound
  BY DEF Init, SearchSound
<1>2. IInv /\ SearchSound /\ [Next]_vars => SearchSound'
  BY SearchSoundNext
<1>3. IInv /\ SearchSound /\ [Next]_vars => Exact
  <2> SUFFICES ASSUME IInv, SearchSound, [Next]_vars,
                      phase = "spread", phase' \in {"apply", "done"}, NEW n \in Numbers
               PROVE  verdict'[n] = IF n \in Entries \cap Below THEN "ESCALATE"
                                    ELSE verdict[n]
    OBVIOUS
  <2>1. Record
    BY DEF Next, Place, Sorted, Decide, Decided, Reach, Execute, PassOver, Finish, Fail, vars
  <2>2. pending = {} /\ verdict' = [m \in Numbers |->
          IF m \in Entries /\ m \in reached THEN "ESCALATE" ELSE verdict[m]]
    BY <2>1 DEF Record
  <2>3. Below = reached
    BY <2>2, SearchComplete DEF SearchSound
  <2> QED
    BY <2>2, <2>3
<1> HIDE DEF Exact
<1>4. [][Exact]_vars => SpreadsExactly
  BY PTL DEF SpreadsExactly, Exact
<1> QED
  BY <1>1, <1>2, <1>3, <1>4, Invariance, PTL DEF Spec

-----------------------------------------------------------------------------
(* Placing everything *)

\* The edges can be followed upwards only so far.
Acyclic == \E rank \in [Numbers -> Nat] : \A e \in edges : rank[e.from] < rank[e.to]

\* Where no edges close a circle the sort places every pull request, so none
\* is escalated for want of a place (topoSort).
THEOREM AcyclicPlaced == Spec => [](phase # "sort" /\ Acyclic => Placed = Numbers)
<1>1. IInv /\ OnlyCyclesUnplaced => (phase # "sort" /\ Acyclic => Placed = Numbers)
  <2> SUFFICES ASSUME IInv, OnlyCyclesUnplaced, phase # "sort", Acyclic, Numbers \ Placed # {}
               PROVE  FALSE
    BY DEF IInv, Shapes, Placed
  <2>1. PICK rank \in [Numbers -> Nat] : \A e \in edges : rank[e.from] < rank[e.to]
    BY DEF Acyclic
  <2> DEFINE Ranks == {rank[n] : n \in Numbers \ Placed}
  <2>2. Ranks \in SUBSET Nat /\ Ranks # {}
    OBVIOUS
  <2>3. PICK n \in Numbers \ Placed : \A m \in Numbers \ Placed : rank[n] <= rank[m]
    <3>1. Least(Ranks) \in Ranks /\ \A k \in Ranks : Least(Ranks) <= k
      <4> HIDE DEF Ranks
      <4> QED
        BY <2>2, LeastMember
    <3> QED
      BY <3>1
  <2>4. PICK e \in Into(n) : e.from \notin Placed
    BY <2>3 DEF OnlyCyclesUnplaced
  <2>5. e \in edges /\ e.to = n /\ e.from \in Numbers
    BY <2>4 DEF Into, IInv, Shapes
  <2>6. rank[e.from] < rank[n] /\ rank[n] <= rank[e.from]
    BY <2>1, <2>3, <2>4, <2>5
  <2>7. rank[e.from] \in Nat /\ rank[n] \in Nat
    BY <2>5
  <2> QED
    BY <2>6, <2>7
<1> QED
  BY <1>1, OnlyCyclesLeft, Invariance, PTL

-----------------------------------------------------------------------------
(* Getting done *)

LEMMA PhaseOrder ==
  /\ Phases["sort"] < Phases["decide"] /\ Phases["decide"] < Phases["spread"]
  /\ Phases["spread"] < Phases["apply"] /\ Phases["apply"] < Phases["done"]
  /\ Phases["spread"] < Phases["done"]
  /\ \A p \in {"decide", "spread", "apply"} : Phases[p] < Phases["failed"]
BY DEF Phases

\* Removing a member makes a finite set smaller by one.
LEMMA OneFewer ==
  ASSUME NEW S, IsFiniteSet(S), NEW x \in S
  PROVE  /\ Cardinality(S) \in Nat /\ Cardinality(S \ {x}) \in Nat
         /\ Cardinality(S \ {x}) = Cardinality(S) - 1
BY FS_RemoveElement, FS_CardinalityType

\* The open pull requests are finitely many.
LEMMA NumbersFinite ==
  ASSUME IInv
  PROVE  \A S \in SUBSET Numbers : IsFiniteSet(S) /\ Cardinality(S) \in Nat
BY QueueAssumption, FS_Subset, FS_CardinalityType DEF IInv, Shapes

LEMMA PlaceAdvances ==
  ASSUME IInv, Place
  PROVE  phase' = phase /\ Left' \in 0..(Left - 1)
<1>1. /\ Least(ready) \in Numbers \ Placed
      /\ Numbers' = Numbers
      /\ Placed' = Placed \cup {Least(ready)}
  BY PlaceFacts
<1>2. phase = "sort" /\ phase' = "sort"
  BY DEF Place
<1> DEFINE Rest == Numbers \ Placed
<1>3. (Numbers \ Placed)' = Rest \ {Least(ready)}
  BY <1>1
<1>4. IsFiniteSet(Rest) /\ Least(ready) \in Rest
  BY <1>1, NumbersFinite
<1>5. Left = Cardinality(Rest) /\ Left' = Cardinality(Rest \ {Least(ready)})
  BY <1>2, <1>3 DEF Left
<1> HIDE DEF Rest
<1> QED
  BY <1>2, <1>4, <1>5, OneFewer

LEMMA ReachAdvances ==
  ASSUME IInv, Reach
  PROVE  phase' = phase /\ Left' \in 0..(Left - 1)
<1>1. phase = "spread" /\ phase' = "spread" /\ Numbers' = Numbers
  BY DEF Reach, Fixed, Numbers
<1>2. PICK n \in pending :
        /\ reached' = reached \cup ({m \in Numbers : Between(n, m) # {}} \ reached)
        /\ pending' = (pending \ {n}) \cup ({m \in Numbers : Between(n, m) # {}} \ reached)
  BY DEF Reach
<1> DEFINE found == {m \in Numbers : Between(n, m) # {}} \ reached
           unseen == Numbers \ reached
           others == pending \ {n}
           fresh == found \ others
<1>3. found \subseteq unseen /\ pending \subseteq Numbers /\ others \subseteq Numbers
  BY DEF IInv, Shapes
<1>4. (Numbers \ reached)' = unseen \ found /\ pending' = others \cup fresh
  BY <1>1, <1>2
<1>5. /\ IsFiniteSet(found) /\ IsFiniteSet(unseen) /\ IsFiniteSet(pending)
      /\ IsFiniteSet(others) /\ IsFiniteSet(fresh)
      /\ n \in pending /\ fresh \subseteq found /\ others \cap fresh = {}
  BY <1>3, NumbersFinite
<1>6. /\ Left = 2 * Cardinality(unseen) + Cardinality(pending)
      /\ Left' = 2 * Cardinality(unseen \ found) + Cardinality(others \cup fresh)
  BY <1>1, <1>4 DEF Left
<1>7. Cardinality(others) = Cardinality(pending) - 1
  BY <1>5, OneFewer
<1> HIDE DEF found, unseen, others, fresh
<1>8. /\ Cardinality(found) \in Nat /\ Cardinality(unseen) \in Nat
      /\ Cardinality(pending) \in Nat /\ Cardinality(others) \in Nat
      /\ Cardinality(fresh) \in Nat /\ Cardinality(fresh) <= Cardinality(found)
  BY <1>5, FS_CardinalityType, FS_Subset
<1>9. Cardinality(unseen \ found) = Cardinality(unseen) - Cardinality(found)
  <2>1. /\ unseen \cap found = found
        /\ Cardinality(unseen \ found) = Cardinality(unseen) - Cardinality(unseen \cap found)
    BY <1>3, <1>5, FS_Difference
  <2> QED
    BY <2>1
<1>10. Cardinality(others \cup fresh) = Cardinality(others) + Cardinality(fresh)
  <2>1. Cardinality(others \cup fresh)
          = Cardinality(others) + Cardinality(fresh) - Cardinality(others \cap fresh)
    BY <1>5, FS_Union
  <2>2. Cardinality(others \cap fresh) = 0
    BY <1>5, FS_EmptySet
  <2> QED
    BY <1>8, <2>1, <2>2
<1>11. Cardinality(found) <= Cardinality(unseen)
  BY <1>3, <1>5, FS_Subset
<1> QED
  BY <1>1, <1>6, <1>7, <1>8, <1>9, <1>10, <1>11

LEMMA WalkAdvances ==
  ASSUME IInv, Decide \/ Execute \/ PassOver
  PROVE  phase' = phase /\ Left' \in 0..(Left - 1)
<1>1. /\ phase \in {"decide", "apply"} /\ phase' = phase /\ sequence' = sequence
      /\ at <= Len(sequence) /\ at' = at + 1
  BY DEF Decide, Execute, PassOver
<1>2. at \in Nat /\ Len(sequence) \in Nat
  BY DEF IInv, Shapes
<1>3. Left = Len(sequence) + 1 - at /\ Left' = Len(sequence) + 1 - (at + 1)
  BY <1>1 DEF Left
<1> QED
  BY <1>1, <1>2, <1>3

\* A pass consists of finitely many steps, whatever the snapshot, the answers of
\* the model and the failures: no loop of it goes round for ever (main).
THEOREM PassDoesAdvance == Spec => PassAdvances
<1> DEFINE Advance == \/ Phases[phase] < Phases[phase']
                      \/ phase' = phase /\ Left' \in 0..(Left - 1)
<1>1. IInv /\ [Next]_vars => [Advance]_vars
  <2> SUFFICES ASSUME IInv, Next PROVE Advance
    OBVIOUS
  <2>1. CASE Place
    BY <2>1, PlaceAdvances
  <2>2. CASE Sorted
    BY <2>2, PhaseOrder DEF Sorted
  <2>3. CASE Decide \/ Execute \/ PassOver
    BY <2>3, WalkAdvances
  <2>4. CASE Decided
    BY <2>4, PhaseOrder DEF Decided
  <2>5. CASE Reach
    BY <2>5, ReachAdvances
  <2>6. CASE Record
    BY <2>6, PhaseOrder DEF Record
  <2>7. CASE Finish
    BY <2>7, PhaseOrder DEF Finish
  <2>8. CASE Fail
    BY <2>8, PhaseOrder DEF Fail
  <2> QED
    BY <2>1, <2>2, <2>3, <2>4, <2>5, <2>6, <2>7, <2>8 DEF Next
<1> HIDE DEF Advance
<1>2. [][Advance]_vars => PassAdvances
  BY PTL DEF PassAdvances, Advance
<1> QED
  BY <1>1, <1>2, Invariance, PTL DEF Spec
=============================================================================
