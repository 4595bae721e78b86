------------------------- MODULE CoordinationProofs -------------------------
(***************************************************************************)
(* That collisions surface and that finished claims are quiet, for any     *)
(* number of workers, areas and pushes.                                    *)
(*                                                                         *)
(* A check lists the branches after its own push; so of two checks of the  *)
(* latest pushes at least one has listed the other's latest push (Met).    *)
(* What it then read of that branch is that push, or it says that it could *)
(* not read it.  Without stacked branches a claim that is not merged lies  *)
(* on its own branch only (Private), so no outdated copy can be in a       *)
(* checkout.                                                               *)
(***************************************************************************)
EXTENDS Coordination, TLAPS

(* The check has listed the branches, and checks the latest push.          *)
Listed(w) ==
  origin[w].version > 0 /\ of[w] = origin[w].version /\ run[w] # "fetched"

Placed == \A w \in Workers : origin[w].version > 0 => stage[w] = "working"

(* Versions of a branch only grow until it is gone for good.               *)
Behind ==
  \A w \in Workers : stage[w] # "done" =>
    /\ of[w] <= origin[w].version /\ result[w].of <= origin[w].version
    /\ run[w] # "idle" /\ origin[w].version > 0
         => result[w].of < origin[w].version
    /\ \A v \in Workers : refs[v][w].version <= origin[w].version

Known ==
  \A v, w \in Workers :
    origin[w].version > 0 /\ refs[v][w].version = origin[w].version
      => refs[v][w] = origin[w]

Met ==
  \A w, x \in Workers :
    w # x /\ Listed(w) /\ Listed(x)
      => heads[w][x] = origin[x].version \/ heads[x][w] = origin[w].version

Reported ==
  \A w \in Workers : run[w] = "idle" =>
    \/ result[w].overlaps = {} /\ (result[w].failed \/ result[w].of = 0)
    \/ /\ result[w].of = of[w]
       /\ result[w].overlaps = Overlaps(w)
       /\ result[w].unread = Live(w) \ Read(w)

IInv == TypeOK /\ Placed /\ Behind /\ Known /\ Met /\ Reported

-----------------------------------------------------------------------------
(* Types.                                                                  *)

LEMMA WithFiles ==
  ASSUME main \in Files, NEW files \in Files, NEW from \in Files
  PROVE  With(files, from) \in Files
BY DEF With, Files

LEMMA Initially == Init => IInv
<1> SUFFICES ASSUME Init PROVE IInv
  OBVIOUS
<1> USE CoordinationAssumption
<1>1. NoFiles \in Files /\ Gone \in Commits /\ NoResult \in Results
  BY DEF NoFiles, Files, Gone, Commits, NoResult, Results
<1>2. TypeOK
  BY <1>1 DEF Init, TypeOK
<1>3. Placed /\ Behind /\ Known /\ Met
  BY DEF Init, Gone, NoResult, Placed, Behind, Known, Met, Listed
<1>4. Reported
  BY DEF Init, NoResult, Reported
<1> QED
  BY <1>2, <1>3, <1>4 DEF IInv

(* Overlaps(w), Live(w) and Read(w) only depend on what w has read.        *)
LEMMA SameView ==
  ASSUME NEW w \in Workers, heads'[w] = heads[w], refs'[w] = refs[w],
         here'[w] = here[w]
  PROVE  Overlaps(w)' = Overlaps(w) /\ Live(w)' = Live(w) /\ Read(w)' = Read(w)
<1>1. Live(w)' = Live(w)
  BY DEF Live
<1>2. Read(w)' = Read(w)
  BY <1>1 DEF Read
<1>3. ASSUME NEW x \in Workers PROVE Copies(w, x)' = Copies(w, x)
  BY <1>2 DEF Copies
<1>4. ASSUME NEW x \in Workers PROVE Remote(w, x)' = Remote(w, x)
  BY <1>1, <1>3 DEF Remote
<1>5. \A x \in Workers : Seen(w, x)' = Seen(w, x)
  BY <1>4 DEF Seen
<1> QED
  BY <1>1, <1>2, <1>5 DEF Overlaps

-----------------------------------------------------------------------------
(* A worker's step that neither pushes nor ends its branch.                *)
LEMMA Unpushed ==
  ASSUME IInv, TypeOK', UNCHANGED <<origin, check>>,
         \A w \in Workers : stage'[w] # stage[w]
           => stage[w] = "none" /\ stage'[w] = "working"
  PROVE  IInv'
<1> USE DEF IInv, check
<1>1. Placed' /\ Behind'
  BY DEF Placed, Behind
<1>2. Known' /\ Met'
  BY DEF Known, Met, Listed
<1>3. Reported'
  BY SameView DEF Reported
<1> QED
  BY <1>1, <1>2, <1>3

LEMMA ClaimKeeps ==
  ASSUME IInv, NEW w \in Workers, Claim(w)
  PROVE  IInv'
<1>1. /\ main \in Files /\ stage \in [Workers -> {"none", "working", "done"}]
      /\ tree \in [Workers -> Files]
  BY DEF IInv, TypeOK
<1>2. tree' \in [Workers -> Files]
  <2>1. PICK claim \in Claims \cup {{Broken}} :
          tree' = [tree EXCEPT ![w] = [main EXCEPT ![w] = claim]]
    BY DEF Claim, Claimable
  <2>2. [main EXCEPT ![w] = claim] \in Files
    BY <1>1 DEF Files
  <2> QED
    BY <1>1, <2>1, <2>2
<1>3. TypeOK'
  BY <1>2 DEF IInv, TypeOK, Claim, check
<1>4. /\ UNCHANGED <<origin, check>>
      /\ \A v \in Workers : stage'[v] # stage[v]
           => stage[v] = "none" /\ stage'[v] = "working"
  BY <1>1 DEF Claim
<1> QED
  BY <1>3, <1>4, Unpushed

LEMMA StackKeeps ==
  ASSUME IInv, NEW w \in Workers, NEW parent \in Workers, Stack(w, parent)
  PROVE  IInv'
<1>1. /\ origin[parent].files \in Files /\ origin[parent].base \in Files
      /\ stage \in [Workers -> {"none", "working", "done"}]
      /\ tree \in [Workers -> Files]
  BY DEF IInv, TypeOK, Commits
<1>2. tree' \in [Workers -> Files]
  <2>1. PICK claim \in Claims \cup {{Broken}} :
          tree' = [tree EXCEPT ![w] = [origin[parent].files EXCEPT ![w] = claim]]
    BY DEF Stack, Claimable
  <2>2. [origin[parent].files EXCEPT ![w] = claim] \in Files
    BY <1>1 DEF Files
  <2> QED
    BY <1>1, <2>1, <2>2
<1>3. TypeOK'
  BY <1>1, <1>2 DEF IInv, TypeOK, Stack, check
<1>4. /\ UNCHANGED <<origin, check>>
      /\ \A v \in Workers : stage'[v] # stage[v]
           => stage[v] = "none" /\ stage'[v] = "working"
  BY <1>1 DEF Stack
<1> QED
  BY <1>3, <1>4, Unpushed

LEMMA ChangeAreasKeeps ==
  ASSUME IInv, NEW w \in Workers, ChangeAreas(w)
  PROVE  IInv'
<1>1. PICK claim \in Claims : tree' = [tree EXCEPT ![w][w] = claim]
  BY DEF ChangeAreas
<1>2. tree \in [Workers -> Files] /\ tree[w] \in Files
  BY DEF IInv, TypeOK
<1>3. [tree[w] EXCEPT ![w] = claim] \in Files
  BY <1>2 DEF Files
<1>4. tree' \in [Workers -> Files]
  BY <1>1, <1>2, <1>3
<1>5. changes' \in 0..Changes
  BY CoordinationAssumption DEF IInv, TypeOK, ChangeAreas
<1>6. TypeOK'
  BY <1>4, <1>5 DEF IInv, TypeOK, ChangeAreas, check
<1>7. UNCHANGED <<origin, check, stage>>
  BY DEF ChangeAreas
<1> QED
  BY <1>6, <1>7, Unpushed

LEMMA UpdateKeeps ==
  ASSUME IInv, NEW w \in Workers, Update(w)
  PROVE  IInv'
<1>1. With(tree[w], base[w]) \in Files
  BY WithFiles DEF IInv, TypeOK
<1>2. TypeOK'
  BY <1>1 DEF IInv, TypeOK, Update, check
<1>3. UNCHANGED <<origin, check, stage>>
  BY DEF Update
<1> QED
  BY <1>2, <1>3, Unpushed

LEMMA CloseKeeps ==
  ASSUME IInv, NEW w \in Workers, Close(w)
  PROVE  IInv'
<1>1. TypeOK'
  BY DEF IInv, TypeOK, Close, Files, check
<1>2. UNCHANGED <<origin, check, stage>>
  BY DEF Close
<1> QED
  BY <1>1, <1>2, Unpushed

(* A push is later than all that was checked, fetched or listed before.    *)
LEMMA PushKeeps ==
  ASSUME IInv, NEW w \in Workers, Push(w)
  PROVE  IInv'
<1> USE DEF IInv, check
<1> DEFINE pushed == [version |-> origin[w].version + 1, files |-> tree[w], base |-> base[w]]
<1>1. origin' = [origin EXCEPT ![w] = pushed] /\ UNCHANGED check /\ stage' = stage
      /\ stage[w] = "working"
  BY DEF Push
<1>2. origin[w].version \in Nat /\ pushed \in Commits
  BY DEF TypeOK, Commits
<1>3. /\ origin'[w] = pushed
      /\ origin'[w].version = origin[w].version + 1
      /\ \A x \in Workers \ {w} : origin'[x] = origin[x]
  BY <1>1 DEF TypeOK
<1>4. TypeOK'
  BY <1>1, <1>2 DEF Push, TypeOK
<1>5. /\ of[w] \in Nat /\ result[w].of \in Nat
      /\ \A v \in Workers : refs[v][w].version \in Nat
  BY DEF TypeOK, Results, Commits
<1>6. Placed'
  BY <1>1, <1>3 DEF Placed
<1>7. Behind'
  BY <1>1, <1>2, <1>3, <1>5 DEF Behind
<1>8. Known'
  BY <1>1, <1>2, <1>3, <1>5 DEF Known, Behind
<1>9. ~Listed(w)'
  BY <1>1, <1>2, <1>3, <1>5 DEF Listed, Behind
<1>10. \A x \in Workers \ {w} : Listed(x)' = Listed(x)
  BY <1>1, <1>3 DEF Listed
<1>11. Met'
  BY <1>1, <1>3, <1>9, <1>10 DEF Met
<1>12. Reported'
  BY <1>1, SameView DEF Reported
<1> QED
  BY <1>4, <1>6, <1>7, <1>8, <1>11, <1>12

(* A branch that is gone does not come back.                               *)
LEMMA EndKeeps ==
  ASSUME IInv, NEW w \in Workers, Merge(w) \/ Abandon(w)
  PROVE  IInv'
<1> USE DEF IInv, check
<1>1. /\ origin' = [origin EXCEPT ![w] = Gone] /\ UNCHANGED <<check, tree, base, changes>>
      /\ stage' = [stage EXCEPT ![w] = "done"]
  BY DEF Merge, Abandon
<1>2. Gone \in Commits /\ Gone.version = 0
  BY DEF Gone, Commits, NoFiles, Files
<1>3. main' \in Files
  BY WithFiles DEF Merge, Abandon, Merged, TypeOK, Commits
<1>4. TypeOK'
  BY <1>1, <1>2, <1>3 DEF TypeOK
<1>5. /\ origin'[w].version = 0 /\ stage'[w] = "done"
      /\ \A x \in Workers \ {w} : origin'[x] = origin[x] /\ stage'[x] = stage[x]
  BY <1>1, <1>2 DEF TypeOK
<1>6. Placed' /\ Behind' /\ Known'
  BY <1>1, <1>5 DEF Placed, Behind, Known
<1>7. Met'
  BY <1>1, <1>5 DEF Met, Listed
<1>8. Reported'
  BY <1>1, SameView DEF Reported
<1> QED
  BY <1>4, <1>6, <1>7, <1>8

-----------------------------------------------------------------------------
LEMMA FetchKeeps ==
  ASSUME IInv, NEW w \in Workers, Fetch(w)
  PROVE  IInv'
<1> USE DEF IInv, work
<1>1. /\ run' = [run EXCEPT ![w] = "fetched"] /\ UNCHANGED <<work, heads, result>>
      /\ of' = [of EXCEPT ![w] = origin[w].version]
      /\ refs' = [refs EXCEPT ![w] = origin]
      /\ here' = [here EXCEPT ![w] = Merged(w)]
      /\ run[w] = "idle" /\ result[w].of # origin[w].version
  BY DEF Fetch
<1>2. /\ origin[w].files \in Files /\ origin[w].base \in Files
      /\ origin[w].version \in Nat /\ result[w].of \in Nat
      /\ \A x \in Workers : origin[x].version \in Nat
  BY DEF TypeOK, Commits, Results
<1>3. Merged(w) \in Files
  BY <1>2, WithFiles DEF TypeOK, Merged
<1>4. TypeOK'
  BY <1>1, <1>2, <1>3 DEF TypeOK
<1>5. /\ run'[w] = "fetched" /\ of'[w] = origin[w].version /\ refs'[w] = origin
      /\ \A x \in Workers \ {w} : /\ run'[x] = run[x] /\ of'[x] = of[x]
                                  /\ refs'[x] = refs[x] /\ here'[x] = here[x]
  BY <1>1 DEF TypeOK
<1>6. Placed'
  BY <1>1 DEF Placed
<1>7. Behind'
  BY <1>1, <1>2, <1>5 DEF Behind
<1>8. Known'
  BY <1>1, <1>5 DEF Known
<1>9. ~Listed(w)' /\ \A x \in Workers \ {w} : Listed(x)' = Listed(x)
  BY <1>1, <1>5 DEF Listed
<1>10. Met'
  BY <1>1, <1>9 DEF Met
<1>11. Reported'
  <2> SUFFICES ASSUME NEW x \in Workers, run'[x] = "idle"
               PROVE  \/ result'[x].overlaps = {} /\ (result'[x].failed \/ result'[x].of = 0)
                      \/ /\ result'[x].of = of'[x]
                         /\ result'[x].overlaps = Overlaps(x)'
                         /\ result'[x].unread = (Live(x) \ Read(x))'
    BY DEF Reported
  <2>1. x # w
    BY <1>5
  <2> QED
    BY <2>1, <1>1, <1>5, SameView DEF Reported
<1> QED
  BY <1>4, <1>6, <1>7, <1>8, <1>10, <1>11

(* Whoever lists later sees the other's push.                              *)
LEMMA ListKeeps ==
  ASSUME IInv, NEW w \in Workers, List(w)
  PROVE  IInv'
<1> USE DEF IInv, work
<1>1. /\ run' = [run EXCEPT ![w] = "listed"]
      /\ UNCHANGED <<work, of, here, refs, result>>
      /\ heads' = [heads EXCEPT ![w] = [b \in Workers |-> origin[b].version]]
      /\ run[w] = "fetched"
  BY DEF List
<1>2. \A x \in Workers : origin[x].version \in Nat
  BY DEF TypeOK, Commits
<1>3. TypeOK'
  BY <1>1, <1>2 DEF TypeOK
<1>4. /\ run'[w] = "listed" /\ \A x \in Workers : heads'[w][x] = origin[x].version
      /\ \A x \in Workers \ {w} : run'[x] = run[x] /\ heads'[x] = heads[x]
  BY <1>1 DEF TypeOK
<1>5. Placed' /\ Behind' /\ Known'
  BY <1>1, <1>4 DEF Placed, Behind, Known
<1>6. \A x \in Workers \ {w} : Listed(x)' = Listed(x)
  BY <1>1, <1>4 DEF Listed
<1>7. Met'
  BY <1>1, <1>4, <1>6 DEF Met
<1>8. Reported'
  BY <1>1, <1>4, SameView DEF Reported
<1> QED
  BY <1>3, <1>5, <1>7, <1>8

LEMMA FinishKeeps ==
  ASSUME IInv, NEW w \in Workers, Report(w) \/ Throw(w)
  PROVE  IInv'
<1> USE DEF IInv, work
<1> DEFINE heard == [of |-> of[w], failed |-> FALSE, overlaps |-> Overlaps(w),
                     unread |-> Live(w) \ Read(w)]
           thrown == [of |-> of[w], failed |-> TRUE, overlaps |-> {}, unread |-> {}]
<1>1. PICK outcome \in {heard, thrown} : Finish(w, outcome)
  BY DEF Report, Throw
<1>2. /\ run' = [run EXCEPT ![w] = "idle"] /\ UNCHANGED <<work, of, here, refs, heads>>
      /\ result' = [result EXCEPT ![w] = outcome] /\ run[w] = "listed"
  BY <1>1 DEF Finish
<1>3. Overlaps(w) \in SUBSET SUBSET Workers /\ Live(w) \in SUBSET Workers
  BY DEF Overlaps, Live
<1>4. of[w] \in Nat /\ Live(w) \ Read(w) \in SUBSET Workers
  BY <1>3 DEF TypeOK
<1>5. heard \in Results /\ thrown \in Results
  BY <1>3, <1>4 DEF Results
<1>6. TypeOK'
  BY <1>2, <1>5 DEF TypeOK
<1>7. /\ run'[w] = "idle" /\ result'[w] = outcome /\ outcome.of = of[w]
      /\ \A x \in Workers \ {w} : run'[x] = run[x] /\ result'[x] = result[x]
  BY <1>2 DEF TypeOK
<1>8. Placed' /\ Behind' /\ Known'
  BY <1>2, <1>7 DEF Placed, Behind, Known
<1>9. \A x \in Workers : Listed(x)' = Listed(x)
  BY <1>2, <1>7 DEF Listed
<1>10. Met'
  BY <1>2, <1>9 DEF Met
<1>11. Reported'
  BY <1>2, <1>7, SameView DEF Reported
<1> QED
  BY <1>6, <1>8, <1>10, <1>11

LEMMA Inductive == IInv /\ [Next]_vars => IInv'
<1> SUFFICES ASSUME IInv, [Next]_vars PROVE IInv'
  OBVIOUS
<1>1. ASSUME NEW w \in Workers, Claim(w) \/ ChangeAreas(w) \/ Update(w) \/ Close(w)
      PROVE  IInv'
  BY <1>1, ClaimKeeps, ChangeAreasKeeps, UpdateKeeps, CloseKeeps
<1>2. ASSUME NEW w \in Workers, Push(w) \/ Merge(w) \/ Abandon(w)
      PROVE  IInv'
  BY <1>2, PushKeeps, EndKeeps
<1>3. ASSUME NEW w \in Workers, Fetch(w) \/ List(w) \/ Report(w) \/ Throw(w)
      PROVE  IInv'
  BY <1>3, FetchKeeps, ListKeeps, FinishKeeps
<1>4. ASSUME NEW pair \in Stacks, Stack(pair[1], pair[2])
      PROVE  IInv'
  <2>1. pair[1] \in Workers /\ pair[2] \in Workers
    BY CoordinationAssumption
  <2> QED
    BY <1>4, <2>1, StackKeeps
<1>5. CASE UNCHANGED vars
  <2>1. TypeOK'
    BY <1>5 DEF IInv, TypeOK, vars, work, check
  <2>2. UNCHANGED <<origin, check, stage>>
    BY <1>5 DEF vars, work
  <2> QED
    BY <2>1, <2>2, Unpushed
<1> QED
  BY <1>1, <1>2, <1>3, <1>4, <1>5 DEF Next

(* Every variable keeps its kind of value.                                 *)
THEOREM TypeCorrect == Spec => []TypeOK
<1>1. IInv => TypeOK
  BY DEF IInv
<1> QED
  BY Initially, Inductive, <1>1, PTL DEF Spec

-----------------------------------------------------------------------------
(* A check that has listed the other's latest push warns of it.            *)
LEMMA ListedWarns ==
  ASSUME IInv, NEW w \in Workers, NEW x \in Workers, Collide(w, x), UpToDate(w, x),
         heads[w][x] = origin[x].version
  PROVE  Warned(w, x)
<1>1. /\ origin[w].version > 0 /\ origin[x].version > 0 /\ w # x
      /\ result[w].of = origin[w].version /\ ~result[w].failed
      /\ origin[w].files[w] \cap origin[x].files[x] # {}
  BY DEF Collide, Checked
<1>2. stage[w] = "working" /\ origin[w].version \in Nat /\ origin[x].version \in Nat
      /\ result[w].of \in Nat
  BY <1>1 DEF IInv, Placed, TypeOK, Commits, Results
<1>3. run[w] = "idle"
  BY <1>1, <1>2 DEF IInv, Behind
<1>4. result[w].overlaps = Overlaps(w) /\ result[w].unread = Live(w) \ Read(w)
  BY <1>1, <1>2, <1>3 DEF IInv, Reported
<1>5. x \in Live(w)
  BY <1>1 DEF Live
<1>6. CASE x \notin Read(w)
  BY <1>4, <1>5, <1>6 DEF Warned
<1>7. CASE x \in Read(w)
  <2>1. refs[w][x] = origin[x]
    BY <1>1, <1>7 DEF Read, IInv, Known
  <2>2. x \in Copies(w, x)
    BY <1>1, <1>7, <2>1 DEF Copies
  <2>3. Preferred(Copies(w, x), x) = x
    BY <2>2 DEF Preferred
  <2>4. Remote(w, x) = origin[x].files[x]
    BY <1>5, <2>1, <2>2, <2>3 DEF Remote
  <2>5. Seen(w, x) = origin[x].files[x]
    BY <2>4 DEF Seen, UpToDate
  <2>6. Seen(w, w) = origin[w].files[w]
    BY <1>1 DEF Seen, UpToDate
  <2>7. {w, x} \in Overlaps(w)
    BY <1>1, <2>5, <2>6 DEF Overlaps
  <2> QED
    BY <1>4, <2>7 DEF Warned
<1> QED
  BY <1>6, <1>7

LEMMA OneHasListed ==
  ASSUME IInv, NEW w \in Workers, NEW x \in Workers, Collide(w, x)
  PROVE  heads[w][x] = origin[x].version \/ heads[x][w] = origin[w].version
<1>1. ASSUME NEW y \in {w, x} PROVE Listed(y)
  <2>1. /\ origin[y].version > 0 /\ result[y].of = origin[y].version /\ ~result[y].failed
        /\ origin[y].version \in Nat /\ y \in Workers
    BY DEF Collide, Checked, IInv, TypeOK, Commits
  <2>2. run[y] = "idle"
    BY <2>1 DEF IInv, Placed, Behind
  <2> QED
    BY <2>1, <2>2 DEF IInv, Reported, Listed
<1> QED
  BY <1>1 DEF IInv, Met, Collide

LEMMA Surface == IInv => CollisionsSurface
<1> SUFFICES ASSUME IInv, NEW w \in Workers, NEW x \in Workers, Collide(w, x),
                    UpToDate(w, x), UpToDate(x, w)
             PROVE  Warned(w, x) \/ Warned(x, w)
  BY DEF CollisionsSurface
<1>1. Collide(x, w)
  BY DEF Collide
<1> QED
  BY <1>1, OneHasListed, ListedWarns

(* Of two claims that collide, the check of one warns, whatever the order  *)
(* of pushes, fetches and listings, unless a checkout holds an outdated    *)
(* copy.                                                                   *)
THEOREM CollisionsAreSeen == Spec => []CollisionsSurface
BY Initially, Inductive, Surface, PTL DEF Spec

(* A claim whose branch is gone is reported only from the checkout.        *)
THEOREM FinishedAreQuiet == Spec => []FinishedIsQuiet
<1>1. IInv => FinishedIsQuiet
  <2> SUFFICES ASSUME IInv, NEW w \in Workers, run[w] = "idle",
                      NEW pair \in result[w].overlaps, NEW x \in pair
               PROVE  x \in Live(w) \/ here[w][x] # {}
    BY DEF FinishedIsQuiet
  <2>1. pair \in Overlaps(w)
    BY DEF IInv, Reported
  <2>2. Seen(w, x) # {}
    BY <2>1 DEF Overlaps
  <2> QED
    BY <2>2 DEF Seen, Remote
<1> QED
  BY Initially, Inductive, <1>1, PTL DEF Spec

-----------------------------------------------------------------------------
(* Without stacked branches.                                               *)

(* A claim that is not merged lies on its own branch only.                 *)
Private ==
  \A x \in Workers : stage[x] # "done" =>
    /\ main[x] = {}
    /\ \A w \in Workers :
         /\ base[w][x] = {} /\ origin[w].base[x] = {}
         /\ w # x => tree[w][x] = {} /\ origin[w].files[x] = {} /\ here[w][x] = {}

OwnHere ==
  \A w \in Workers : origin[w].version > 0 /\ of[w] = origin[w].version
    => here[w][w] = origin[w].files[w]

Alone == IInv /\ Private /\ OwnHere

LEMMA InitiallyAlone == Init => Alone
<1> SUFFICES ASSUME Init PROVE Private /\ OwnHere
  BY Initially DEF Alone
<1> QED
  BY DEF Init, Gone, NoFiles, Private, OwnHere

(* The rest of a check does not concern them.                              *)
LEMMA SamePlaces ==
  ASSUME Alone, UNCHANGED <<main, base, origin, tree, here, of, stage>>
  PROVE  Private' /\ OwnHere'
BY DEF Alone, Private, OwnHere

LEMMA ClaimAlone ==
  ASSUME Alone, NEW w \in Workers, Claim(w)
  PROVE  Private' /\ OwnHere'
<1> USE DEF Alone, IInv, TypeOK
<1>1. PICK claim : tree' = [tree EXCEPT ![w] = [main EXCEPT ![w] = claim]]
  BY DEF Claim
<1>2. /\ \A v \in Workers \ {w} : tree'[v] = tree[v] /\ base'[v] = base[v]
      /\ \A x \in Workers \ {w} : tree'[w][x] = main[x]
      /\ base'[w] = main
      /\ \A x \in Workers : stage'[x] # "done" => stage[x] # "done"
  BY <1>1 DEF Claim, Files
<1>3. UNCHANGED <<main, origin, here, of>>
  BY DEF Claim, check
<1>4. Private'
  BY <1>2, <1>3 DEF Private
<1> QED
  BY <1>3, <1>4 DEF OwnHere

LEMMA ChangeAreasAlone ==
  ASSUME Alone, NEW w \in Workers, ChangeAreas(w)
  PROVE  Private' /\ OwnHere'
<1> USE DEF Alone, IInv, TypeOK
<1>1. PICK claim : tree' = [tree EXCEPT ![w][w] = claim]
  BY DEF ChangeAreas
<1>2. \A v, x \in Workers : v # x => tree'[v][x] = tree[v][x]
  BY <1>1 DEF Files
<1>3. UNCHANGED <<stage, base, main, origin, here, of>>
  BY DEF ChangeAreas, check
<1> QED
  BY <1>2, <1>3 DEF Private, OwnHere

LEMMA UpdateAlone ==
  ASSUME Alone, NEW w \in Workers, Update(w)
  PROVE  Private' /\ OwnHere'
<1> USE DEF Alone, IInv, TypeOK
<1>1. /\ tree' = [tree EXCEPT ![w] = With(tree[w], base[w])]
      /\ base' = [base EXCEPT ![w] = main]
      /\ UNCHANGED <<stage, main, origin, here, of>>
  BY DEF Update, check
<1>2. \A x \in Workers : stage[x] # "done" /\ x # w => With(tree[w], base[w])[x] = {}
  BY DEF With, Private
<1>3. Private'
  BY <1>1, <1>2 DEF Private
<1> QED
  BY <1>1, <1>3 DEF OwnHere

LEMMA PushAlone ==
  ASSUME Alone, NEW w \in Workers, Push(w)
  PROVE  Private' /\ OwnHere'
<1> USE DEF Alone, IInv, TypeOK
<1>1. /\ origin' = [origin EXCEPT ![w] = [version |-> origin[w].version + 1,
                                         files |-> tree[w], base |-> base[w]]]
      /\ UNCHANGED <<stage, tree, base, main, here, of>> /\ stage[w] = "working"
  BY DEF Push, check
<1>2. /\ origin'[w].files = tree[w] /\ origin'[w].base = base[w]
      /\ origin'[w].version = origin[w].version + 1
      /\ \A x \in Workers \ {w} : origin'[x] = origin[x]
  BY <1>1
<1>3. Private'
  BY <1>1, <1>2 DEF Private
<1>4. of[w] <= origin[w].version /\ of[w] \in Nat /\ origin[w].version \in Nat
  BY <1>1 DEF Behind, Commits
<1> QED
  BY <1>1, <1>2, <1>3, <1>4 DEF OwnHere

LEMMA EndAlone ==
  ASSUME Alone, NEW w \in Workers, Merge(w) \/ Abandon(w)
  PROVE  Private' /\ OwnHere'
<1> USE DEF Alone, IInv, TypeOK
<1>1. /\ origin' = [origin EXCEPT ![w] = Gone] /\ UNCHANGED <<tree, base, here, of>>
      /\ stage' = [stage EXCEPT ![w] = "done"]
  BY DEF Merge, Abandon, check
<1>2. /\ origin'[w] = Gone /\ stage'[w] = "done"
      /\ \A x \in Workers \ {w} : origin'[x] = origin[x] /\ stage'[x] = stage[x]
  BY <1>1
<1>3. \A x \in Workers : stage'[x] # "done" => main'[x] = {}
  <2> SUFFICES ASSUME NEW x \in Workers, stage'[x] # "done" PROVE main'[x] = {}
    OBVIOUS
  <2>1. x # w /\ stage[x] # "done"
    BY <1>2
  <2>2. main[x] = {} /\ origin[w].base[x] = {} /\ origin[w].files[x] = {}
    BY ONLY <2>1, Private DEF Private
  <2>3. Merged(w)[x] = {}
    BY ONLY <2>2 DEF Merged, With
  <2>4. main' = Merged(w) \/ main' = main
    BY DEF Merge, Abandon
  <2> QED
    BY ONLY <2>2, <2>3, <2>4
<1>4. \A x \in Workers : Gone.base[x] = {} /\ Gone.files[x] = {} /\ Gone.version = 0
  BY DEF Gone, NoFiles
<1>5. Private'
  BY <1>1, <1>2, <1>3, <1>4 DEF Private
<1> QED
  BY <1>1, <1>2, <1>4, <1>5 DEF OwnHere

LEMMA CloseAlone ==
  ASSUME Alone, NEW w \in Workers, Close(w)
  PROVE  Private' /\ OwnHere'
<1> USE DEF Alone, IInv, TypeOK
<1>1. /\ main' = [main EXCEPT ![w] = {}]
      /\ UNCHANGED <<stage, tree, base, origin, here, of>>
  BY DEF Close, check
<1>2. \A x \in Workers : main[x] = {} => main'[x] = {}
  BY <1>1 DEF Files
<1> QED
  BY <1>1, <1>2 DEF Private, OwnHere

LEMMA FetchAlone ==
  ASSUME Alone, NEW w \in Workers, Fetch(w)
  PROVE  Private' /\ OwnHere'
<1> USE DEF Alone, IInv, TypeOK
<1>1. /\ here' = [here EXCEPT ![w] = Merged(w)] /\ UNCHANGED work
      /\ of' = [of EXCEPT ![w] = origin[w].version] /\ origin[w].version > 0
  BY DEF Fetch
<1>2. UNCHANGED <<stage, tree, base, main, origin>>
  BY <1>1 DEF work
<1>3. \A x \in Workers : stage[x] # "done" /\ x # w => Merged(w)[x] = {}
  BY DEF Merged, With, Private
<1>4. stage[w] # "done"
  BY <1>1 DEF Placed
<1>5. Merged(w)[w] = origin[w].files[w]
  BY <1>4 DEF Merged, With, Private
<1>6. Private'
  BY <1>1, <1>2, <1>3 DEF Private
<1> QED
  BY <1>1, <1>2, <1>5, <1>6 DEF OwnHere

LEMMA InductiveAlone == Stacks = {} => (Alone /\ [Next]_vars => Alone')
<1> SUFFICES ASSUME Stacks = {}, Alone, [Next]_vars PROVE Private' /\ OwnHere'
  BY Inductive DEF Alone
<1>1. ASSUME NEW w \in Workers, Claim(w) \/ ChangeAreas(w) \/ Update(w) \/ Push(w)
      PROVE  Private' /\ OwnHere'
  BY <1>1, ClaimAlone, ChangeAreasAlone, UpdateAlone, PushAlone
<1>2. ASSUME NEW w \in Workers, Merge(w) \/ Abandon(w) \/ Close(w) \/ Fetch(w)
      PROVE  Private' /\ OwnHere'
  BY <1>2, EndAlone, CloseAlone, FetchAlone
<1>3. ASSUME NEW w \in Workers, List(w) \/ Report(w) \/ Throw(w)
      PROVE  Private' /\ OwnHere'
  BY <1>3, SamePlaces DEF List, Report, Throw, Finish, work
<1>4. CASE UNCHANGED vars
  BY <1>4, SamePlaces DEF vars, work, check
<1> QED
  BY <1>1, <1>2, <1>3, <1>4 DEF Next

(* Where no branch is cut from another that is not merged, every collision *)
(* surfaces, as docs/coordination/README.md says.                          *)
THEOREM WithoutStacks ==
  ASSUME Stacks = {}
  PROVE  Spec => []EveryCollisionSurfaces
<1>1. Alone => EveryCollisionSurfaces
  <2> SUFFICES ASSUME Alone, NEW w \in Workers, NEW x \in Workers, Collide(w, x)
               PROVE  Warned(w, x) \/ Warned(x, w)
    BY DEF EveryCollisionSurfaces
  <2>1. ASSUME NEW y \in {w, x}
        PROVE  /\ stage[y] # "done" /\ y \in Workers
               /\ here[y][y] = origin[y].files[y]
    <3>1. /\ origin[y].version > 0 /\ result[y].of = origin[y].version /\ ~result[y].failed
          /\ origin[y].version \in Nat /\ y \in Workers
      BY DEF Collide, Checked, Alone, IInv, TypeOK, Commits
    <3>2. stage[y] = "working" /\ run[y] = "idle"
      BY <3>1 DEF Alone, IInv, Placed, Behind
    <3>3. of[y] = origin[y].version
      BY <3>1, <3>2 DEF Alone, IInv, Reported
    <3> QED
      BY <3>1, <3>2, <3>3 DEF Alone, OwnHere
  <2>2. UpToDate(w, x) /\ UpToDate(x, w)
    BY <2>1 DEF Alone, Private, UpToDate, Collide
  <2> QED
    BY <2>2, Surface DEF Alone, CollisionsSurface
<1>2. Alone /\ [Next]_vars => Alone'
  BY InductiveAlone
<1> QED
  BY InitiallyAlone, <1>1, <1>2, PTL DEF Spec

-----------------------------------------------------------------------------
(* Malformed files.                                                        *)

(* What a check of the latest push has in its checkout of that push.       *)
PushHere ==
  \A w \in Workers : origin[w].version > 0 /\ of[w] = origin[w].version
    => \A x \in Workers :
         origin[w].files[x] # origin[w].base[x] => here[w][x] = origin[w].files[x]

(* A check that passed has read its checkout to the end.                   *)
Passed ==
  \A w \in Workers : run[w] = "idle" /\ of[w] > 0 /\ ~result[w].failed
    => \A x \in Workers : here[w][x] # {Broken}

Guarded == IInv /\ MainIsSound /\ PushHere /\ Passed

LEMMA InitiallyGuarded == Init => Guarded
<1> SUFFICES ASSUME Init PROVE MainIsSound /\ PushHere /\ Passed
  BY Initially DEF Guarded
<1> QED
  BY DEF Init, Gone, NoFiles, MainIsSound, PushHere, Passed

LEMMA PushGuarded ==
  ASSUME Guarded, NEW w \in Workers, Push(w)
  PROVE  MainIsSound' /\ PushHere' /\ Passed'
<1> USE DEF Guarded, IInv, TypeOK
<1>1. /\ origin'[w].version = origin[w].version + 1
      /\ \A x \in Workers \ {w} : origin'[x] = origin[x]
      /\ UNCHANGED <<main, run, of, here, result>> /\ stage[w] = "working"
  BY DEF Push, check
<1>2. of[w] <= origin[w].version /\ of[w] \in Nat /\ origin[w].version \in Nat
  BY <1>1 DEF Behind, Commits
<1>3. ~(origin'[w].version > 0 /\ of'[w] = origin'[w].version)
  BY <1>1, <1>2
<1> HIDE DEF IInv, TypeOK
<1>4. PushHere'
  <2> SUFFICES ASSUME NEW v \in Workers, origin'[v].version > 0 /\ of'[v] = origin'[v].version
               PROVE  \A x \in Workers :
                        origin'[v].files[x] # origin'[v].base[x]
                          => here'[v][x] = origin'[v].files[x]
    BY DEF PushHere
  <2>1. v # w
    BY <1>3
  <2> QED
    BY <1>1, <2>1 DEF PushHere
<1> QED
  BY <1>1, <1>4 DEF MainIsSound, Passed

(* What is merged is what the check has read, and main for the rest.       *)
LEMMA MergeGuarded ==
  ASSUME Guarded, NEW w \in Workers, Merge(w)
  PROVE  MainIsSound' /\ PushHere' /\ Passed'
<1> USE DEF Guarded, IInv, TypeOK
<1>1. /\ origin[w].version > 0 /\ result[w].of = origin[w].version /\ ~result[w].failed
      /\ main' = Merged(w) /\ origin' = [origin EXCEPT ![w] = Gone]
      /\ UNCHANGED <<run, of, here, result>>
  BY DEF Merge, check
<1>2. origin[w].version \in Nat /\ stage[w] # "done"
  BY <1>1 DEF Commits, Placed
<1>3. run[w] = "idle"
  BY <1>1, <1>2 DEF Behind
<1>4. of[w] = origin[w].version
  BY <1>1, <1>2, <1>3 DEF Reported
<1>5. \A x \in Workers : Merged(w)[x] # {Broken}
  BY <1>1, <1>2, <1>3, <1>4 DEF Merged, With, MainIsSound, PushHere, Passed
<1>6. origin'[w].version = 0 /\ \A x \in Workers \ {w} : origin'[x] = origin[x]
  BY <1>1 DEF Gone
<1> HIDE DEF IInv, TypeOK
<1>7. MainIsSound'
  BY <1>1, <1>5 DEF MainIsSound
<1>8. PushHere'
  BY <1>1, <1>6 DEF PushHere
<1> QED
  BY <1>1, <1>7, <1>8 DEF Passed

LEMMA FetchGuarded ==
  ASSUME Guarded, NEW w \in Workers, Fetch(w)
  PROVE  MainIsSound' /\ PushHere' /\ Passed'
<1> USE DEF Guarded, IInv, TypeOK
<1>1. /\ run'[w] = "fetched" /\ here'[w] = Merged(w)
      /\ \A x \in Workers \ {w} : /\ run'[x] = run[x] /\ here'[x] = here[x]
                                  /\ of'[x] = of[x]
      /\ UNCHANGED <<main, origin, result>>
  BY DEF Fetch, work
<1>2. \A x \in Workers :
        origin[w].files[x] # origin[w].base[x] => Merged(w)[x] = origin[w].files[x]
  BY DEF Merged, With
<1> HIDE DEF IInv, TypeOK
<1>3. PushHere'
  BY <1>1, <1>2 DEF PushHere
<1>4. MainIsSound' /\ Passed'
  BY <1>1 DEF MainIsSound, Passed
<1> QED
  BY <1>3, <1>4

LEMMA FinishGuarded ==
  ASSUME Guarded, NEW w \in Workers, Report(w) \/ Throw(w)
  PROVE  MainIsSound' /\ PushHere' /\ Passed'
<1> USE DEF Guarded, IInv, TypeOK
<1>1. /\ UNCHANGED <<main, origin, of, here>>
      /\ \A x \in Workers \ {w} : run'[x] = run[x] /\ result'[x] = result[x]
  BY DEF Report, Throw, Finish, work
<1>2. CASE Report(w)
  <2>1. \A x \in Workers : here[w][x] # {Broken}
    BY <1>2 DEF Report, Throws
  <2> QED
    BY <1>1, <2>1 DEF MainIsSound, PushHere, Passed
<1>3. CASE Throw(w)
  <2>1. result'[w].failed
    BY <1>3 DEF Throw, Finish
  <2> QED
    BY <1>1, <2>1 DEF MainIsSound, PushHere, Passed
<1> QED
  BY <1>2, <1>3

(* Whatever main has become since a check read the merge with it, no       *)
(* malformed file is ever merged (repo-verify-claims as a required check). *)
THEOREM MainStaysSound == Spec => []MainIsSound
<1>1. Guarded /\ [Next]_vars => Guarded'
  <2> SUFFICES ASSUME Guarded, [Next]_vars PROVE MainIsSound' /\ PushHere' /\ Passed'
    BY Inductive DEF Guarded
  <2>1. ASSUME NEW w \in Workers, Claim(w) \/ ChangeAreas(w) \/ Update(w)
        PROVE  MainIsSound' /\ PushHere' /\ Passed'
    BY <2>1 DEF Claim, ChangeAreas, Update, check, Guarded, MainIsSound, PushHere, Passed
  <2>2. ASSUME NEW pair \in Stacks, Stack(pair[1], pair[2])
        PROVE  MainIsSound' /\ PushHere' /\ Passed'
    BY <2>2 DEF Stack, check, Guarded, MainIsSound, PushHere, Passed
  <2>3. ASSUME NEW w \in Workers, Close(w)
        PROVE  MainIsSound' /\ PushHere' /\ Passed'
    BY <2>3 DEF Close, check, Guarded, IInv, TypeOK, Files, MainIsSound, PushHere, Passed
  <2>4. ASSUME NEW w \in Workers, Abandon(w)
        PROVE  MainIsSound' /\ PushHere' /\ Passed'
    <3>1. /\ origin'[w].version = 0 /\ \A x \in Workers \ {w} : origin'[x] = origin[x]
          /\ UNCHANGED <<main, run, of, here, result>>
      BY <2>4 DEF Abandon, Gone, check, Guarded, IInv, TypeOK
    <3> QED
      BY <3>1 DEF Guarded, MainIsSound, PushHere, Passed
  <2>5. ASSUME NEW w \in Workers, List(w)
        PROVE  MainIsSound' /\ PushHere' /\ Passed'
    <3>1. /\ run'[w] = "listed" /\ \A x \in Workers \ {w} : run'[x] = run[x]
          /\ UNCHANGED <<main, origin, of, here, result>>
      BY <2>5 DEF List, work, Guarded, IInv, TypeOK
    <3> QED
      BY <3>1 DEF Guarded, MainIsSound, PushHere, Passed
  <2>6. CASE UNCHANGED vars
    BY <2>6 DEF vars, work, check, Guarded, MainIsSound, PushHere, Passed
  <2> QED
    BY <2>1, <2>2, <2>3, <2>4, <2>5, <2>6, PushGuarded, MergeGuarded, FetchGuarded,
       FinishGuarded DEF Next
<1>2. Guarded => MainIsSound
  BY DEF Guarded
<1> QED
  BY InitiallyGuarded, <1>1, <1>2, PTL DEF Spec

(* No file of a careful worker is malformed, in whatever copy.             *)
Careful(files) == \A x \in Workers \ Careless : files[x] # {Broken}

Traced ==
  /\ Careful(main)
  /\ \A w \in Workers :
       /\ Careful(tree[w]) /\ Careful(base[w]) /\ Careful(here[w])
       /\ Careful(origin[w].files) /\ Careful(origin[w].base)
       /\ \A b \in Workers : Careful(refs[w][b].files)

FailedThrows == \A w \in Workers : run[w] = "idle" /\ result[w].failed => Throws(w)

LEMMA CarefulWith ==
  ASSUME Careful(main), NEW files, NEW from, Careful(files)
  PROVE  Careful(With(files, from))
BY DEF Careful, With

LEMMA CarefulClaim ==
  ASSUME NEW files \in Files, Careful(files), NEW w \in Workers, NEW claim \in Claimable(w)
  PROVE  Careful([files EXCEPT ![w] = claim])
<1>1. w \notin Careless => claim # {Broken}
  BY CoordinationAssumption DEF Claimable, Claims
<1> QED
  BY <1>1 DEF Careful, Files

LEMMA TracedClaims ==
  ASSUME TypeOK, Traced, NEW w \in Workers,
         Claim(w) \/ ChangeAreas(w) \/ \E p \in Workers : Stack(w, p)
  PROVE  Traced'
<1>1. /\ tree \in [Workers -> Files] /\ base \in [Workers -> Files] /\ main \in Files
      /\ \A p \in Workers : origin[p].files \in Files
  BY DEF TypeOK, Commits
<1>2. UNCHANGED <<main, origin, here, refs>>
  BY DEF Claim, ChangeAreas, Stack, check
<1>3. Careful(tree'[w]) /\ \A x \in Workers \ {w} : tree'[x] = tree[x]
  <2>1. CASE Claim(w)
    <3>1. PICK claim \in Claimable(w) : tree' = [tree EXCEPT ![w] = [main EXCEPT ![w] = claim]]
      BY <2>1 DEF Claim
    <3>2. Careful([main EXCEPT ![w] = claim])
      BY <1>1, CarefulClaim DEF Traced
    <3> QED
      BY <1>1, <3>1, <3>2
  <2>2. CASE ChangeAreas(w)
    <3>1. PICK claim \in Claims : tree' = [tree EXCEPT ![w][w] = claim]
      BY <2>2 DEF ChangeAreas
    <3>2. Careful([tree[w] EXCEPT ![w] = claim])
      BY <1>1, CarefulClaim DEF Traced, Claimable
    <3> QED
      BY <1>1, <3>1, <3>2
  <2>3. CASE \E p \in Workers : Stack(w, p)
    <3>1. PICK p \in Workers : Stack(w, p)
      BY <2>3
    <3>2. PICK claim \in Claimable(w) :
            tree' = [tree EXCEPT ![w] = [origin[p].files EXCEPT ![w] = claim]]
      BY <3>1 DEF Stack
    <3>3. Careful([origin[p].files EXCEPT ![w] = claim])
      BY <1>1, CarefulClaim DEF Traced
    <3> QED
      BY <1>1, <3>2, <3>3
  <2> QED
    BY <2>1, <2>2, <2>3
<1>4. \A x \in Workers : Careful(base'[x])
  BY <1>1 DEF Claim, ChangeAreas, Stack, Traced
<1>5. \A x \in Workers : Careful(tree'[x])
  BY <1>3 DEF Traced
<1> QED
  BY <1>2, <1>4, <1>5 DEF Traced, Careful

LEMMA TracedMoves ==
  ASSUME TypeOK, Traced, NEW w \in Workers,
         \/ Push(w) \/ Update(w) \/ Merge(w) \/ Abandon(w) \/ Close(w) \/ Fetch(w)
         \/ List(w) \/ Report(w) \/ Throw(w)
  PROVE  Traced'
<1>1. Careful(NoFiles)
  BY DEF Careful, NoFiles
<1>2. CASE Push(w)
  <2>1. /\ origin'[w].files = tree[w] /\ origin'[w].base = base[w]
        /\ \A x \in Workers \ {w} : origin'[x] = origin[x]
        /\ UNCHANGED <<tree, base, main, here, refs>>
    BY <1>2 DEF Push, check, TypeOK
  <2> QED
    BY <2>1 DEF Traced, Careful
<1>3. CASE Update(w)
  <2>1. Careful(With(tree[w], base[w]))
    BY CarefulWith DEF Traced
  <2>2. /\ tree'[w] = With(tree[w], base[w]) /\ base'[w] = main
        /\ \A x \in Workers \ {w} : tree'[x] = tree[x] /\ base'[x] = base[x]
        /\ UNCHANGED <<main, origin, here, refs>>
    BY <1>3 DEF Update, check, TypeOK
  <2> QED
    BY <2>1, <2>2 DEF Traced, Careful
<1>4. CASE Merge(w) \/ Abandon(w)
  <2>1. Careful(Merged(w))
    BY CarefulWith DEF Traced, Merged
  <2>2. /\ origin'[w] = Gone /\ \A x \in Workers \ {w} : origin'[x] = origin[x]
        /\ main' \in {main, Merged(w)} /\ UNCHANGED <<tree, base, here, refs>>
    BY <1>4 DEF Merge, Abandon, check, TypeOK
  <2>3. Careful(main')
    BY <2>1, <2>2 DEF Traced
  <2> QED
    BY <1>1, <2>2, <2>3 DEF Traced, Careful, Gone
<1>5. CASE Close(w)
  <2>1. main' = [main EXCEPT ![w] = {}] /\ UNCHANGED <<tree, base, origin, here, refs>>
    BY <1>5 DEF Close, check
  <2>2. Careful(main')
    BY <2>1 DEF Traced, Careful, TypeOK, Files
  <2> QED
    BY <2>1, <2>2 DEF Traced, Careful
<1>6. CASE Fetch(w)
  <2>1. Careful(Merged(w))
    BY CarefulWith DEF Traced, Merged
  <2>2. /\ here'[w] = Merged(w) /\ refs'[w] = origin
        /\ \A x \in Workers \ {w} : here'[x] = here[x] /\ refs'[x] = refs[x]
        /\ UNCHANGED <<tree, base, main, origin>>
    BY <1>6 DEF Fetch, work, TypeOK
  <2> QED
    BY <2>1, <2>2 DEF Traced, Careful
<1>7. CASE List(w) \/ Report(w) \/ Throw(w)
  BY <1>7 DEF List, Report, Throw, Finish, work, Traced, Careful
<1> QED
  BY <1>2, <1>3, <1>4, <1>5, <1>6, <1>7

LEMMA StepThrows ==
  ASSUME TypeOK, FailedThrows, [Next]_vars
  PROVE  FailedThrows'
<1>1. ASSUME NEW w \in Workers, heads'[w] = heads[w], refs'[w] = refs[w], here'[w] = here[w]
      PROVE  Throws(w)' = Throws(w)
  BY <1>1 DEF Throws, Read, Live
<1>2. CASE UNCHANGED <<run, here, refs, heads, result>>
  BY <1>1, <1>2 DEF FailedThrows
<1>3. ASSUME NEW w \in Workers, Fetch(w) \/ List(w)
      PROVE  FailedThrows'
  <2>1. /\ run'[w] # "idle" /\ UNCHANGED result
        /\ \A x \in Workers \ {w} : /\ run'[x] = run[x] /\ here'[x] = here[x]
                                    /\ refs'[x] = refs[x] /\ heads'[x] = heads[x]
    BY <1>3 DEF Fetch, List, TypeOK
  <2> QED
    BY <1>1, <2>1 DEF FailedThrows
<1>4. ASSUME NEW w \in Workers, Report(w) \/ Throw(w)
      PROVE  FailedThrows'
  <2>1. /\ UNCHANGED <<here, refs, heads>>
        /\ \A x \in Workers \ {w} : run'[x] = run[x] /\ result'[x] = result[x]
        /\ result'[w].failed => Throws(w)
    BY <1>4 DEF Report, Throw, Finish, TypeOK
  <2> QED
    BY <1>1, <2>1 DEF FailedThrows
<1> QED
  BY <1>2, <1>3, <1>4
  DEF Next, Claim, ChangeAreas, Update, Push, Merge, Abandon, Close, Stack, check, vars

(* A check never fails but for a file of a worker who bypassed the hook    *)
(* (repo-verify-claims): a careful repository is never held up.            *)
THEOREM FailuresAreTraced == Spec => []FailuresTraced
<1>1. Init => Traced /\ FailedThrows
  <2> SUFFICES ASSUME Init PROVE Traced /\ FailedThrows
    OBVIOUS
  <2>1. Careful(NoFiles) /\ Gone.files = NoFiles /\ Gone.base = NoFiles
    BY DEF Careful, NoFiles, Gone
  <2>2. Traced
    BY <2>1 DEF Init, Traced
  <2>3. FailedThrows
    BY DEF Init, NoResult, FailedThrows
  <2> QED
    BY <2>2, <2>3
<1>2. TypeOK /\ Traced /\ FailedThrows /\ [Next]_vars => Traced' /\ FailedThrows'
  <2> SUFFICES ASSUME TypeOK, Traced, [Next]_vars PROVE Traced'
    BY StepThrows
  <2>1. ASSUME NEW pair \in Stacks, Stack(pair[1], pair[2]) PROVE Traced'
    BY <2>1, CoordinationAssumption, TracedClaims
  <2>2. CASE UNCHANGED vars
    BY <2>2 DEF vars, work, check, Traced, Careful
  <2> QED
    BY <2>1, <2>2, TracedClaims, TracedMoves DEF Next
<1>3. Traced /\ FailedThrows => FailuresTraced
  <2> SUFFICES ASSUME Traced, NEW w \in Workers, Throws(w)
               PROVE  \E x \in Careless :
                        \/ here[w][x] = {Broken}
                        \/ \E b \in Read(w) : refs[w][b].files[x] = {Broken}
    BY DEF FailuresTraced, FailedThrows
  <2>1. Read(w) \subseteq Workers
    BY DEF Read, Live
  <2> QED
    BY <2>1 DEF Throws, Traced, Careful
<1> QED
  BY <1>1, <1>2, <1>3, TypeCorrect, PTL DEF Spec
=============================================================================
