---------------------------- MODULE Coordination ----------------------------
(***************************************************************************)
(* The register of work in flight: scripts/coordination-claim.sh and       *)
(* repo-verify-claims, repo-close-claim of packages/repo-standards.        *)
(*                                                                         *)
(* A worker's claim is a task file with the areas it locks.  It is         *)
(* committed on the worker's own branch, so nobody has it in the working   *)
(* tree but the worker and those whose branch was cut from one that had    *)
(* it.  The check therefore asks origin which branches are live and reads  *)
(* their files from the refs fetched before; every pull request runs it    *)
(* after every push.  It only warns: that two live claims overlap, or that *)
(* it could not read a branch.                                             *)
(*                                                                         *)
(* A branch is named by its worker, a file by the worker whose claim it    *)
(* is, and its content is the set of areas it claims.                      *)
(***************************************************************************)
EXTENDS Naturals, FiniteSets

CONSTANTS Workers,   \* each with one claim, on a branch of its own
          Area,      \* what a glob names: globs overlap if they share one
          Stacks,    \* pairs of workers: the first may branch off the second
          Careless,  \* workers who may push a file without frontmatter
          Broken,    \* the content of such a file
          Changes    \* bound: how often areas are changed

ASSUME CoordinationAssumption ==
  /\ Stacks \subseteq Workers \X Workers
  /\ Careless \subseteq Workers
  /\ Broken \notin Area
  /\ Changes \in Nat

(* No file is the empty set.                                               *)
Claims == SUBSET Area \ {{}}
Files == [Workers -> Claims \cup {{}, {Broken}}]
NoFiles == [w \in Workers |-> {}]

(* Version 0: there is no such branch.                                     *)
Commits == [version : Nat, files : Files, base : Files]
Gone == [version |-> 0, files |-> NoFiles, base |-> NoFiles]

VARIABLES
  stage,    \* per worker: "none", "working" or "done"
  tree,     \* per worker, the task files committed in its worktree
  base,     \* per worker, those of the last commit of main it contains
  main,     \* the task files on main
  origin,   \* per worker, the head of its branch on origin
  changes,  \* how often areas have been changed
  run,      \* per worker, the state of its pull request's check
  of,       \* the version it checks
  here,     \* the task files in its checkout
  refs,     \* what it has fetched of every branch
  heads,    \* the versions origin has answered
  result    \* per worker, what the last check said

work == <<stage, tree, base, main, origin, changes>>
check == <<run, of, here, refs, heads, result>>
vars == <<work, check>>

\* Mutant: what could not be read is not part of the answer.
NoAnswer == [of |-> 0, failed |-> FALSE, overlaps |-> {}]

NoResult == [of |-> 0, failed |-> FALSE, overlaps |-> {}, unread |-> {}]

Init ==
  /\ stage = [w \in Workers |-> "none"]
  /\ tree = [w \in Workers |-> NoFiles]
  /\ base = [w \in Workers |-> NoFiles]
  /\ main = NoFiles
  /\ origin = [w \in Workers |-> Gone]
  /\ changes = 0
  /\ run = [w \in Workers |-> "idle"]
  /\ of = [w \in Workers |-> 0]
  /\ here = [w \in Workers |-> NoFiles]
  /\ refs = [w \in Workers |-> [b \in Workers |-> Gone]]
  /\ heads = [w \in Workers |-> [b \in Workers |-> 0]]
  /\ result = [w \in Workers |-> NoResult]

-----------------------------------------------------------------------------
(* Claims.                                                                 *)

Claimable(w) == Claims \cup IF w \in Careless THEN {{Broken}} ELSE {}

(* coordination:claim: a branch off the latest main, and the task file     *)
(* committed on it.  Nothing is visible before the push.                   *)
Claim(w) ==
  /\ stage[w] = "none"
  /\ stage' = [stage EXCEPT ![w] = "working"]
  /\ base' = [base EXCEPT ![w] = main]
  /\ \E claim \in Claimable(w) :
       tree' = [tree EXCEPT ![w] = [main EXCEPT ![w] = claim]]
  /\ UNCHANGED <<main, origin, changes, check>>

(* A branch cut by hand from one that is not merged yet inherits its files.*)
Stack(w, parent) ==
  /\ stage[w] = "none" /\ origin[parent].version > 0
  /\ stage' = [stage EXCEPT ![w] = "working"]
  /\ base' = [base EXCEPT ![w] = origin[parent].base]
  /\ \E claim \in Claimable(w) :
       tree' = [tree EXCEPT ![w] = [origin[parent].files EXCEPT ![w] = claim]]
  /\ UNCHANGED <<main, origin, changes, check>>

ChangeAreas(w) ==
  /\ stage[w] = "working"
  /\ changes < Changes /\ changes' = changes + 1
  /\ \E claim \in Claims \ {tree[w][w]} : tree' = [tree EXCEPT ![w][w] = claim]
  /\ UNCHANGED <<stage, base, main, origin, check>>

(* A claim's first push opens its draft pull request.                      *)
Push(w) ==
  /\ stage[w] = "working" /\ <<origin[w].files, origin[w].base>> # <<tree[w], base[w]>>
  /\ origin' = [origin EXCEPT ![w] =
                  [version |-> @.version + 1, files |-> tree[w], base |-> base[w]]]
  /\ UNCHANGED <<stage, tree, base, main, changes, check>>

-----------------------------------------------------------------------------
(* Three-way merges with main, file by file.                               *)

Conflict(files, from) ==
  \E x \in Workers : files[x] # from[x] /\ main[x] \notin {from[x], files[x]}

With(files, from) ==
  [x \in Workers |-> IF files[x] = from[x] THEN main[x] ELSE files[x]]

(* The worker takes in what main has meanwhile.                            *)
Update(w) ==
  /\ stage[w] = "working"
  /\ base[w] # main /\ ~Conflict(tree[w], base[w])
  /\ tree' = [tree EXCEPT ![w] = With(@, base[w])]
  /\ base' = [base EXCEPT ![w] = main]
  /\ UNCHANGED <<stage, main, origin, changes, check>>

Mergeable(w) == ~Conflict(origin[w].files, origin[w].base)

Merged(w) == With(origin[w].files, origin[w].base)

(* The required check has passed; the branch is deleted.                   *)
Merge(w) ==
  /\ origin[w].version > 0 /\ Mergeable(w)
  /\ result[w].of = origin[w].version /\ ~result[w].failed
  /\ main' = Merged(w)
  /\ origin' = [origin EXCEPT ![w] = Gone]
  /\ stage' = [stage EXCEPT ![w] = "done"]
  /\ UNCHANGED <<tree, base, changes, check>>

(* Closed without a merge.                                                 *)
Abandon(w) ==
  /\ origin[w].version > 0
  /\ origin' = [origin EXCEPT ![w] = Gone]
  /\ stage' = [stage EXCEPT ![w] = "done"]
  /\ UNCHANGED <<tree, base, main, changes, check>>

(* repo-close-claim, which deletes the files of a merged branch.  Its job  *)
(* runs once and may be cancelled; then it is run by hand, at any time.    *)
Close(w) ==
  /\ stage[w] = "done" /\ main[w] # {}
  /\ main' = [main EXCEPT ![w] = {}]
  /\ UNCHANGED <<stage, tree, base, origin, changes, check>>

-----------------------------------------------------------------------------
(* repo-verify-claims on a pull request.                                   *)

(* The merge with main and every branch are fetched first.                 *)
Fetch(w) ==
  /\ run[w] = "idle"
  /\ origin[w].version > 0 /\ result[w].of # origin[w].version /\ Mergeable(w)
  /\ run' = [run EXCEPT ![w] = "fetched"]
  /\ of' = [of EXCEPT ![w] = origin[w].version]
  /\ here' = [here EXCEPT ![w] = Merged(w)]
  /\ refs' = [refs EXCEPT ![w] = origin]
  /\ UNCHANGED <<heads, result, work>>

(* ls-remote.                                                              *)
List(w) ==
  /\ run[w] = "fetched"
  /\ run' = [run EXCEPT ![w] = "listed"]
  /\ heads' = [heads EXCEPT ![w] = [b \in Workers |-> origin[b].version]]
  /\ UNCHANGED <<of, here, refs, result, work>>

Live(w) == {b \in Workers : heads[w][b] > 0}

Read(w) == {b \in Live(w) : refs[w][b].version = heads[w][b]}

Copies(w, x) == {b \in Read(w) : refs[w][b].files[x] # {}}

(* The branch of the claim itself, rather than another that has a copy.    *)
Preferred(copies, x) == CHOOSE b \in copies : x \in copies => b = x

\* Mutant: also of claims whose branch is gone.
AnyRemote(w, x) ==
  IF Copies(w, x) = {} THEN {} ELSE refs[w][Preferred(Copies(w, x), x)].files[x]

(* The claim of x as other branches have it, while its branch is live.     *)
Remote(w, x) ==
  IF Copies(w, x) = {} \/ x \notin Live(w) THEN {}
  ELSE refs[w][Preferred(Copies(w, x), x)].files[x]

\* Mutant: only what lies in one working tree is compared.
SeenHere(w, x) == here[w][x]

(* withoutLocalDuplicates: a file in the checkout is preferred.            *)
Seen(w, x) == IF here[w][x] # {} THEN here[w][x] ELSE Remote(w, x)

(* Without frontmatter there is no data.id: the check throws.              *)
Throws(w) ==
  \/ \E x \in Workers : here[w][x] = {Broken}
  \/ \E b \in Read(w), x \in Workers : refs[w][b].files[x] = {Broken}

Overlaps(w) ==
  {pair \in SUBSET Workers :
     \E x, y \in Workers : /\ pair = {x, y} /\ x # y
                          /\ Seen(w, x) \cap Seen(w, y) # {}}

Finish(w, outcome) ==
  /\ run[w] = "listed"
  /\ run' = [run EXCEPT ![w] = "idle"]
  /\ result' = [result EXCEPT ![w] = outcome]
  /\ UNCHANGED <<of, here, refs, heads, work>>

Report(w) ==
  /\ ~Throws(w)
  /\ Finish(w, [of |-> of[w], failed |-> FALSE,
                overlaps |-> Overlaps(w), unread |-> Live(w) \ Read(w)])

Throw(w) ==
  /\ Throws(w)
  /\ Finish(w, [of |-> of[w], failed |-> TRUE, overlaps |-> {}, unread |-> {}])

-----------------------------------------------------------------------------
Next ==
  \/ \E w \in Workers :
       \/ Claim(w) \/ ChangeAreas(w) \/ Update(w) \/ Push(w)
       \/ Merge(w) \/ Abandon(w) \/ Close(w)
       \/ Fetch(w) \/ List(w) \/ Report(w) \/ Throw(w)
  \/ \E stack \in Stacks : Stack(stack[1], stack[2])

Spec == Init /\ [][Next]_vars

-----------------------------------------------------------------------------
(* Properties.                                                             *)

Results == [of : Nat, failed : BOOLEAN, overlaps : SUBSET SUBSET Workers,
            unread : SUBSET Workers]

(* Every variable keeps its kind of value.                                 *)
TypeOK ==
  /\ stage \in [Workers -> {"none", "working", "done"}]
  /\ tree \in [Workers -> Files]
  /\ base \in [Workers -> Files]
  /\ main \in Files
  /\ origin \in [Workers -> Commits]
  /\ changes \in 0..Changes
  /\ run \in [Workers -> {"idle", "fetched", "listed"}]
  /\ of \in [Workers -> Nat]
  /\ here \in [Workers -> Files]
  /\ refs \in [Workers -> [Workers -> Commits]]
  /\ heads \in [Workers -> [Workers -> Nat]]
  /\ result \in [Workers -> Results]

(* What is on origin has been checked.                                     *)
Checked(w) ==
  /\ origin[w].version > 0
  /\ result[w].of = origin[w].version /\ ~result[w].failed

Warned(w, x) == {w, x} \in result[w].overlaps \/ x \in result[w].unread

(* Two claims that overlap, on branches whose latest pushes are checked.   *)
Collide(w, x) ==
  /\ w # x /\ Checked(w) /\ Checked(x)
  /\ origin[w].files[w] \cap origin[x].files[x] # {}

(* The checkout that was checked holds no outdated copy of the claims.     *)
UpToDate(w, x) ==
  /\ here[w][w] = origin[w].files[w]
  /\ here[w][x] \in {{}, origin[x].files[x]}

(* When two claims collide, the check of one of them has said so, or has   *)
(* said that it could not read the other's branch; whatever the order of   *)
(* pushes, fetches and listings.  Outdated copies excepted.                *)
CollisionsSurface ==
  \A w, x \in Workers :
    Collide(w, x) /\ UpToDate(w, x) /\ UpToDate(x, w)
    => Warned(w, x) \/ Warned(x, w)

(* "another agent's overlap warning fires while both branches are still    *)
(* unmerged": without exception.                                           *)
EveryCollisionSurfaces ==
  \A w, x \in Workers : Collide(w, x) => Warned(w, x) \/ Warned(x, w)

(* "a claim whose declared branch no longer exists on origin is treated as *)
(* finished": it is only reported if it lies in the checkout itself.       *)
FinishedIsQuiet ==
  \A w \in Workers : run[w] = "idle" =>
    \A pair \in result[w].overlaps : \A x \in pair :
      x \in Live(w) \/ here[w][x] # {}

(* No malformed task file gets to main, though a check reads the merge of  *)
(* one moment and the merge happens at another: main has been merged into, *)
(* closed on and branched from in between.                                 *)
MainIsSound == \A x \in Workers : main[x] # {Broken}

(* A check that fails has met the file of someone who bypassed the hook,   *)
(* in its checkout or on a branch it could read.                           *)
FailuresTraced ==
  \A w \in Workers : run[w] = "idle" /\ result[w].failed
    => \E x \in Careless :
         \/ here[w][x] = {Broken}
         \/ \E b \in Read(w) : refs[w][b].files[x] = {Broken}

(* "This fails only on register INTEGRITY the PR author controls": a check *)
(* fails only if one of the task files in its checkout is malformed.       *)
FailsOnItsOwn ==
  \A w \in Workers : run[w] = "idle" /\ result[w].failed
    => \E x \in Workers : here[w][x] = {Broken}
=============================================================================
