# TLA+ models of lcabrera-stack

This directory models the parts of the repository whose correctness depends on
what happens *in between*: a navigation during a request, a failure half way
through a pass, a connection lost after its commit was sent, a push between
another's fetch and its listing. Each module is translated from the source files
that `PROJECT.json` maps it to; the model checker (TLC) explores small instances
of it completely, and the proof system (TLAPS) proves the theorems for every
value of the constants.

## The system

The repository is a monorepo: a React component library around a data table
(`packages/ui`) with its browser-side HTTP helpers (`packages/api`) and its
Node-side SQL loaders (`packages/server`), a store of evaluation runs
(`packages/eval-history`), a kit that materialises a shared agent setup into
repositories (`packages/devkit`), small tooling packages, a demonstration
application (`apps/showcase`), runners of language-model evaluations (`evals`)
and the scripts that operate the repository itself (`scripts`).

| Component | State it keeps | Operations | Interacts with | What is hard |
| --- | --- | --- | --- | --- |
| Table data and infinite scroll (`packages/ui`) | a row store, an in-flight flag, a one-page prefetch buffer, an observer | load more, prefetch, re-seed after a navigation, fail | the route loader and `packages/server` by request; React Router by transitions | refs outlive navigations, late answers, failed and short pages, re-arming the observer |
| Filter option data (`packages/ui`) | one page list per filter column, shared by all inputs that show it | initial fetch, load more, prefetch, fail | the distinct-value endpoint | slices captured before an await are written back whole; inputs unmount while their calls go on |
| Pull-request queue operator (`scripts`) | one pass: snapshot, edges, order, verdicts, executions | order, decide, propagate, execute | GitHub, a headless model that decides and executes | cyclic dependencies, untrusted verdicts, failures in mid-pass |
| Devkit sync (`packages/devkit`) | files in a consumer's tree, a manifest of hashes, accepted edits | plan, apply, record, retire, accept | the consumer, who edits the same files; successive kit versions | edits between runs, a crash between writing files and the manifest |
| Eval-history migrations (`packages/eval-history`) | a ledger, a schema, model prices, role grants | apply the pending files one by one under a lock, upsert prices, grant roles | PostgreSQL, other runs from other checkouts | transactions of several runs interleave; checkouts differ; a lost connection may or may not have committed |
| Eval-history ingest (`packages/eval-history`, `evals`) | envelopes on disk; stored runs, cases, subjects and contents | a run records itself and sends; `evals:ingest` sends what lies on disk | PostgreSQL, the run's own process | lost commits, the same run sent twice at once, deadlocks over subjects, signals |
| Coordination register (`scripts`, `packages/repo-standards`) | task files on branches, on main and in checkouts | claim, push, merge, close; the check of a pull request | git's origin, GitHub's pull requests | every check reads refs that others move; claims outlive branches; copies of claims travel with stacked branches |
| Database pool and shutdown (`server`, `node-runtime`) | a lazy singleton pool | get, close | pg, the process | nothing: the pool is the driver's |
| The rest | none, or local to one call | pure functions, rendering, configuration, one-shot scripts | | |

`PROJECT.json` lists every component with its status, and every hazard at the
line of code where it bites.

### What makes each component correct

* **Table.** What is on screen is the beginning of the current query's result,
  until an answer or page that an earlier render asked for is shown; one load-more is out at a time; a
  waiting call waits for something that will settle; further rows are offered
  exactly while there are some; with the sentinel in view everything loads;
  between navigations rows are only appended. With one query the table is a
  growing prefix of the result, which `PagedView` states with none of the
  machinery.
* **Queue operator.** The order is a merge order and the same for the same
  snapshot; only what is on or below a cycle is left out; nothing unplaced,
  stopped or past its ceiling is executed whatever the model says; an escalation
  reaches all that merges later before anything is executed; executions follow
  the order; the pass ends.
* **Devkit sync.** What a consumer wrote is never overwritten or deleted; what
  nobody touched follows the installed version, whatever versions, rungs and
  directories the repository went through; the records are of what is in the
  tree, one for each file; a run that ended leaves nothing for a second one.
* **Migrations.** Files enter the ledger in version order, each run exactly if it is
  recorded, in one history that only grows; a run that gets past the migrations has
  the database its checkout was written for; a role that is reported as granted
  has what that run resolved; every run ends.
* **Ingest.** A run or case is stored once, in one step, with everything that
  belongs to it; what is reported as stored is stored, from the envelope on disk;
  when a content was first seen does not depend on the order of arrival; every
  readable envelope is stored in the end.
* **Coordination.** Of two claims that overlap, the check of at least one says so or
  says that it could not read the other's branch; a finished claim is quiet; a check
  fails for files in its own checkout only.
* **Filter data.** The options are the first of the list, each once; no write-back
  undoes a page; the guards clear.

## Modules

| Module | What it is |
| --- | --- |
| `TablePaging` | the table's row store, load-more, prefetch buffer and observer |
| `PagedView` | the abstract view `TablePaging` implements when there is one query |
| `MCTablePaging` | instances for TLC |
| `TablePagingProofs` | inductive invariant, safety theorems, the refinement, and what loading to the end rests on |
| `PrQueue` | one pass of the pull-request queue operator |
| `MCPrQueue` | instances for TLC: three pull requests |
| `PrQueueProofs` | inductive invariant, safety theorems, and that a pass has finitely many steps |
| `DevkitSync` | the materialiser: init and sync over a consumer's tree |
| `MCDevkitSync` | instances for TLC: files, and tasks |
| `DevkitSyncProofs` | inductive invariant and safety theorems |
| `DevkitSettledProofs` | theorems about a run that ended: tasks, files, modes, a second run |
| `Migrations` | `evals:migrate`: several runs on one database |
| `MigrationHistory` | what one database may have been through; `Migrations` implements it |
| `MCMigrations` | instances for TLC: checkouts that are behind, ahead, diverged, gapped, ambiguous |
| `MigrationsProofs` | inductive invariant, safety theorems, the refinement, and that runs only go forward |
| `EvalIngest` | recording a run and sending envelopes to the database |
| `Archive` | what the database promises of stored runs; `EvalIngest` implements it |
| `MCEvalIngest` | instances for TLC: two runs, a case, one command |
| `EvalIngestProofs` | inductive invariant, safety theorems and the refinement |
| `Coordination` | claims on branches, and the check of every pull request |
| `MCCoordination` | instances for TLC: two workers |
| `CoordinationProofs` | inductive invariant and safety theorems |
| `FilterData` | the options of one column under several inputs |
| `MCFilterData` | instances for TLC |
| `FilterDataProofs` | inductive invariant and safety theorems |

### TablePaging

Rows are named by the query they were read for and their rank in its order, so
"a gap", "a duplicate" and "a row of another query" are visible and nothing else
of a row is. A request for more sends the number of rows so far and, where the table
enables it, the last of them. For the queries in `Keyset` the server reads after that
row's place in the new request's order (`Seek`, which for a row of the query itself is
its rank) and ignores the number; for the others, and with no rows yet, it reads by
number (`Start`). After a navigation the last row may be of another query, and the page
then begins wherever that row falls in the new order.

`store` is the `DataState` of the table (`isLoading`, which nothing here reads, is left
out), `isFetching` is `isFetchingRef`, `cache` is `prefetchRef` (its `data`/`promise` pair as `kind`), `loads` what a call to
`executeFetchMore` holds across its await, `prefetches` the prefetches on the
wire, and `armed` says that the intersection observer owes a callback.

* `ReachEnd...` is the observer callback: `executeFetchMore` up to its await, with
  the early return (`ReachEndIgnored`), a buffered page (`ReachEndHit`) and a
  wait for a prefetch in flight or a request of its own (`ReachEndWait`).
* `FetchResolves`, `FetchRejects`, `PrefetchResolves`, `PrefetchRejects` settle one
  promise and run everything that hangs on it: JavaScript runs these
  continuations with no other event between, and the adoption of a prefetch into
  the buffer runs before the commit of a call that waits for it. So one
  settlement is one step, and a hit, whose awaits all settle at once, is one step.
* `Navigate` is a React transition that commits: the loader's answer re-seeds the
  same store while flag, buffer and requests live on. The callback closes over
  the query of the latest render, a call or prefetch over that of its start. `nav`
  records which render that was, by the number of navigations; no guard reads it.
* `Short` answers (the table shrank under the read), refusals (an answer with no
  rows, total 0 and a reason) and rejections are faults, bounded by `MaxFaults`.

The observer is attached exactly while `hasMore` and not `isLoadingMore`, and an
attachment delivers one callback; `ScrollToEnd` is the user bringing the sentinel
back into view.

### PrQueue

One action per step of `main`: a turn of `topoSort`'s loop (`Place`), appending
what it could not place and the `--pr` filter (`Sorted`), one decision (`Decide`),
the search for descendants (`Decided`, `Reach`), recording (`Record`), one
execution or none (`Execute`, `PassOver`), the end (`Finish`), and an exception
that reaches the outermost handler (`Fail`). The four edge rules are operators on
the snapshot; the gate keeps which row of it fails, not its wording. The model
that decides is external: `Reply` is everything its parser lets through. The code
keeps edges as a list, where two edges with the same ends and rule can occur; the
model keeps a set, and counts and removes the edges between a pair together, as
the code does.

### DevkitSync

`disk` is what is at each place: nothing, something that is no regular file, or a
file, as the text it holds, the command substituted into it and the region the
consumer owns in it. A hash is the content itself. A *path* is a spelling, a
*place* the file it names: `PlaceOf` is `destinationIn`, and two paths may share a
place. `manifest` and `taskRecord` are the two halves of `.devkit-manifest.json`,
`accepted` is `.devkit-accepted.json`, `scripts` the task block of `package.json`
and `runnable` the files with their executable bit.

* `BuildPlan` is `buildPlan`: `Plan` follows `planSync` (which assets prevail, the
  records under their present spelling, the state of each, the retirements), and
  `TaskPlan` follows `planTasks`. `RunInit` writes the configuration first.
* `applyPlan` is one step for each file (`ApplyEntry`, in any order among the placed
  entries, retirements last), one for the mode bits (`SetModes`), one for the task
  block (`ApplyTasks`) and one for the manifest (`WriteManifest`). `Throw` is the
  write that fails on a directory; `Crash` stops a run before any of its steps. A
  write is whole or not at all.
* Between runs: `Upgrade`, `Configure`, `Edit`, `ClearBit`, `EditScript`, `Accept`
  (`doctor --accept`) and `LoseManifest` (deleted or unparsable, which
  `parseManifest` reads as empty). A new configuration or version comes in any
  order, downgrades and narrower rungs included.

`edited`, `cut` and `settled` are history: which files and tasks a consumer changed,
which a stopped run had written without recording, and whether the last run ended
with nothing changed since.

### Migrations and MigrationHistory

One query is one step. What a transaction has done stays with its run (`ran`,
`recorded`, `offered`) until the commit publishes it; `session` is what the server
holds open, which outlives a client that is gone: `LoseConnection` fails the client
at once, `ServerDrops` rolls back later, and `ServerCommitsStep` and
`ServerCommitsGrants` carry out a commit that had been sent. The advisory lock is
held by whoever has a migrating transaction past `pg_advisory_xact_lock`.

* `ReadFiles` to `Rollback` are `readMigrationFiles` and `applyMigrations` with its
  loop of one file per transaction: lock, ledger and drift check (`Inspect`), SQL,
  ledger row, commit. A step that found nothing pending ends the loop.
* `UpsertPrices` is `upsertModelPrices`; `ExistingRoles` to `Expose` are `grantRoles`:
  the roles that exist, the reader's views from the catalog of that moment, the one
  text of revokes and grants, the privileges read back, and the views without
  `security_invoker` that take the reader off the list again.
* Two grants at once: PostgreSQL lets the second wait for the catalog row the first
  is rewriting and then fails it (`GrantBlocks`, `WaitersFail`).

`MigrationHistory` has one action: the next file of some checkout, one that has every
file applied so far, is run and recorded together. Locks, transactions, drift checks
and connections are not in it.

A file is its version and its content and creates one object. `CreateRole` is the
operator's; a role is never dropped. Statement texts are left out.

### EvalIngest and Archive

* `Stop`, `SaveFails`, `Save` and `Kill` are `recordRun`: however a run ends, its
  envelope is written (`torn` meanwhile) and, unless the run was aborted, sent.
  From its end on no signal is listened to; a second one, or one during the send,
  kills the process.
* `Start` is `evals:ingest`: the readable runs, oldest first, over one connection,
  then the adjudication cases over another. Files that cannot be read are reported
  as rejected. A command starts again once it is idle; it does not wait for a
  transaction the server still holds for its last connection, but `Connect` does:
  an immediate restart is another member of `Commands`.
* `Begin` to `Rollback` are `inIngestTransaction` with `ingestEnvelope` or the
  adjudications' counterpart: the file is read again, `insert ... on conflict do
  nothing` waits for whoever inserts the same id, subjects are upserted in the order
  of the envelope, and the first to upsert a subject holds it until its
  transaction ends. Tasks and
  versions go with their subject's statement; the trials, or a case's verdicts, are
  the last group. `Victim` is PostgreSQL's deadlock detector.
* `LoseConnection` fails the item at hand and, since `begin` then throws for each of
  them, the rest of this connection's items. Failures are bounded by `Breaks`.

`Archive` has one action: an item that was not stored is stored, with all its rows,
and every content's first time is the earliest among the stored items that have it.
A partial envelope is treated as a complete one is; with no database configured
nothing is sent, and nothing is modelled.

### Coordination

A worker has one claim, on a branch named after it. `tree` is what is committed in a
worktree, `origin` the pushed heads with a version that grows with each push, `base`
the files of main that a branch contains, so that a merge goes file by file.

* `Claim`, `ChangeAreas`, `Push`, `Update`, `Merge` and `Abandon` are the worker and the
  required check; `Stack` is a branch cut from one that is not merged yet, whose task
  files it inherits; `Close` is `repo-close-claim`, which runs once after a merge,
  may be cancelled and is then run by hand at any time.
* The check of a pull request is three steps, since others push in between: `Fetch`
  (the merge with main, and every branch), `List` (`ls-remote`), and reading the fetched
  refs and answering (`Report`, `Throw`). A branch whose fetched head is not the
  listed one cannot be read and is reported as such.
* A careless worker pushes a file without frontmatter: the hook that would refuse it
  is bypassed by `git push --no-verify`.

### FilterData

`slice` is the column's entry in the filters store, `buffer` the `prefetchRef` of
each input, `calls` what `executeFetchInitialFilterData` and
`executeFetchMoreFilterData` hold across their await, with the slice as they
captured it. `Refetch` is the effect that runs again when the callback it closes
over changes; `Unmount` leaves the input's calls and its buffer alive. As in
`TablePaging`, a promise that settles runs everything that hangs on it in the same
step. A query takes a full page as the sign that there is more, so the total it
names is infinity or the length of the last page; what the footer shows of it is
not checked. The options do not change while they are paged through; a page is 50
of them and a request is given up after 30 seconds in the code.

## Runs

Bounds are in the `.cfg` files and the `MC` modules.

| Run | Question | Instance |
| --- | --- | --- |
| `tp_navigate` | are rows in their place but for late answers, is one call out at a time, is the observer's wake-up kept, and does the spinner clear? | two queries of 5 and 4 rows in opposite orders, one read after the last row and one by offset, first page 1, pages of 2, prefetch on, 3 navigations, 2 faults of any kind |
| `tp_one_query` | is it a growing prefix that loads to the end? | one query of 5 rows, re-read up to 3 times, 3 rejections or short answers |
| `tp_stale_commit` | are the rows those of the current query? (no) | 1 navigation, no faults, no prefetch |
| `pr_queue` | is the order a merge order, do escalations spread to exactly what merges after, do executions follow the order, and does the pass end? | 3 pull requests with every edge rule, in chains, forks, cycles and none; four gates each on two of them; the whole queue, one of it, or one that is not open |
| `devkit_files` | are files kept, followed, recorded and left in peace as promised? | 3 assets at 4 spellings of 3 places, 3 versions, 4 configurations, 5 things to find at a place, 3 changes, 1 crash |
| `devkit_tasks` | does the task block follow the kit? | 3 tasks, 3 versions, 3 configurations, 3 changes, 1 crash |
| `migrations` | is it a `MigrationHistory`, caught up before prices and grants, does every step bring a run nearer its end, and does every run end? | 2 runs, 6 possible checkouts each of 4 files in 3 versions, connections lost anywhere |
| `migrations_grants` | does the reader keep every view it was granted? (no) | 2 runs of two releases |
| `eval_ingest` | is it the archive, are reports true, is everything stored in the end? | 2 runs with a content in common and subjects in opposite orders, 1 case, 1 command, refused rows, 1 broken connection |
| `coordination` | do collisions surface, and are finished claims quiet? | 2 workers, one possibly stacked on the other, 2 areas, one careless worker, 1 change of areas |
| `coordination_broken` | does a check fail for its own files only? (no) | 2 workers, 1 area, one careless worker |
| `filter_data` | is nothing missing or undone, and do the guards clear? | 3 inputs, 6 options in pages of 2, 3 prefetches, 2 faults |

Five rows in pages of one and two give a first, a middle and a short last page;
two queries of different length reach both "the offset still matches" and "it no
longer does"; two load slots are one more than the code should ever use, so that
`SingleFlight` is a finding and not a bound; two prefetches are one that was left
behind and one that is current. Three pull requests are enough for a chain, a
fork, a two-cycle with something below it, and a three-cycle. In `devkit_files` the
hook has a placeholder, an executable bit, two spellings and a second directory;
`base` holds a consumer's region and gives way to `over` on the higher rung, and
the next version retires `base` there and ships `over` no more; the third version
is a half-unpacked install. Three changes are what it takes to go up a rung, move
to the next version and come back, or to upgrade, edit and upgrade again.

Two runs of `evals:migrate` are what the lock and a race of grants need, and three
versions give a file that comes before, between or after what is applied. Two runs
with opposite orders of subjects are a deadlock, the command that sends the same
file at the same moment is the third sender, and one lost connection leaves a
commit in doubt for another sender to meet. Six options in pages of two end on a
full page, after which one empty page says that there is no more. `coordination` is
kept to two workers because three have more than 23 million states; its
theorems hold for any number.

The runs marked (no) are the disagreements with the repository's own words that
modelling met; `PROJECT.json` quotes the line each one contradicts.

### Fairness

`TablePaging!Fairness` says that a due observer callback is delivered (the
browser's job, while the sentinel stays in view) and that each request settles
(the fetch helpers pass an abort signal with a time limit). Nothing is assumed of
the user: navigation and scrolling need never happen. `AllRowsLoad` assumes no
navigation because a re-seed during a call really can lose the wake-up: the
observer is attached anew while the flag is still set, the callback is ignored,
and the next is owed only once the user scrolls. `WakeUpKept` says that this is the
only way to lose it. `PrQueue` is one synchronous
program whose external calls have time limits, hence weak fairness of its next
step.

`Migrations!Fairness`: a client sends its next query, PostgreSQL grants a lock that
nobody holds, and it ends the transactions of clients that are gone. That a lost
connection happens, or that a role is created, is not assumed. In `EvalIngest` the
same holds of statements, deadlocks are broken, and `evals:ingest` is started again
whenever it can be: "A run that failed to send is sent later by `evals:ingest`"
(`docs/agents/planning/eval-history-prd.md`) is a promise about someone who runs it. No fairness
is given to runs, kills or failures; failures are finitely many (`Breaks`). In
`FilterData` every request settles, since `resolveDistinctFilterOptions` races it
against a time limit.

Nothing is assumed of `DevkitSync` and `Coordination`: their properties are of safety,
and the ones about a finished run or check are stated where one has finished
(`settled`, `run[w] = "idle"`).

Deadlock is not checked where the system may rest: the table and the filter with
everything loaded, a pass that ended, all workers done. A devkit run and the ingest
command can always be started again, and `Migrations!Over` names the one state in
which nothing is left to do, so in these a deadlock would be reported.

## Proofs

`TablePagingProofs` proves an inductive invariant from `PagingAssumption` alone,
for any number of queries, rows, page sizes, slots, prefetches, navigations and
faults, whichever queries are read after a cursor and wherever the rows of one fall in
the order of another.

`RowsInPlace` is about what the screen is made of. It is not always the beginning of
the current query's result (`Unmixed`): the code commits a call's answer on the rows the
call captured, whatever was navigated to meanwhile (the run `tp_stale_commit`), and it
takes a buffered page, or waits for a prefetch, that stands at the right number of rows
but belongs to an earlier render. The second contradicts `TableData/ARCHITECTURE.md:105-106`
and ADR-006, which say that a stale buffer never matches: with the buffer at 200 rows, a
navigation, and one page that fills the screen up to 200 again, a late answer to the old
prefetch is adopted in place of the new one (`firePrefetch.util.ts:34` compares the
number alone). `OnlyLateAnswersMix` names the two, and the theorem says there is no third.
Its invariant (`FreshInv`) ties each call of the current render to what is on screen, and
each prefetch and buffered page of it to the current query and to its place; none
exists while a call of an earlier render is out, because that call holds the flag, so
the screen only grows beneath them. With one query nothing can be mixed
(`OneQueryUnmixed`), since a cursor and a number then say the same.

`Refinement` shows that with one query
each step is a step of `PagedView` or none; `NothingCutOff` adds that without
refusals a list that ends is whole, and `OnlyAppends` that only a navigation takes
rows off the screen: a call's capture is never shorter than what is shown (`OneInv`).

Three more theorems are what loading to the end rests on beside fairness. `WakeUpsKept`:
the table gets into a state where it offers more and nobody will ask for it
(`Stalled`) only when a call returns whose spinner a re-seed has taken away.
`NoStall`: without navigation it never does. `EachCallAdvances`: with one query a call
that returns has brought a row that was not on screen or has met a fault, so calls
do not go round in circles.

`PrQueueProofs` proves its invariant from `QueueAssumption` (the pull requests are
finitely many natural numbers, the facts well formed). The sort needs that the
indegree counts exactly the edges from unplaced numbers (`Counts`) and that the
ready list is exactly the unplaced numbers with none (`ReadyList`); the leash
needs that every recorded verdict is within its ceiling or an escalation
(`VerdictsLeashed`); propagation needs that what is reached is closed under the
edges except through what is still pending (`SearchClosed`).

`SpreadIsExact` goes both ways. `Below` is the least set of numbers that the edges
lead to from an escalation, defined by intersection; what the search reaches is in
every closed set, so it is `Below`, and no other verdict changes. `AcyclicPlaced`:
where the edges have a rank to follow, everything is placed, since of the unplaced
the one of least rank would wait for nothing. `PassDoesAdvance`: every step goes to a
later phase or makes `Left`, a natural number, smaller, so a pass has finitely many
steps and `PassEnds` needs no more than that the next one is taken.

`DevkitSyncProofs` proves, from `DevkitAssumption` and `TextAssumption`, that no step
of a run changes what a consumer wrote (`OwnWorkKept`), that a new record is of
what is there (`RecordsTrue`) and that no file has two records (`RecordsApart`),
for any kits, configurations, trees and crashes. The assumptions say that the
constants have their types, that the assets of one group have different targets,
and that the consumer's texts and commands are told from the kit's. None of this
is inductive alone: a step of the run acts on what was read when the plan was
made. `PlanSound` says what a plan still owes the tree while it is carried out. An
entry to come finds its place as it was judged (`ToCome`), an entry done has left
there what will be recorded (`DoneEntries`), placed entries share their place with
no other entry (`PlacesApart`), and a task to be written is not the consumer's
(`TasksToCome`).

`DevkitSettledProofs` proves the four invariants about a run that ended. A run is
described there by where its plan leads and not by the tree it was made on: the task
block after the plan and the record it will write agree with the version
(`TasksSound`); every file the version ships has an entry whose outcome is the one
recorded, so that a plan made afterwards would find nothing to do (`RunCovers`,
`Quiet`, together `QuietSound`); and a place nobody touched is as recorded until an
entry of the plan writes it, and as the run will leave it once none still will
(`PlacesSound`). `TaskAssumption` says which tasks a blueprint begins: those of its
own rung, the highest that is modelled. `OnlyTheirsLeft` turns it round: what the next
plan would leave alone, be it a file or a task, was changed by the consumer or
written by a run that was cut off, so the kit never takes its own work for an edit.

`MigrationsProofs` proves its invariant from `MigrationsAssumption` for any runs,
checkouts and files. One transaction at a time migrates (`OneMigrates`), so what a
run learnt under the lock is still so when it commits: `StepsKnown` says that a
transaction past its drift check has a checkout whose files agree with the ledger,
and that what it has run is the first file missing. From that `LedgerAscends`,
`RunAsRecorded` and `OneHistory` follow, and `CaughtUp` says that the ledger begins
with exactly the checkout's files once a step found nothing pending, after which
it can only grow at its end (`CaughtStays`). The grants have no such lock: `Resolving`,
`Offering` and `Reporting` carry what each run has resolved up to the catalog, which
is enough for the writer, whose target is "all tables" (`WriterDoesKeep`), and for a
reader granted by runs of one checkout (`ReaderDoesKeepCommon`), and not for the
reader in general (`migrations_grants`). `RacersDoAgree`: two runs of one checkout
never see each other's work as drift.

`Refinement` sums up what the ledger and the schema go through: every commit, late or
answered, is the next file of a checkout that has all those before it, and every other
step leaves both alone. That a checkout has one file of each version, which "the next
file" needs, is known of a run that got past reading it (`Unambiguous`). `LedgerInOrder`,
`RunExactlyOnce` and `HistoryIsOne` state three of its consequences directly.

`RunsDoAdvance` gives each run a number, `Remaining`, that no step of any run makes
larger and every step but the operator's makes smaller for some run: another run's
commit can only take files from what is missing here, and a file applied is worth more
than the next round of the loop costs. `NoneStuck`: until all have ended some run has a
query that waits for nothing, so the waits for the lock and for the grants close no
circle. Together they are why `RunsEnd` needs fairness and nothing else.

`EvalIngestProofs` proves from `EvalIngestAssumption`, for any number of runs, cases
and commands, that reports are true, that no sender meets a different envelope of
the same run, and that the ingest implements `Archive`. A file does not change once
it is whole (`Files`), so what was read is still there when the transaction ends
(`Reads`); an id a transaction has inserted is that transaction's alone and not
committed (`Holds`, `Rivals`), so a commit, late or not, stores something new; and a
transaction is sent to commit with all its groups written (`Steps`).

`WaitsDoEnd`: while a statement waits, some client can send its next one, the server has
an abandoned transaction to end, or some senders are deadlocked in the sense by which
`Victim` picks one. Only finitely many senders have a transaction (`StepAtServer`); if
all of them wait, a smallest set that waits within itself spares nobody, and that is a
deadlock (`WaitersDeadlock`). So the rule for victims misses no circle of waits.

`CoordinationProofs` proves for any number of workers, areas and pushes that of two
checks of the latest pushes one has listed the other's (`Met`): a check lists after
the push it checks. What it then reads of that branch is that push, or it says so
(`Known`, `Reported`). `WithoutStacks` adds that where nobody stacks branches no
exception for outdated copies is needed.

`MainStaysSound`: no malformed file gets to main, though the check that would refuse it
reads the merge of one moment and the merge happens at another. A check that passed
had no malformed file in its checkout (`Passed`), what is merged is the push it checked
(`PushHere`), and main was sound all the while. `FailuresAreTraced`: a check that fails has
met the file of somebody who bypassed the hook.

`FilterDataProofs` proves for any options, page size and number of inputs that nothing
is missing and nothing is undone. The two guards live in the slice all inputs share,
so one call is out at a time, and the slice is then exactly the one it captured with
its flag raised (`Alone`); that is why writing a captured slice back whole is safe.
`GuardsAreHeld`: each guard is up exactly while a call of its kind is out, so no
write-back leaves one up.

Model-checked only: the liveness properties (`SpinnerClears`, `AllRowsLoad`, `PassEnds`,
`RunsEnd`, `EventuallyStored`, `GuardsClear`), since they follow from fairness, and with
it from which steps are enabled, which the prover cannot express. What is proved is the
part of each that does not depend on it, a quantity that only shrinks or the absence of
a state in which everybody waits: `BufferLive` for `SpinnerClears` (what a call waits for is
on the wire), `NeverStalls` and `CallsAdvance` for `AllRowsLoad`, `PassAdvances` for
`PassEnds`, `RunsAdvance` and `SomeoneMoves` for `RunsEnd`, `WaitsEnd` for
`EventuallyStored`, and `GuardsHeld` for `GuardsClear`. Theorems that state no property
of a run (`CallsAdvance`, `NeverStalls`, `PassAdvances`, `SomeoneMoves`, `WaitsEnd`, `GuardsHeld`, `LeavesOnlyTheirs`,
`MainIsSound`, `FailuresTraced` and others) were checked by TLC on the instances of these
runs before they were proved; a line in a `.cfg` checks them again.

## Not modelled

The components listed as `not_modelled` in `PROJECT.json`, with the reason at
each. Within the modelled ones: the grouped and client-filtered views of the
table (derived from the store, they write none of it; a grouped table has one page and
no cursor), the reasons for which a server falls back from a cursor to the number of rows
(a table that sends none, a sort that does not end in the unique column, no unique
value: a query is in `Keyset` or not), retry pacing (a persistent
rejection with the sentinel in view is retried without delay), wording, logging
and the flags the gate reports but does not decide by, and the age of the
snapshot a pass works on; in `DevkitSync`, paths that lead out of the repository,
files that cannot be read, a write torn in the middle, a repository without
`package.json`, the database's tasks of the rung above the blueprint's, and edits
while a run is going on; in `Coordination`, an origin that
cannot be reached, the done status, branches with several claims, two claims of one
id, checks run by hand, checks of an older push that are still running, and the
board; in the eval history, what the rows contain.

The pool of `packages/server` is two assignments around the driver's pool, and no code
of the repository calls `closePool`. `devkit create` writes an empty directory once.
Everything else is presentation, configuration, pure functions over text, or
one-shot scripts, and keeps no state between steps.

## Plan

1. `TablePaging`, `PagedView` with runs and proofs: done.
2. `PrQueue` with runs and proofs: done.
3. `DevkitSync` with runs and proofs: done.
4. `Migrations`, `EvalIngest` over `Archive`, `Coordination` and `FilterData`, with runs
   and proofs: done.
5. What `DevkitSync` says of a run that ended, proved in `DevkitSettledProofs`: done.
6. `MigrationHistory` and the refinement; exact propagation; what the liveness of each
   component rests on (progress of every loop, no circle of waits), proved: done.
7. To prove next: that an envelope on disk is never given up by all who could send it,
   and that what a consumer accepted stays accepted through upgrades.
8. To model next: an origin that cannot be reached in `Coordination`, and the ways of
   `DevkitSync` out of the repository through links.
