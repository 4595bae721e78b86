----------------------------- MODULE DevkitSync -----------------------------
(***************************************************************************)
(* The materialiser of @lcabrera/devkit (packages/devkit/scripts): what    *)
(* `devkit init` and `devkit sync` write into a consumer's tree, what they *)
(* remove, and the manifest that tells the kit's work from the consumer's. *)
(*                                                                         *)
(* A run reads the whole tree, plans, and then writes in the order of      *)
(* applyPlan: the files one at a time, the mode bits, the task block of    *)
(* package.json, and last the manifest.  It is one synchronous process, so *)
(* the consumer acts between runs; a run may stop at any write.            *)
(*                                                                         *)
(* `--profile` is a run between two changes of the configuration.          *)
(* `devkit doctor` is the plan without the writes.  No symbolic link leads *)
(* out of the repository, and every file can be read.                      *)
(***************************************************************************)
EXTENDS Naturals

CONSTANTS
  Assets,      \* the files any version of the kit ships
  Paths,       \* spellings of repository-relative paths
  Places,      \* the files they name
  PlaceOf,     \* [Paths -> Places]: destinationIn
  GroupOf,     \* [Assets -> Nat]: position of the asset's group on the ladder
  RungOf,      \* [groups -> Nat]: the rung that brings the group
  KitGroups,   \* the groups a whole install has assets in
  Placements,  \* values of the configuration's "paths"
  TargetOf,    \* [Assets -> [Placements -> Paths]]: targetPathFor
  Executable, Regional, Templated, \* assets run, holding a region, using a command
  KitTexts, OwnTexts,  \* what the kit ships, what only a consumer writes
  Answers, Regions,    \* configured commands, blocks a consumer owns
  Kits, Configs,       \* versions of the kit, configurations
  Tasks, TaskRung, Blueprint, NeedsBlueprint, BlueprintRung,
  KitCommands, OwnCommands,
  None,                \* no hash, no answer, no region, no command
  ConsumerNodes,       \* what a consumer may put at a place
  MaxChanges, MaxCrashes

Rungs == 1..BlueprintRung

Contents == [text : KitTexts \cup OwnTexts, answer : Answers \cup {None}]

KitContents == [text : KitTexts, answer : Answers \cup {None}]

Hashes == [content : Contents, region : Regions \cup {None}]

Kit == [ships : UNION {[S -> KitTexts] : S \in SUBSET Assets},
        retires : [Rungs -> SUBSET Assets],
        tasks : UNION {[S -> KitCommands] : S \in SUBSET Tasks}]

Config == [profile : Rungs, placement : Placements, answer : Answers \cup {None},
           unmet : SUBSET Assets, missingBins : SUBSET Tasks]

Node == [kind : {"file"}, content : Contents, region : Regions \cup {None}]
          \cup [kind : {"absent", "other"}, content : {None}, region : {None}]

Absent == [kind |-> "absent", content |-> None, region |-> None]

Directory == [kind |-> "other", content |-> None, region |-> None]

FileOf(content, region) == [kind |-> "file", content |-> content, region |-> region]

\* The assets of one group have different names, in whatever directory.
ASSUME DevkitAssumption ==
  /\ PlaceOf \in [Paths -> Places]
  /\ TargetOf \in [Assets -> [Placements -> Paths]]
  /\ GroupOf \in [Assets -> Nat]
  /\ BlueprintRung \in Nat
  /\ \A a, b \in Assets, p \in Placements :
       GroupOf[a] = GroupOf[b] /\ PlaceOf[TargetOf[a][p]] = PlaceOf[TargetOf[b][p]] => a = b

ASSUME TextAssumption ==
  /\ KitTexts \cap OwnTexts = {} /\ KitCommands \cap OwnCommands = {}
  /\ None \notin KitCommands \cup OwnCommands \cup Hashes \cup Contents
  /\ None \notin Answers \cup Regions
  /\ Kits \subseteq Kit /\ Configs \subseteq Config
  /\ ConsumerNodes \subseteq Node
  /\ MaxChanges \in Nat /\ MaxCrashes \in Nat

\* Every task of the blueprint comes at its rung, with which the ladder ends
\* here: the database's tasks, of the rung above, are left out.
ASSUME TaskAssumption ==
  Blueprint \subseteq Tasks /\ \A t \in Blueprint : TaskRung[t] = BlueprintRung

VARIABLES
  kit, config,        \* the installed version; the resolved configuration
  disk, runnable,     \* what is at each place; the places with the executable bit
  scripts,            \* the task block of package.json
  manifest, taskRecord,  \* .devkit-manifest.json: hashes by path, commands by task
  accepted,           \* .devkit-accepted.json: hashes by path
  phase,              \* what the run does next, "idle" between runs
  plan, taskPlan,     \* what the run decided
  todo,               \* entries of the plan applySync has not reached
  settled,            \* the last run ended, and nothing has changed since
  edited, cut,        \* places and tasks a consumer changed, or a stopped run left
  changes, crashes

tree == <<disk, runnable, scripts>>
records == <<manifest, taskRecord, accepted>>
run == <<phase, plan, taskPlan, todo>>
history == <<edited, cut, changes, crashes>>
vars == <<kit, config, tree, records, run, settled, history>>

-----------------------------------------------------------------------------
(* The states of manifest.mjs *)

Written == {"added", "restored", "retired", "updated"}

\* Mutant: an edit left alone is recorded as if it had been written.
IsRecordedOrModified(state) == state \in {"added", "current", "modified", "restored", "updated"}

IsRecorded(state) == state \in {"added", "current", "restored", "updated"}

Acknowledgeable == {"conflict", "modified"}

\* Mutant: a newer version is written without asking what is there.
ClassifyEagerly(incoming, there, recorded) ==
  IF recorded = None
  THEN IF there = None THEN "added" ELSE IF there = incoming THEN "current" ELSE "conflict"
  ELSE IF there = None THEN "restored" ELSE IF incoming = recorded THEN "current" ELSE "updated"

\* What a run finds against what it brings and what it last put there.
Classify(incoming, there, recorded) ==
  IF recorded = None
  THEN IF there = None THEN "added" ELSE IF there = incoming THEN "current" ELSE "conflict"
  ELSE IF there = None THEN "restored" ELSE IF there # recorded THEN "modified"
       ELSE IF incoming = recorded THEN "current" ELSE "updated"

-----------------------------------------------------------------------------
(* Which assets a configuration places, and where *)

Includes(rung) == rung <= config.profile

Shipped == DOMAIN kit.ships

Retired == UNION {kit.retires[r] : r \in {r \in Rungs : Includes(r)}}

Target(a) == TargetOf[a][config.placement]

At(a) == PlaceOf[Target(a)]

Candidates == {a \in Shipped \ Retired : Includes(RungOf[GroupOf[a]])}

\* Where two assets meet, the higher group's prevails.
Placed == {a \in Candidates : \A b \in Candidates : At(b) = At(a) => GroupOf[b] <= GroupOf[a]}

PlacedPaths == {Target(a) : a \in Placed}

Rendered(a) ==
  [text |-> kit.ships[a], answer |-> IF a \in Templated THEN config.answer ELSE None]

Incoming(a) == [content |-> Rendered(a), region |-> None]

WholeHash(node) ==
  IF node.kind = "file" THEN [content |-> node.content, region |-> node.region] ELSE None

\* The consumer's region is split off before the rest is hashed.
OnDisk(a) ==
  LET node == disk[At(a)] IN
  IF a \in Regional /\ node.kind = "file" THEN [content |-> node.content, region |-> None]
  ELSE WholeHash(node)

-----------------------------------------------------------------------------
(* Records: one spelling for each placed file *)

Aliases(p) == {q \in Paths \ {p} : manifest[q] # None /\ PlaceOf[q] = PlaceOf[p]}

Aliased == UNION {Aliases(p) : p \in PlacedPaths}

\* Mutant: the records as they were spelled.
RecordedVerbatim == manifest

Recorded ==
  [p \in Paths |->
     IF p \in PlacedPaths /\ manifest[p] = None /\ Aliases(p) # {}
     THEN manifest[CHOOSE q \in Aliases(p) : TRUE]
     ELSE IF p \in Aliased THEN None ELSE manifest[p]]

-----------------------------------------------------------------------------
(* The plan *)

StateOf(a) ==
  LET state == Classify(Incoming(a), OnDisk(a), Recorded[Target(a)]) IN
  IF a \in config.unmet THEN "unmet"
  ELSE IF a \in Templated /\ config.answer = None THEN "unresolved"
  ELSE IF state \in Acknowledgeable /\ accepted[Target(a)] = OnDisk(a) THEN "acknowledged"
  ELSE state

RegionAt(a) == IF a \in Regional THEN disk[At(a)].region ELSE None

PlacedEntry(a) ==
  [path |-> Target(a), state |-> StateOf(a), content |-> Rendered(a),
   region |-> RegionAt(a), executable |-> a \in Executable]

\* An install without assets in one of its groups says nothing of departures.
Incomplete == Shipped = {} \/ ~(KitGroups \subseteq {GroupOf[a] : a \in Shipped})

Declared == {Target(a) : a \in Retired}

ShippedPaths == {Target(a) : a \in Shipped}

PlacesOf(paths) == {PlaceOf[p] : p \in paths}

\* Mutant: a file some rung ships keeps its record, also when this rung retires it.
StillShippedSomewhere(d) == d \in PlacesOf(PlacedPaths) \cup PlacesOf(ShippedPaths)

StillShipped(d) ==
  d \in PlacesOf(PlacedPaths) \cup (PlacesOf(ShippedPaths) \ PlacesOf(Declared))

Departing ==
  IF Incomplete THEN {}
  ELSE {p \in Paths : /\ Recorded[p] # None
                      /\ p \in Declared \/ p \notin ShippedPaths
                      /\ ~StillShipped(PlaceOf[p])}

\* Mutant: a departing file is judged as one of the kit's is.
RetirementStateAsPlaced(p) == Classify(None, WholeHash(disk[PlaceOf[p]]), Recorded[p])

RetirementState(p) ==
  LET node == disk[PlaceOf[p]] IN
  IF node.kind = "absent" \/ WholeHash(node) = Recorded[p] THEN "retired" ELSE "kept"

RetiredEntry(p) ==
  [path |-> p, state |-> RetirementState(p), content |-> None, region |-> None,
   executable |-> FALSE]

Plan == {PlacedEntry(a) : a \in Placed} \cup {RetiredEntry(p) : p \in Departing}

-----------------------------------------------------------------------------
(* The task plan *)

Offered(group) == {t \in DOMAIN kit.tasks \cap group : Includes(TaskRung[t])}

\* What the kit is known to have put at a task: the record, or its very command.
Known(t) == IF scripts[t] = kit.tasks[t] THEN kit.tasks[t] ELSE taskRecord[t]

HasTasksFromKit(tasks) == \E t \in tasks : Known(t) # None

Withheld ==
  config.missingBins \cup
  IF Includes(BlueprintRung) /\ HasTasksFromKit(DOMAIN kit.tasks \cap Blueprint) THEN {}
  ELSE NeedsBlueprint

TaskEntry(t) ==
  [name |-> t, state |-> Classify(kit.tasks[t], scripts[t], Known(t)), command |-> kit.tasks[t]]

\* Mutant: a task whose command is missing here is not looked at.
GroupPlanHere(group, establish, withheld) ==
  IF ~establish /\ ~HasTasksFromKit(Offered(group)) THEN {}
  ELSE {TaskEntry(t) : t \in Offered(group) \ withheld}

GroupPlan(group, establish, withheld) ==
  IF ~establish /\ ~HasTasksFromKit(Offered(group)) THEN {}
  ELSE {TaskEntry(t) : t \in {t \in Offered(group) : scripts[t] # None \/ t \notin withheld}}

DroppedTasks ==
  { [name |-> t, command |-> None,
     state |-> IF scripts[t] = taskRecord[t] THEN "removed" ELSE "modified"] :
      t \in {t \in Tasks \ DOMAIN kit.tasks : taskRecord[t] # None /\ scripts[t] # None} }

TaskPlan(establish) ==
  GroupPlan(Tasks \ Blueprint, establish, Withheld) \cup DroppedTasks \cup
  IF Includes(BlueprintRung) THEN GroupPlan(Blueprint, FALSE, {}) ELSE {}

TaskWritten == {"added", "removed", "restored", "updated"}

EntryFor(t, entries) == CHOOSE e \in entries : e.name = t

ScriptsAfter(entries) ==
  LET written == {e \in entries : e.state \in TaskWritten} IN
  [t \in Tasks |-> IF \E e \in written : e.name = t THEN EntryFor(t, written).command
                   ELSE scripts[t]]

RecordedTasks(entries) ==
  LET settles == {e \in entries : e.state = "removed" \/ IsRecorded(e.state)} IN
  [t \in Tasks |-> IF \E e \in settles : e.name = t THEN EntryFor(t, settles).command
                   ELSE taskRecord[t]]

-----------------------------------------------------------------------------
(* A run *)

IsRetirement(e) == e.state \in {"retired", "kept"}

\* Mutant: a retired file stays recorded.
NextManifestKeeping(entries) ==
  [p \in Paths |->
     IF \E e \in entries : e.path = p /\ IsRecorded(e.state)
     THEN [content |-> (CHOOSE e \in entries : e.path = p /\ IsRecorded(e.state)).content,
           region |-> None]
     ELSE Recorded[p]]

\* nextManifest, over the records under their present spellings.
NextManifest(entries) ==
  [p \in Paths |->
     IF \E e \in entries : e.path = p /\ IsRetirement(e) THEN None
     ELSE IF \E e \in entries : e.path = p /\ IsRecorded(e.state)
     THEN [content |-> (CHOOSE e \in entries : e.path = p /\ IsRecorded(e.state)).content,
           region |-> None]
     ELSE Recorded[p]]

\* An empty repository, or one `devkit create` has just written the blueprint's
\* tasks into, about to run init.
Init ==
  /\ kit \in Kits /\ config \in Configs
  /\ disk = [d \in Places |-> Absent] /\ runnable = {}
  /\ \/ scripts = [t \in Tasks |-> None] /\ phase = "idle"
     \/ /\ Includes(BlueprintRung) /\ phase = "init"
        /\ scripts = [t \in Tasks |-> IF t \in DOMAIN kit.tasks \cap Blueprint
                                      THEN kit.tasks[t] ELSE None]
  /\ manifest = [p \in Paths |-> None] /\ taskRecord = [t \in Tasks |-> None]
  /\ accepted = [p \in Paths |-> None]
  /\ plan = {} /\ taskPlan = {} /\ todo = {} /\ settled = FALSE
  /\ edited = {} /\ cut = {} /\ changes = 0 /\ crashes = 0

\* devkit init: it writes the configuration before it plans.
RunInit(c) ==
  /\ phase = "idle" /\ (c # config => changes < MaxChanges)
  /\ config' = c
  /\ changes' = IF c = config THEN changes ELSE changes + 1
  /\ phase' = "init" /\ settled' = FALSE
  /\ UNCHANGED <<kit, tree, records, plan, taskPlan, todo, edited, cut, crashes>>

\* devkit sync, or init past its configuration: buildPlan.  Only init may
\* establish the gate tasks.
BuildPlan ==
  /\ phase \in {"idle", "init"}
  /\ plan' = Plan /\ todo' = Plan /\ taskPlan' = TaskPlan(phase = "init")
  /\ phase' = "files" /\ settled' = FALSE
  /\ UNCHANGED <<kit, config, tree, records, history>>

Stop == phase' = "idle" /\ plan' = {} /\ taskPlan' = {} /\ todo' = {}

\* What a run has written so far and not recorded.
Unrecorded ==
  {PlaceOf[e.path] : e \in {e \in plan \ todo : e.state \in Written}}
    \cup {t \in Tasks : scripts[t] \notin {None, taskRecord[t]}}

\* One turn of applySync's loop; placed entries come before retirements.
ApplyEntry(e) ==
  LET d == PlaceOf[e.path] IN
  /\ phase = "files" /\ e \in todo
  /\ IsRetirement(e) => \A f \in todo : IsRetirement(f)
  /\ e.state \notin Written \/ e.state = "retired" \/ disk[d].kind # "other"
  /\ todo' = todo \ {e}
  /\ CASE e.state = "retired" ->
            disk' = [disk EXCEPT ![d] = Absent] /\ runnable' = runnable \ {d}
       [] e.state \in Written \ {"retired"} ->
            disk' = [disk EXCEPT ![d] = FileOf(e.content, e.region)] /\ UNCHANGED runnable
       [] OTHER -> UNCHANGED <<disk, runnable>>
  /\ UNCHANGED <<kit, config, scripts, records, phase, plan, taskPlan, settled, history>>

\* A directory where a file goes: writeFileSync throws, and the run is over.
Throw(e) ==
  /\ phase = "files" /\ e \in todo /\ e.state \in Written \ {"retired"}
  /\ disk[PlaceOf[e.path]].kind = "other"
  /\ Stop /\ cut' = cut \cup Unrecorded
  /\ UNCHANGED <<kit, config, tree, records, settled, edited, changes, crashes>>

\* Mutant: only a hook that was written is made to run.
NeedsExecutableBitWhenWritten(e) == e.executable /\ e.state \in Written

NeedsExecutableBit(e) == e.executable /\ IsRecorded(e.state)

SetModes ==
  /\ phase = "files" /\ todo = {}
  /\ runnable' = runnable \cup {PlaceOf[e.path] : e \in {e \in plan : NeedsExecutableBit(e)}}
  /\ phase' = "tasks"
  /\ UNCHANGED <<kit, config, disk, scripts, records, plan, taskPlan, todo, settled, history>>

ApplyTasks ==
  /\ phase = "tasks"
  /\ scripts' = ScriptsAfter(taskPlan) /\ phase' = "record"
  /\ UNCHANGED <<kit, config, disk, runnable, records, plan, taskPlan, todo, settled, history>>

WriteManifest ==
  /\ phase = "record"
  /\ manifest' = NextManifest(plan) /\ taskRecord' = RecordedTasks(taskPlan)
  /\ Stop /\ settled' = TRUE
  /\ UNCHANGED <<kit, config, tree, accepted, history>>

\* The process is killed.
Crash ==
  /\ phase # "idle" /\ crashes < MaxCrashes
  /\ Stop /\ crashes' = crashes + 1 /\ cut' = cut \cup Unrecorded
  /\ UNCHANGED <<kit, config, tree, records, settled, edited, changes>>

-----------------------------------------------------------------------------
(* The consumer, between runs *)

Change == phase = "idle" /\ changes < MaxChanges /\ changes' = changes + 1

Upgrade(k) ==
  /\ Change /\ k # kit /\ kit' = k /\ settled' = FALSE
  /\ UNCHANGED <<config, tree, records, run, edited, cut, crashes>>

Configure(c) ==
  /\ Change /\ c # config /\ config' = c /\ settled' = FALSE
  /\ UNCHANGED <<kit, tree, records, run, edited, cut, crashes>>

\* Write, restore, delete, or put a directory in the way.
Edit(d, node) ==
  /\ Change /\ node # disk[d] /\ disk' = [disk EXCEPT ![d] = node]
  /\ runnable' = IF node.kind = "file" THEN runnable ELSE runnable \ {d}
  /\ edited' = edited \cup {d} /\ settled' = FALSE
  /\ UNCHANGED <<kit, config, scripts, records, run, cut, crashes>>

ClearBit(d) ==
  /\ Change /\ d \in runnable /\ runnable' = runnable \ {d} /\ settled' = FALSE
  /\ UNCHANGED <<kit, config, disk, scripts, records, run, edited, cut, crashes>>

EditScript(t, command) ==
  /\ Change /\ command # scripts[t] /\ scripts' = [scripts EXCEPT ![t] = command]
  /\ edited' = edited \cup {t} /\ settled' = FALSE
  /\ UNCHANGED <<kit, config, disk, runnable, records, run, cut, crashes>>

\* devkit doctor --accept: only what is reported as modified or in conflict.
Accept(a) ==
  /\ Change /\ a \in Placed /\ StateOf(a) \in Acknowledgeable
  /\ accepted' = [accepted EXCEPT ![Target(a)] = OnDisk(a)]
  /\ UNCHANGED <<kit, config, tree, manifest, taskRecord, run, settled, edited, cut, crashes>>

\* The manifest is deleted, or cannot be parsed.
LoseManifest ==
  /\ Change
  /\ manifest' = [p \in Paths |-> None] /\ taskRecord' = [t \in Tasks |-> None]
  /\ edited' = Places \cup Tasks /\ settled' = FALSE
  /\ UNCHANGED <<kit, config, tree, accepted, run, cut, crashes>>

ConsumerStep ==
  \/ \E k \in Kits : Upgrade(k)
  \/ \E c \in Configs : Configure(c)
  \/ \E d \in Places, node \in ConsumerNodes : Edit(d, node)
  \/ \E d \in Places : ClearBit(d)
  \/ \E t \in Tasks, command \in KitCommands \cup OwnCommands \cup {None} : EditScript(t, command)
  \/ \E a \in Assets : Accept(a)
  \/ LoseManifest

RunStep ==
  \/ \E c \in Configs : RunInit(c)
  \/ BuildPlan
  \/ \E e \in todo : ApplyEntry(e) \/ Throw(e)
  \/ SetModes \/ ApplyTasks \/ WriteManifest \/ Crash

Next == RunStep \/ ConsumerStep

Spec == Init /\ [][Next]_vars

-----------------------------------------------------------------------------
(* Properties *)

States == Written \cup Acknowledgeable \cup {"current", "unmet", "unresolved", "acknowledged"}

\* Every variable has its type; between runs no plan is left over.
TypeOK ==
  /\ kit \in Kits /\ config \in Configs
  /\ disk \in [Places -> Node] /\ runnable \subseteq Places
  /\ scripts \in [Tasks -> KitCommands \cup OwnCommands \cup {None}]
  /\ manifest \in [Paths -> [content : KitContents, region : {None}] \cup {None}]
  /\ taskRecord \in [Tasks -> KitCommands \cup {None}]
  /\ accepted \in [Paths -> Hashes \cup {None}]
  /\ phase \in {"idle", "init", "files", "tasks", "record"}
  /\ plan \subseteq
       [path : Paths, state : States \ {"retired"}, content : KitContents,
        region : Regions \cup {None}, executable : BOOLEAN]
       \cup [path : Paths, state : {"retired", "kept"}, content : {None},
             region : {None}, executable : {FALSE}]
  /\ taskPlan \subseteq
       [name : Tasks, state : Written \cup Acknowledgeable \cup {"current"}, command : KitCommands]
       \cup [name : Tasks, state : {"removed", "modified"}, command : {None}]
  /\ todo \subseteq plan
  /\ phase \in {"idle", "init"} => plan = {} /\ taskPlan = {}
  /\ phase \in {"tasks", "record"} => todo = {}
  /\ settled \in BOOLEAN /\ (settled => phase = "idle")
  /\ edited \subseteq Places \cup Tasks /\ cut \subseteq Places \cup Tasks
  /\ changes \in 0..MaxChanges /\ crashes \in 0..MaxCrashes

\* No step of a run touches what a consumer wrote: a file with a text of
\* their own, a directory in the way, the region they own in a file of the
\* kit, a task they changed.  However the kit, the configuration and the
\* records moved in between, and wherever an earlier run was cut off.
KeepsOwnWork ==
  [][changes' = changes =>
       /\ \A d \in Places :
            /\ disk'[d].region = disk[d].region
            /\ disk[d].kind = "other" \/ (disk[d].kind = "file" /\ disk[d].content.text \in OwnTexts)
                 => disk'[d] = disk[d]
       /\ \A t \in Tasks : scripts[t] \in OwnCommands => scripts'[t] = scripts[t]]_vars

\* The manifest only takes up what is in the tree when it is written: a new
\* hash for a path is of what is there, or moves from another spelling of it.
\* A record of anything else would pass a consumer's edit off as the kit's.
RecordsWhatIsThere ==
  [][\A p \in Paths :
       manifest'[p] \notin {None, manifest[p]} =>
         \/ disk[PlaceOf[p]].kind = "file" /\ disk[PlaceOf[p]].content = manifest'[p].content
         \/ \E q \in Aliases(p) : manifest'[p] = manifest[q]]_vars

\* However the configured paths are spelled from one run to the next, no file
\* is recorded twice: a second record would retire or revive it by itself.
OneRecordPerFile ==
  \A p, q \in Paths :
    manifest[p] # None /\ manifest[q] # None /\ PlaceOf[p] = PlaceOf[q] => p = q

\* After a run that ended, a second one has nothing to do: it writes no file
\* and no task, and leaves the manifest as it is.  Otherwise a repository
\* would drift on the day it was set up.
SecondRunIsQuiet ==
  settled =>
    /\ \A e \in Plan : e.state \notin Written
    /\ NextManifest(Plan) = manifest
    /\ \A e \in TaskPlan(FALSE) : e.state \notin TaskWritten
    /\ RecordedTasks(TaskPlan(FALSE)) = taskRecord

\* A place holds what the installed version puts there, or nothing when all
\* it ever puts there is retired in this profile.
Follows(d) ==
  /\ \A a \in Placed :
       At(a) = d /\ StateOf(a) \notin {"unmet", "unresolved"} => disk[d] = FileOf(Rendered(a), None)
  /\ ~Incomplete /\ (\A a \in Shipped \ Retired : At(a) # d) => disk[d] = Absent

\* A file no consumer touched is the installed version's after every run that
\* ended, whatever versions, rungs and directories it went through: updated,
\* moved, taken over by a higher rung or removed.  Places a run had written
\* when it was cut off are left out: the next run finds a text there that the
\* manifest does not know, takes it for an edit and leaves it alone.
UntouchedFollows == settled => \A d \in Places \ (edited \cup cut) : Follows(d)

\* A task no consumer touched has, after every run that ended, the command the
\* installed version gives it in this profile, or is not there; whether or not
\* its command is installed on this machine.
TasksFollow ==
  settled =>
    \A t \in Tasks \ (edited \cup cut) :
      /\ t \in DOMAIN kit.tasks /\ Includes(TaskRung[t]) => scripts[t] \in {None, kit.tasks[t]}
      /\ t \notin DOMAIN kit.tasks => scripts[t] = None

\* What the next plan would leave alone, be it a file to place, a file to retire
\* or a task, has been changed by the consumer or written by a run that was cut
\* off: no upgrade, rung, spelling or earlier run makes the kit take its own work
\* for an edit (classifyMaterialisation, retirementsFor, planTasks).
LeavesOnlyTheirs ==
  phase \in {"idle", "init"} =>
    /\ \A e \in Plan :
         e.state \in Acknowledgeable \cup {"acknowledged", "kept"} =>
           PlaceOf[e.path] \in edited \cup cut
    /\ \A e \in TaskPlan(phase = "init") :
         e.state \in Acknowledgeable => e.name \in edited \cup cut

\* A hook the kit vouches for can be run after every run that ended, also
\* when its text had not changed and only its bit was lost.
ModesHold ==
  settled => \A a \in Placed :
    a \in Executable /\ StateOf(a) = "current" => At(a) \in runnable
=============================================================================
