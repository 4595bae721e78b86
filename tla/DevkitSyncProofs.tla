-------------------------- MODULE DevkitSyncProofs --------------------------
(***************************************************************************)
(* Theorems of DevkitSync for every kit, configuration and tree: types,    *)
(* one record for each file, what a record is of, and that no step of a    *)
(* run touches a consumer's work.                                          *)
(*                                                                         *)
(* The strengthening says what a plan still owes the tree while it is      *)
(* carried out: an entry to come finds its place as it was planned on, an  *)
(* entry done has left there what will be recorded, and no placed entry    *)
(* shares its place with another.                                          *)
(***************************************************************************)
EXTENDS DevkitSync, TLAPS

KitHashes == [content : KitContents, region : {None}]

\* The place holds nothing, or a text of the kit.
NotOwn(d) == disk[d].kind = "absent" \/ (disk[d].kind = "file" /\ disk[d].content.text \in KitTexts)

PlannedPaths == \A e \in plan : IsRetirement(e) \/ e.path \in PlacedPaths

PlacesApart ==
  \A e, f \in plan : ~IsRetirement(e) /\ PlaceOf[e.path] = PlaceOf[f.path] => e = f

\* What an entry to come will find.
ToCome ==
  \A e \in todo :
    /\ e.state = "retired" => NotOwn(PlaceOf[e.path]) /\ disk[PlaceOf[e.path]].region = None
    /\ e.state \in Written \ {"retired"} =>
         disk[PlaceOf[e.path]].kind = "other" \/
         (NotOwn(PlaceOf[e.path]) /\ disk[PlaceOf[e.path]].region = e.region)
    /\ e.state = "current" =>
         disk[PlaceOf[e.path]].kind = "file" /\ disk[PlaceOf[e.path]].content = e.content

\* What an entry done has left behind.
DoneEntries ==
  \A e \in plan \ todo :
    IsRecorded(e.state) =>
      disk[PlaceOf[e.path]].kind = "file" /\ disk[PlaceOf[e.path]].content = e.content

TasksToCome ==
  phase \in {"files", "tasks"} =>
    \A e \in taskPlan : e.state \in TaskWritten => scripts[e.name] \notin OwnCommands

\* The strengthening: TypeOK /\ OneRecordPerFile /\ PlanSound is inductive.
PlanSound == PlannedPaths /\ PlacesApart /\ ToCome /\ DoneEntries /\ TasksToCome

-----------------------------------------------------------------------------
(* What the operators of the plan return *)

\* What a version ships are assets, with a text of the kit each.
LEMMA ShippedFacts ==
  ASSUME kit \in Kits
  PROVE  /\ Shipped \subseteq Assets
         /\ \A a \in Shipped : kit.ships[a] \in KitTexts
         /\ DOMAIN kit.tasks \subseteq Tasks
         /\ \A t \in DOMAIN kit.tasks : kit.tasks[t] \in KitCommands
<1>1. kit \in Kit
  BY TextAssumption
<1>2. PICK S \in SUBSET Assets : kit.ships \in [S -> KitTexts]
  BY <1>1 DEF Kit
<1>3. PICK U \in SUBSET Tasks : kit.tasks \in [U -> KitCommands]
  BY <1>1 DEF Kit
<1>. QED
  BY <1>2, <1>3 DEF Shipped

\* Targets are paths, and no two placed assets share a file.
LEMMA PlacedFacts ==
  ASSUME kit \in Kits, config \in Configs
  PROVE  /\ Placed \subseteq Shipped /\ Placed \subseteq Assets
         /\ \A a \in Assets : Target(a) \in Paths /\ At(a) \in Places
         /\ \A a, b \in Placed : At(a) = At(b) => a = b
<1>1. config.placement \in Placements
  BY TextAssumption DEF Config
<1>2. Placed \subseteq Shipped /\ Placed \subseteq Assets /\ Placed \subseteq Candidates
  BY ShippedFacts DEF Placed, Candidates
<1>3. \A a \in Assets : Target(a) \in Paths /\ At(a) \in Places
  BY <1>1, DevkitAssumption DEF Target, At
<1>4. ASSUME NEW a \in Placed, NEW b \in Placed, At(a) = At(b)
      PROVE  a = b
  <2>1. GroupOf[a] = GroupOf[b]
    <3>1. GroupOf[b] <= GroupOf[a] /\ GroupOf[a] <= GroupOf[b]
      BY <1>2, <1>4 DEF Placed
    <3>2. GroupOf[a] \in Nat /\ GroupOf[b] \in Nat
      BY <1>2, DevkitAssumption
    <3>. QED
      BY <3>1, <3>2
  <2>. QED
    BY <1>1, <1>2, <1>4, <2>1, DevkitAssumption DEF At, Target
<1>. QED
  BY <1>2, <1>3, <1>4

\* What the kit brings is of the kit.
LEMMA RenderedType ==
  ASSUME kit \in Kits, config \in Configs, NEW a \in Shipped
  PROVE  Rendered(a) \in KitContents
<1>1. config.answer \in Answers \cup {None}
  BY TextAssumption DEF Config
<1>2. kit.ships[a] \in KitTexts
  BY ShippedFacts
<1>. QED
  BY <1>1, <1>2 DEF Rendered, KitContents

\* A hash is never mistaken for its absence.
LEMMA NoneApart ==
  /\ \A h \in KitHashes : h # None /\ h \in Hashes
  /\ \A h \in Hashes : h # None
  /\ \A c \in KitCommands \cup OwnCommands : c # None
<1>1. KitContents \subseteq Contents
  BY DEF KitContents, Contents
<1>2. KitHashes \subseteq Hashes
  BY <1>1 DEF KitHashes, Hashes
<1>. QED
  BY <1>2, TextAssumption

\* Respelling keeps hashes of the kit, at most one for each file, and under
\* the placed spelling where there is one.
LEMMA RecordedFacts ==
  ASSUME kit \in Kits, config \in Configs, OneRecordPerFile,
         manifest \in [Paths -> KitHashes \cup {None}]
  PROVE  /\ Recorded \in [Paths -> KitHashes \cup {None}]
         /\ \A p, q \in Paths :
              Recorded[p] # None /\ Recorded[q] # None /\ PlaceOf[p] = PlaceOf[q] => p = q
         /\ \A p \in PlacedPaths, q \in Paths :
              Recorded[q] # None /\ PlaceOf[p] = PlaceOf[q] => p = q
         /\ \A p \in Paths :
              Recorded[p] \notin {None, manifest[p]} =>
                \E q \in Aliases(p) : Recorded[p] = manifest[q]
<1>1. \A p \in Paths : Aliases(p) \subseteq Paths
  BY DEF Aliases
<1>2. \A p \in Paths : Aliases(p) # {} => (CHOOSE q \in Aliases(p) : TRUE) \in Aliases(p)
  OBVIOUS
<1>3. Recorded \in [Paths -> KitHashes \cup {None}]
  BY <1>1, <1>2 DEF Recorded
<1>4. PlacedPaths \subseteq Paths
  BY PlacedFacts DEF PlacedPaths
<1>5. \A p, q \in PlacedPaths : PlaceOf[p] = PlaceOf[q] => p = q
  BY PlacedFacts DEF PlacedPaths, At
<1>6. \A q \in Paths : q \notin PlacedPaths /\ Recorded[q] # None =>
        Recorded[q] = manifest[q] /\ manifest[q] # None /\ q \notin Aliased
  BY DEF Recorded
<1>7. ASSUME NEW p \in PlacedPaths, NEW q \in Paths, Recorded[q] # None,
             PlaceOf[p] = PlaceOf[q]
      PROVE  p = q
  <2>1. CASE q \in PlacedPaths
    BY <1>5, <1>7, <2>1
  <2>2. CASE q \notin PlacedPaths
    <3>1. SUFFICES ASSUME p # q PROVE FALSE
      OBVIOUS
    <3>2. q \in Aliases(p)
      BY <1>6, <1>7, <2>2, <3>1 DEF Aliases
    <3>. QED
      BY <1>6, <1>7, <2>2, <3>2 DEF Aliased
  <2>. QED
    BY <2>1, <2>2
<1>8. ASSUME NEW p \in Paths, NEW q \in Paths, Recorded[p] # None, Recorded[q] # None,
             PlaceOf[p] = PlaceOf[q]
      PROVE  p = q
  <2>1. CASE p \in PlacedPaths \/ q \in PlacedPaths
    BY <1>7, <1>8, <2>1
  <2>2. CASE p \notin PlacedPaths /\ q \notin PlacedPaths
    BY <1>6, <1>8, <2>2 DEF OneRecordPerFile
  <2>. QED
    BY <2>1, <2>2
<1>9. \A p \in Paths : Recorded[p] \notin {None, manifest[p]} =>
        \E q \in Aliases(p) : Recorded[p] = manifest[q]
  BY <1>2 DEF Recorded
<1>. QED
  BY <1>3, <1>7, <1>8, <1>9

\* A classification is one of the states of manifest.mjs.
LEMMA ClassifyRange ==
  ASSUME NEW incoming, NEW there, NEW recorded
  PROVE  /\ Classify(incoming, there, recorded) \in
              {"added", "current", "conflict", "restored", "modified", "updated"}
         /\ Classify(incoming, there, recorded) \in {"added", "restored"} => there = None
         /\ Classify(incoming, there, recorded) = "updated" => there = recorded
         /\ Classify(incoming, there, recorded) = "current" /\ incoming # None =>
              there = incoming
  BY DEF Classify

PlacedEntries ==
  [path : Paths, state : States \ {"retired"}, content : KitContents,
   region : Regions \cup {None}, executable : BOOLEAN]

RetiredEntries ==
  [path : Paths, state : {"retired", "kept"}, content : {None}, region : {None},
   executable : {FALSE}]

\* Every state a placed asset may be in is one that is not a retirement.
LEMMA StateOfRange ==
  ASSUME NEW a \in Placed
  PROVE  /\ StateOf(a) \in States \ {"retired", "kept"}
         /\ StateOf(a) \in Written \cup {"current"} =>
              StateOf(a) = Classify(Incoming(a), OnDisk(a), Recorded[Target(a)])
<1> DEFINE state == Classify(Incoming(a), OnDisk(a), Recorded[Target(a)])
<1>1. state \in {"added", "current", "conflict", "restored", "modified", "updated"}
  BY ClassifyRange
<1>2. StateOf(a) \in {"unmet", "unresolved", "acknowledged"} \/ StateOf(a) = state
  BY DEF StateOf
<1>. QED
  BY <1>1, <1>2 DEF States, Written, Acknowledgeable

\* A plan has placed entries and retirements, each of its type.
LEMMA PlanTyped ==
  ASSUME kit \in Kits, config \in Configs, disk \in [Places -> Node], OneRecordPerFile,
         manifest \in [Paths -> KitHashes \cup {None}]
  PROVE  /\ \A a \in Placed : PlacedEntry(a) \in PlacedEntries /\ ~IsRetirement(PlacedEntry(a))
         /\ \A p \in Departing : RetiredEntry(p) \in RetiredEntries /\ IsRetirement(RetiredEntry(p))
         /\ Plan \subseteq PlacedEntries \cup RetiredEntries
<1>1. ASSUME NEW a \in Placed
      PROVE  PlacedEntry(a) \in PlacedEntries /\ ~IsRetirement(PlacedEntry(a))
  <2>1. a \in Assets /\ a \in Shipped /\ Target(a) \in Paths /\ At(a) \in Places
    BY <1>1, PlacedFacts
  <2>2. Rendered(a) \in KitContents
    BY <2>1, RenderedType
  <2>3. RegionAt(a) \in Regions \cup {None}
    BY <2>1 DEF RegionAt, Node
  <2>4. StateOf(a) \in States \ {"retired", "kept"}
    BY StateOfRange
  <2>. QED
    BY <2>1, <2>2, <2>3, <2>4 DEF PlacedEntry, PlacedEntries, IsRetirement
<1>2. ASSUME NEW p \in Departing
      PROVE  RetiredEntry(p) \in RetiredEntries /\ IsRetirement(RetiredEntry(p))
  <2>1. p \in Paths
    BY DEF Departing
  <2>2. RetirementState(p) \in {"retired", "kept"}
    BY DEF RetirementState
  <2>. QED
    BY <2>1, <2>2 DEF RetiredEntry, RetiredEntries, IsRetirement
<1>. QED
  BY <1>1, <1>2 DEF Plan

\* In a new plan, a placed entry has its place to itself.
LEMMA PlanApart ==
  ASSUME kit \in Kits, config \in Configs, disk \in [Places -> Node], OneRecordPerFile,
         manifest \in [Paths -> KitHashes \cup {None}]
  PROVE  /\ \A e \in Plan : IsRetirement(e) \/ e.path \in PlacedPaths
         /\ \A e, f \in Plan :
              ~IsRetirement(e) /\ PlaceOf[e.path] = PlaceOf[f.path] => e = f
<1>1. ASSUME NEW e \in Plan, ~IsRetirement(e)
      PROVE  \E a \in Placed : e = PlacedEntry(a)
  BY <1>1, PlanTyped DEF Plan
<1>2. \A a \in Placed : PlacedEntry(a).path = Target(a) /\ Target(a) \in PlacedPaths
  BY DEF PlacedEntry, PlacedPaths
<1>3. ASSUME NEW e \in Plan, NEW f \in Plan, ~IsRetirement(e),
             PlaceOf[e.path] = PlaceOf[f.path]
      PROVE  e = f
  <2>1. PICK a \in Placed : e = PlacedEntry(a)
    BY <1>1, <1>3
  <2>2. PlaceOf[f.path] = At(a)
    BY <1>2, <1>3, <2>1 DEF At
  <2>3. CASE f \in {PlacedEntry(b) : b \in Placed}
    <3>1. PICK b \in Placed : f = PlacedEntry(b)
      BY <2>3
    <3>2. At(b) = At(a)
      BY <1>2, <2>2, <3>1 DEF At
    <3>. QED
      BY <2>1, <3>1, <3>2, PlacedFacts
  <2>4. CASE f \in {RetiredEntry(p) : p \in Departing}
    <3>1. PICK p \in Departing : f = RetiredEntry(p)
      BY <2>4
    <3>2. ~StillShipped(PlaceOf[p]) /\ PlaceOf[p] = At(a)
      BY <2>2, <3>1 DEF Departing, RetiredEntry
    <3>3. At(a) \in PlacesOf(PlacedPaths)
      BY <1>2 DEF PlacesOf, At
    <3>. QED
      BY <3>2, <3>3 DEF StillShipped
  <2>. QED
    BY <2>3, <2>4 DEF Plan
<1>. QED
  BY <1>1, <1>2, <1>3

\* A placed entry of a new plan finds its place as it was judged: no text of
\* a consumer's where it writes, and its own where it vouches for it.
LEMMA PlacedToCome ==
  ASSUME kit \in Kits, config \in Configs, disk \in [Places -> Node], OneRecordPerFile,
         manifest \in [Paths -> KitHashes \cup {None}], NEW a \in Placed
  PROVE  /\ StateOf(a) \in Written =>
              disk[At(a)].kind = "other" \/
              (NotOwn(At(a)) /\ disk[At(a)].region = RegionAt(a))
         /\ StateOf(a) = "current" =>
              disk[At(a)].kind = "file" /\ disk[At(a)].content = Rendered(a)
<1> DEFINE node == disk[At(a)]
<1>1. a \in Assets /\ a \in Shipped /\ Target(a) \in Paths /\ At(a) \in Places
  BY PlacedFacts
<1>2. node \in Node
  BY <1>1
<1>3. node.kind = "file" => OnDisk(a) \in Hashes /\ OnDisk(a) # None
                            /\ OnDisk(a).content = node.content
  <2>1. node.kind = "file" => node.content \in Contents /\ node.region \in Regions \cup {None}
    BY <1>2 DEF Node
  <2>2. node.kind = "file" => OnDisk(a) \in Hashes /\ OnDisk(a).content = node.content
    BY <2>1 DEF OnDisk, WholeHash, Hashes
  <2>. QED
    BY <2>2, NoneApart
<1>4. node.kind # "file" => OnDisk(a) = None /\ node.region = None
  BY <1>2 DEF OnDisk, WholeHash, Node
<1>5. Incoming(a) # None /\ Incoming(a).content = Rendered(a)
  <2>1. Incoming(a) \in KitHashes
    BY <1>1, RenderedType DEF Incoming, KitHashes
  <2>. QED
    BY <2>1, NoneApart DEF Incoming
<1>6. CASE StateOf(a) \in {"added", "restored"}
  <2>1. OnDisk(a) = None
    BY <1>6, StateOfRange, ClassifyRange DEF Written
  <2>2. node.kind \in {"absent", "other"} /\ node.region = None
    BY <1>2, <1>3, <1>4, <2>1 DEF Node
  <2>. QED
    BY <1>6, <2>2 DEF NotOwn, RegionAt
<1>7. CASE StateOf(a) = "updated"
  <2>1. StateOf(a) = Classify(Incoming(a), OnDisk(a), Recorded[Target(a)])
    BY <1>7, StateOfRange DEF Written
  <2>2. OnDisk(a) = Recorded[Target(a)] /\ Recorded[Target(a)] # None
    BY <1>7, <2>1 DEF Classify
  <2>3. Recorded[Target(a)] \in KitHashes
    BY <1>1, <2>2, RecordedFacts
  <2>4. node.kind = "file"
    BY <1>4, <2>2
  <2>5. OnDisk(a).content \in KitContents /\ OnDisk(a).region = None
    BY <2>2, <2>3 DEF KitHashes
  <2>6. node.content.text \in KitTexts
    BY <1>3, <2>4, <2>5 DEF KitContents
  <2>7. node.region = RegionAt(a)
    BY <2>4, <2>5 DEF OnDisk, WholeHash, RegionAt
  <2>. QED
    BY <1>7, <2>4, <2>6, <2>7 DEF NotOwn
<1>8. CASE StateOf(a) = "current"
  <2>1. StateOf(a) = Classify(Incoming(a), OnDisk(a), Recorded[Target(a)])
    BY <1>8, StateOfRange
  <2>2. OnDisk(a) = Incoming(a)
    BY <1>5, <1>8, <2>1, ClassifyRange
  <2>3. node.kind = "file"
    BY <1>4, <1>5, <2>2
  <2>. QED
    BY <1>3, <1>5, <1>8, <2>2, <2>3 DEF Written
<1>9. CASE StateOf(a) \notin {"added", "restored", "updated", "current"}
  BY <1>9, StateOfRange DEF Written
<1>. QED
  BY <1>6, <1>7, <1>8, <1>9

\* A retirement removes nothing but an unedited file of the kit.
LEMMA RetiredToCome ==
  ASSUME kit \in Kits, config \in Configs, disk \in [Places -> Node], OneRecordPerFile,
         manifest \in [Paths -> KitHashes \cup {None}], NEW p \in Departing,
         RetirementState(p) = "retired"
  PROVE  NotOwn(PlaceOf[p]) /\ disk[PlaceOf[p]].region = None
<1> DEFINE node == disk[PlaceOf[p]]
<1>1. p \in Paths /\ Recorded[p] # None /\ PlaceOf[p] \in Places
  BY DevkitAssumption DEF Departing
<1>2. Recorded[p] \in KitHashes
  BY <1>1, RecordedFacts
<1>3. node \in Node
  BY <1>1
<1>4. node.kind = "absent" \/ WholeHash(node) = Recorded[p]
  BY DEF RetirementState
<1>5. CASE node.kind = "absent"
  BY <1>3, <1>5 DEF NotOwn, Node
<1>6. CASE WholeHash(node) = Recorded[p]
  <2>1. node.kind = "file"
    BY <1>1, <1>6 DEF WholeHash
  <2>2. node.content \in KitContents /\ node.region = None
    BY <1>2, <1>6, <2>1 DEF WholeHash, KitHashes
  <2>. QED
    BY <2>1, <2>2 DEF NotOwn, KitContents
<1>. QED
  BY <1>4, <1>5, <1>6

PlannedTasks ==
  [name : Tasks, state : Written \cup Acknowledgeable \cup {"current"}, command : KitCommands]

DroppedEntries == [name : Tasks, state : {"removed", "modified"}, command : {None}]

\* A task plan writes over nothing but what the kit put there.
LEMMA TaskPlanFacts ==
  ASSUME kit \in Kits, NEW establish \in BOOLEAN,
         taskRecord \in [Tasks -> KitCommands \cup {None}]
  PROVE  /\ TaskPlan(establish) \subseteq PlannedTasks \cup DroppedEntries
         /\ \A e \in TaskPlan(establish) :
              e.state \in TaskWritten => scripts[e.name] \notin OwnCommands
<1>1. \A t \in Tasks : taskRecord[t] \in KitCommands \cup {None}
  OBVIOUS
<1>2. ASSUME NEW t \in DOMAIN kit.tasks
      PROVE  /\ TaskEntry(t) \in PlannedTasks
             /\ TaskEntry(t).state \in TaskWritten => scripts[TaskEntry(t).name] \notin OwnCommands
  <2>1. t \in Tasks /\ kit.tasks[t] \in KitCommands
    BY ShippedFacts
  <2> DEFINE state == Classify(kit.tasks[t], scripts[t], Known(t))
  <2>2. state \in {"added", "current", "conflict", "restored", "modified", "updated"}
    BY ClassifyRange
  <2>3. Known(t) \in KitCommands \cup {None}
    BY <1>1, <2>1 DEF Known
  <2>4. state \in {"added", "restored"} => scripts[t] = None
    BY ClassifyRange
  <2>5. state = "updated" => scripts[t] \in KitCommands \cup {None}
    BY <2>3, ClassifyRange
  <2>6. None \notin OwnCommands /\ KitCommands \cap OwnCommands = {}
    BY TextAssumption
  <2>7. TaskEntry(t).name = t /\ TaskEntry(t).state = state
    BY DEF TaskEntry
  <2>8. TaskEntry(t) \in PlannedTasks
    BY <2>1, <2>2 DEF TaskEntry, PlannedTasks, Written, Acknowledgeable
  <2>9. state \in TaskWritten => state \in {"added", "restored", "updated"}
    BY <2>2 DEF TaskWritten
  <2>. QED
    BY <2>4, <2>5, <2>6, <2>7, <2>8, <2>9
<1>3. ASSUME NEW e \in DroppedTasks
      PROVE  /\ e \in DroppedEntries
             /\ e.state \in TaskWritten => scripts[e.name] \notin OwnCommands
  <2>1. PICK t \in {t \in Tasks \ DOMAIN kit.tasks : taskRecord[t] # None /\ scripts[t] # None} :
          e = [name |-> t, command |-> None,
               state |-> IF scripts[t] = taskRecord[t] THEN "removed" ELSE "modified"]
    BY DEF DroppedTasks
  <2>2. e.state = "removed" => scripts[t] \in KitCommands
    BY <1>1, <2>1
  <2>. QED
    BY <2>1, <2>2, TextAssumption DEF DroppedEntries, TaskWritten
<1>4. \A e \in TaskPlan(establish) :
        e \in DroppedTasks \/ \E t \in DOMAIN kit.tasks : e = TaskEntry(t)
  BY DEF TaskPlan, GroupPlan, Offered
<1>. QED
  BY <1>2, <1>3, <1>4

\* The task block after a plan has commands for tasks, and keeps a task of
\* the consumer's.
LEMMA ScriptsAfterFacts ==
  ASSUME scripts \in [Tasks -> KitCommands \cup OwnCommands \cup {None}],
         taskPlan \subseteq PlannedTasks \cup DroppedEntries,
         \A e \in taskPlan : e.state \in TaskWritten => scripts[e.name] \notin OwnCommands
  PROVE  /\ ScriptsAfter(taskPlan) \in [Tasks -> KitCommands \cup OwnCommands \cup {None}]
         /\ \A t \in Tasks :
              scripts[t] \in OwnCommands => ScriptsAfter(taskPlan)[t] = scripts[t]
<1> DEFINE written == {e \in taskPlan : e.state \in TaskWritten}
<1>1. \A t \in Tasks : (\E e \in written : e.name = t) =>
        EntryFor(t, written) \in written /\ EntryFor(t, written).name = t
  BY DEF EntryFor
<1>2. \A e \in taskPlan : e.command \in KitCommands \cup {None}
  BY DEF PlannedTasks, DroppedEntries
<1>3. ASSUME NEW t \in Tasks
      PROVE  /\ ScriptsAfter(taskPlan)[t] \in KitCommands \cup OwnCommands \cup {None}
             /\ scripts[t] \in OwnCommands => ScriptsAfter(taskPlan)[t] = scripts[t]
  BY <1>1, <1>2 DEF ScriptsAfter
<1>. QED
  BY <1>3 DEF ScriptsAfter

\* The recorded commands are the kit's.
LEMMA RecordedTasksFacts ==
  ASSUME taskRecord \in [Tasks -> KitCommands \cup {None}],
         taskPlan \subseteq PlannedTasks \cup DroppedEntries
  PROVE  RecordedTasks(taskPlan) \in [Tasks -> KitCommands \cup {None}]
<1> DEFINE settles == {e \in taskPlan : e.state = "removed" \/ IsRecorded(e.state)}
<1>1. \A t \in Tasks : (\E e \in settles : e.name = t) => EntryFor(t, settles) \in settles
  BY DEF EntryFor
<1>2. \A e \in taskPlan : e.command \in KitCommands \cup {None}
  BY DEF PlannedTasks, DroppedEntries
<1>. QED
  BY <1>1, <1>2 DEF RecordedTasks

\* What a plan leads to be recorded: hashes of the kit, one for each file,
\* and each new one of what an entry brought, or an old one respelled.
LEMMA NextManifestFacts ==
  ASSUME kit \in Kits, config \in Configs, OneRecordPerFile, PlannedPaths,
         manifest \in [Paths -> KitHashes \cup {None}],
         plan \subseteq PlacedEntries \cup RetiredEntries
  PROVE  /\ NextManifest(plan) \in [Paths -> KitHashes \cup {None}]
         /\ \A p, q \in Paths :
              NextManifest(plan)[p] # None /\ NextManifest(plan)[q] # None
                /\ PlaceOf[p] = PlaceOf[q] => p = q
         /\ \A p \in Paths :
              NextManifest(plan)[p] \notin {None, manifest[p]} =>
                \/ \E e \in plan : /\ e.path = p /\ IsRecorded(e.state)
                                   /\ NextManifest(plan)[p].content = e.content
                \/ \E q \in Aliases(p) : NextManifest(plan)[p] = manifest[q]
<1> DEFINE next == NextManifest(plan)
           Brought(p) == {e \in plan : e.path = p /\ IsRecorded(e.state)}
           Chosen(p) == CHOOSE e \in plan : e.path = p /\ IsRecorded(e.state)
<1>1. \A p \in Paths : Brought(p) # {} => Chosen(p) \in Brought(p)
  OBVIOUS
<1>2. \A e \in plan : IsRecorded(e.state) =>
        e.content \in KitContents /\ ~IsRetirement(e) /\ e.path \in PlacedPaths
  BY DEF IsRecorded, IsRetirement, PlacedEntries, RetiredEntries, PlannedPaths
<1>3. ASSUME NEW p \in Paths
      PROVE  \/ next[p] = None
             \/ /\ Brought(p) # {} /\ p \in PlacedPaths
                /\ next[p] = [content |-> Chosen(p).content, region |-> None]
                /\ next[p] \in KitHashes
             \/ next[p] = Recorded[p] /\ Recorded[p] \in KitHashes
  <2>1. Recorded[p] \in KitHashes \cup {None}
    BY RecordedFacts
  <2>2. CASE \E e \in plan : e.path = p /\ IsRetirement(e)
    BY <2>2 DEF NextManifest
  <2>3. CASE /\ ~\E e \in plan : e.path = p /\ IsRetirement(e)
             /\ Brought(p) # {}
    <3>1. next[p] = [content |-> Chosen(p).content, region |-> None]
      BY <2>3 DEF NextManifest
    <3>2. Chosen(p).content \in KitContents /\ p \in PlacedPaths
      BY <1>1, <1>2, <2>3
    <3>. QED
      BY <2>3, <3>1, <3>2 DEF KitHashes
  <2>4. CASE /\ ~\E e \in plan : e.path = p /\ IsRetirement(e)
             /\ Brought(p) = {}
    BY <2>1, <2>4 DEF NextManifest
  <2>. QED
    BY <2>2, <2>3, <2>4
<1>4. next \in [Paths -> KitHashes \cup {None}]
  BY <1>3 DEF NextManifest
<1>5. ASSUME NEW p \in Paths, NEW q \in Paths, next[p] # None, next[q] # None,
             PlaceOf[p] = PlaceOf[q]
      PROVE  p = q
  <2>1. \A r \in Paths : next[r] # None => r \in PlacedPaths \/ Recorded[r] # None
    BY <1>3
  <2>2. \A r, t \in PlacedPaths : PlaceOf[r] = PlaceOf[t] => r = t
    BY PlacedFacts DEF PlacedPaths, At
  <2>. QED
    BY <1>5, <2>1, <2>2, RecordedFacts
<1>6. ASSUME NEW p \in Paths, next[p] \notin {None, manifest[p]}
      PROVE  \/ \E e \in plan : /\ e.path = p /\ IsRecorded(e.state)
                                /\ next[p].content = e.content
             \/ \E q \in Aliases(p) : next[p] = manifest[q]
  <2>1. CASE Brought(p) # {} /\ next[p] = [content |-> Chosen(p).content, region |-> None]
    <3>1. Chosen(p) \in Brought(p)
      BY <1>1, <2>1
    <3>2. next[p].content = Chosen(p).content
      BY <2>1
    <3>. QED
      BY <3>1, <3>2
  <2>2. CASE next[p] = Recorded[p]
    BY <1>6, <2>2, RecordedFacts
  <2>. QED
    BY <1>3, <1>6, <2>1, <2>2
<1>. QED
  BY <1>4, <1>5, <1>6

-----------------------------------------------------------------------------
(* The invariant *)

\* Without a plan nothing is owed.
LEMMA NothingPlanned ==
  ASSUME plan = {}, todo = {}, taskPlan = {}
  PROVE  PlanSound
  BY DEF PlanSound, PlannedPaths, PlacesApart, ToCome, DoneEntries, TasksToCome

\* Nor after a step that leaves none.
LEMMA NothingPlannedNext ==
  ASSUME plan' = {}, todo' = {}, taskPlan' = {}
  PROVE  PlanSound'
  BY DEF PlanSound, PlannedPaths, PlacesApart, ToCome, DoneEntries, TasksToCome

\* The first state has no plan and no records.
LEMMA InitSound == Init => TypeOK /\ OneRecordPerFile /\ PlanSound
<1>. SUFFICES ASSUME Init PROVE TypeOK /\ OneRecordPerFile /\ PlanSound
  OBVIOUS
<1>1. PlanSound
  BY NothingPlanned DEF Init
<1>2. OneRecordPerFile
  BY DEF Init, OneRecordPerFile
<1>3. scripts \in [Tasks -> KitCommands \cup OwnCommands \cup {None}]
  <2>1. \A t \in DOMAIN kit.tasks : kit.tasks[t] \in KitCommands
    BY ShippedFacts DEF Init
  <2>. QED
    BY <2>1 DEF Init
<1>4. disk \in [Places -> Node]
  BY DEF Init, Absent, Node
<1>5. changes \in 0..MaxChanges /\ crashes \in 0..MaxCrashes
  BY TextAssumption DEF Init
<1>6. phase \in {"idle", "init"}
  BY DEF Init
<1>7. /\ kit \in Kits /\ config \in Configs /\ runnable = {}
      /\ manifest = [p \in Paths |-> None] /\ taskRecord = [t \in Tasks |-> None]
      /\ accepted = [p \in Paths |-> None]
      /\ plan = {} /\ taskPlan = {} /\ todo = {} /\ settled = FALSE /\ edited = {} /\ cut = {}
  BY DEF Init
<1>8. TypeOK
  BY <1>3, <1>4, <1>5, <1>6, <1>7 DEF TypeOK
<1>. QED
  BY <1>1, <1>2, <1>8

\* A new plan is one the tree bears out.
LEMMA BuildPlanSound ==
  TypeOK /\ OneRecordPerFile /\ BuildPlan => (TypeOK /\ OneRecordPerFile /\ PlanSound)'
<1>. SUFFICES ASSUME TypeOK, OneRecordPerFile, BuildPlan
              PROVE  (TypeOK /\ OneRecordPerFile /\ PlanSound)'
  OBVIOUS
<1>1. /\ kit \in Kits /\ config \in Configs /\ disk \in [Places -> Node]
      /\ manifest \in [Paths -> KitHashes \cup {None}]
      /\ taskRecord \in [Tasks -> KitCommands \cup {None}]
  BY DEF TypeOK, KitHashes
<1>2. /\ plan' = Plan /\ todo' = Plan /\ taskPlan' = TaskPlan(phase = "init")
      /\ phase' = "files" /\ settled' = FALSE
      /\ UNCHANGED <<kit, config, disk, runnable, scripts, manifest, taskRecord, accepted,
                     edited, cut, changes, crashes>>
  BY DEF BuildPlan, tree, records, history
<1>3. Plan \subseteq PlacedEntries \cup RetiredEntries
  BY <1>1, PlanTyped
<1>4. /\ TaskPlan(phase = "init") \subseteq PlannedTasks \cup DroppedEntries
      /\ \A e \in TaskPlan(phase = "init") :
           e.state \in TaskWritten => scripts[e.name] \notin OwnCommands
  BY <1>1, TaskPlanFacts
<1>5. TypeOK'
  BY <1>2, <1>3, <1>4 DEF TypeOK, PlacedEntries, RetiredEntries, PlannedTasks, DroppedEntries
<1>6. OneRecordPerFile'
  BY <1>2 DEF OneRecordPerFile
<1>7. PlacedPaths' = PlacedPaths
  BY <1>2 DEF PlacedPaths, Target, Placed, Candidates, Shipped, Retired, Includes, At
<1>8. PlannedPaths' /\ PlacesApart' /\ DoneEntries'
  BY <1>1, <1>2, <1>7, PlanApart DEF PlannedPaths, PlacesApart, DoneEntries
<1>9. \A e \in Plan :
        /\ e.state = "retired" => NotOwn(PlaceOf[e.path]) /\ disk[PlaceOf[e.path]].region = None
        /\ e.state \in Written \ {"retired"} =>
             disk[PlaceOf[e.path]].kind = "other" \/
             (NotOwn(PlaceOf[e.path]) /\ disk[PlaceOf[e.path]].region = e.region)
        /\ e.state = "current" =>
             disk[PlaceOf[e.path]].kind = "file" /\ disk[PlaceOf[e.path]].content = e.content
  <2>1. ASSUME NEW e \in Plan, e \in {PlacedEntry(a) : a \in Placed}
        PROVE  /\ e.state # "retired"
               /\ e.state \in Written =>
                    disk[PlaceOf[e.path]].kind = "other" \/
                    (NotOwn(PlaceOf[e.path]) /\ disk[PlaceOf[e.path]].region = e.region)
               /\ e.state = "current" =>
                    disk[PlaceOf[e.path]].kind = "file" /\ disk[PlaceOf[e.path]].content = e.content
    <3>1. PICK a \in Placed : e = PlacedEntry(a)
      BY <2>1
    <3>2. /\ e.state = StateOf(a) /\ PlaceOf[e.path] = At(a)
          /\ e.region = RegionAt(a) /\ e.content = Rendered(a)
      BY <3>1 DEF PlacedEntry, At
    <3>. QED
      BY <1>1, <3>2, PlacedToCome, StateOfRange
  <2>2. ASSUME NEW e \in Plan, e \in {RetiredEntry(p) : p \in Departing}
        PROVE  /\ e.state \in {"retired", "kept"}
               /\ e.state = "retired" =>
                    NotOwn(PlaceOf[e.path]) /\ disk[PlaceOf[e.path]].region = None
    <3>1. PICK p \in Departing : e = RetiredEntry(p)
      BY <2>2
    <3>2. e.state = RetirementState(p) /\ e.path = p
      BY <3>1 DEF RetiredEntry
    <3>. QED
      BY <1>1, <3>2, RetiredToCome DEF RetirementState
  <2>. QED
    BY <2>1, <2>2 DEF Plan, Written
<1>10. ToCome'
  BY <1>2, <1>9 DEF ToCome, NotOwn
<1>11. TasksToCome'
  BY <1>2, <1>4 DEF TasksToCome
<1>. QED
  BY <1>5, <1>6, <1>8, <1>10, <1>11 DEF PlanSound

\* Entries name files of the repository.
LEMMA PlanPlaces ==
  ASSUME TypeOK
  PROVE  \A e \in plan : PlaceOf[e.path] \in Places
  BY DevkitAssumption DEF TypeOK

\* A turn of the loop leaves every other entry's place as it was.
LEMMA ApplyEntrySound ==
  ASSUME TypeOK, OneRecordPerFile, PlanSound, NEW e \in todo, ApplyEntry(e)
  PROVE  /\ (TypeOK /\ OneRecordPerFile /\ PlanSound)'
         /\ \A d \in Places :
              /\ disk'[d].region = disk[d].region
              /\ disk[d].kind = "other" \/ (disk[d].kind = "file" /\ disk[d].content.text \in OwnTexts)
                   => disk'[d] = disk[d]
<1> DEFINE place == PlaceOf[e.path]
<1>1. /\ todo' = todo \ {e} /\ phase = "files"
      /\ UNCHANGED <<kit, config, scripts, manifest, taskRecord, accepted, phase, plan,
                     taskPlan, settled, edited, cut, changes, crashes>>
  BY DEF ApplyEntry, records, history
<1>2. e \in plan /\ e \in PlacedEntries \cup RetiredEntries /\ place \in Places
  <2>1. e \in plan /\ e \in PlacedEntries \cup RetiredEntries
    BY DEF TypeOK, PlacedEntries, RetiredEntries
  <2>. QED
    BY <2>1, DevkitAssumption DEF PlacedEntries, RetiredEntries
<1>3. disk \in [Places -> Node]
  BY DEF TypeOK
<1>4. CASE e.state = "retired"
  <2>1. disk' = [disk EXCEPT ![place] = Absent] /\ runnable' = runnable \ {place}
    BY <1>4 DEF ApplyEntry
  <2>2. NotOwn(place) /\ disk[place].region = None
    BY <1>4 DEF PlanSound, ToCome
  <2>3. Absent \in Node /\ Absent.kind = "absent" /\ Absent.region = None
    BY DEF Absent, Node
  <2>4. TypeOK'
    BY <1>1, <1>3, <2>1, <2>3 DEF TypeOK
  <2>5. \A f \in plan : ~IsRetirement(f) => PlaceOf[f.path] # place
    BY <1>2, <1>4 DEF PlanSound, PlacesApart, IsRetirement
  <2>6. ToCome'
    <3>1. ASSUME NEW f \in todo'
          PROVE  /\ f.state = "retired" =>
                      (NotOwn(PlaceOf[f.path]) /\ disk[PlaceOf[f.path]].region = None)'
                 /\ f.state \in Written \ {"retired"} =>
                      (disk[PlaceOf[f.path]].kind = "other" \/
                       (NotOwn(PlaceOf[f.path]) /\ disk[PlaceOf[f.path]].region = f.region))'
                 /\ f.state = "current" =>
                      (disk[PlaceOf[f.path]].kind = "file"
                         /\ disk[PlaceOf[f.path]].content = f.content)'
      <4>1. f \in todo /\ f \in plan /\ PlaceOf[f.path] \in Places
        <5>1. f \in todo /\ f \in plan
          BY <1>1 DEF TypeOK
        <5>. QED
          BY <5>1, PlanPlaces
      <4>2. CASE PlaceOf[f.path] = place
        <5>1. IsRetirement(f)
          BY <2>5, <4>1, <4>2
        <5>. QED
          BY <1>3, <2>1, <2>3, <4>1, <4>2, <5>1 DEF IsRetirement, NotOwn, Written
      <4>3. CASE PlaceOf[f.path] # place
        <5>1. disk'[PlaceOf[f.path]] = disk[PlaceOf[f.path]]
          BY <1>3, <2>1, <4>1, <4>3
        <5>. QED
          BY <4>1, <5>1 DEF PlanSound, ToCome, NotOwn
      <4>. QED
        BY <4>2, <4>3
    <3>. QED
      BY <3>1 DEF ToCome
  <2>7. DoneEntries'
    <3>1. ~IsRecorded(e.state)
      BY <1>4 DEF IsRecorded
    <3>2. \A f \in plan : IsRecorded(f.state) => ~IsRetirement(f)
      BY DEF IsRecorded, IsRetirement
    <3>3. \A f \in plan : ~IsRetirement(f) => disk'[PlaceOf[f.path]] = disk[PlaceOf[f.path]]
      BY <1>3, <2>1, <2>5, PlanPlaces
    <3>. QED
      BY <1>1, <3>1, <3>2, <3>3 DEF PlanSound, DoneEntries
  <2>8. \A d \in Places :
          /\ disk'[d].region = disk[d].region
          /\ disk[d].kind = "other" \/ (disk[d].kind = "file" /\ disk[d].content.text \in OwnTexts)
               => disk'[d] = disk[d]
    BY <1>3, <2>1, <2>2, <2>3, TextAssumption DEF NotOwn
  <2>9. (OneRecordPerFile /\ PlannedPaths /\ PlacesApart /\ TasksToCome)'
    BY <1>1 DEF PlanSound, OneRecordPerFile, PlannedPaths, PlacesApart, TasksToCome,
         PlacedPaths, Target, Placed, Candidates, Shipped, Retired, Includes, At
  <2>. QED
    BY <2>4, <2>6, <2>7, <2>8, <2>9 DEF PlanSound
<1>5. CASE e.state \in Written \ {"retired"}
  <2>1. /\ disk' = [disk EXCEPT ![place] = FileOf(e.content, e.region)]
        /\ runnable' = runnable /\ disk[place].kind # "other"
    BY <1>5 DEF ApplyEntry
  <2>2. NotOwn(place) /\ disk[place].region = e.region
    BY <1>5, <2>1 DEF PlanSound, ToCome
  <2>3. e \in PlacedEntries /\ ~IsRetirement(e)
    BY <1>2, <1>5 DEF RetiredEntries, Written, IsRetirement
  <2>4. /\ FileOf(e.content, e.region) \in Node /\ FileOf(e.content, e.region).kind = "file"
        /\ FileOf(e.content, e.region).content = e.content
        /\ FileOf(e.content, e.region).region = e.region
    BY <2>3 DEF FileOf, Node, PlacedEntries, KitContents, Contents
  <2>5. TypeOK'
    BY <1>1, <1>3, <2>1, <2>4 DEF TypeOK
  <2>6. \A f \in plan : PlaceOf[f.path] = place => f = e
    BY <1>2, <2>3 DEF PlanSound, PlacesApart
  <2>7. \A f \in plan : f # e => disk'[PlaceOf[f.path]] = disk[PlaceOf[f.path]]
    BY <1>3, <2>1, <2>6, PlanPlaces
  <2>8. \A f \in todo' : f \in todo /\ f \in plan /\ f # e
    BY <1>1 DEF TypeOK
  <2>9. ToCome'
    BY <2>7, <2>8 DEF PlanSound, ToCome, NotOwn
  <2>10. DoneEntries'
    <3>1. disk'[place] = FileOf(e.content, e.region)
      BY <1>2, <1>3, <2>1
    <3>. QED
      BY <1>1, <2>4, <2>7, <3>1 DEF PlanSound, DoneEntries
  <2>11. \A d \in Places :
          /\ disk'[d].region = disk[d].region
          /\ disk[d].kind = "other" \/ (disk[d].kind = "file" /\ disk[d].content.text \in OwnTexts)
               => disk'[d] = disk[d]
    BY <1>3, <2>1, <2>2, <2>4, TextAssumption DEF NotOwn
  <2>12. (OneRecordPerFile /\ PlannedPaths /\ PlacesApart /\ TasksToCome)'
    BY <1>1 DEF PlanSound, OneRecordPerFile, PlannedPaths, PlacesApart, TasksToCome,
         PlacedPaths, Target, Placed, Candidates, Shipped, Retired, Includes, At
  <2>. QED
    BY <2>5, <2>9, <2>10, <2>11, <2>12 DEF PlanSound
<1>6. CASE e.state \notin Written
  <2>1. UNCHANGED <<disk, runnable>>
    BY <1>6 DEF ApplyEntry, Written
  <2>2. TypeOK'
    BY <1>1, <2>1 DEF TypeOK
  <2>3. ToCome'
    BY <1>1, <2>1 DEF PlanSound, ToCome, NotOwn
  <2>4. DoneEntries'
    <3>1. IsRecorded(e.state) => e.state = "current"
      BY <1>6 DEF IsRecorded, Written
    <3>. QED
      BY <1>1, <2>1, <3>1 DEF PlanSound, DoneEntries, ToCome
  <2>5. (OneRecordPerFile /\ PlannedPaths /\ PlacesApart /\ TasksToCome)'
    BY <1>1 DEF PlanSound, OneRecordPerFile, PlannedPaths, PlacesApart, TasksToCome,
         PlacedPaths, Target, Placed, Candidates, Shipped, Retired, Includes, At
  <2>. QED
    BY <2>1, <2>2, <2>3, <2>4, <2>5 DEF PlanSound
<1>. QED
  BY <1>4, <1>5, <1>6

\* While the files and the records stay, so does what a plan owes.
LEMMA PlanStays ==
  ASSUME OneRecordPerFile, PlanSound,
         UNCHANGED <<kit, config, disk, manifest, plan, taskPlan, todo>>,
         TasksToCome'
  PROVE  (OneRecordPerFile /\ PlanSound)'
  BY DEF PlanSound, OneRecordPerFile, PlannedPaths, PlacesApart, ToCome, DoneEntries, NotOwn,
     PlacedPaths, Target, Placed, Candidates, Shipped, Retired, Includes, At

\* The mode bits are no part of what a plan owes.
LEMMA SetModesSound ==
  ASSUME TypeOK, OneRecordPerFile, PlanSound, SetModes
  PROVE  (TypeOK /\ OneRecordPerFile /\ PlanSound)'
<1>1. {PlaceOf[e.path] : e \in {e \in plan : NeedsExecutableBit(e)}} \subseteq Places
  BY PlanPlaces
<1>2. TypeOK'
  BY <1>1 DEF SetModes, TypeOK, records, history
<1>3. TasksToCome'
  BY DEF SetModes, PlanSound, TasksToCome
<1>. QED
  BY <1>2, <1>3, PlanStays DEF SetModes, records

\* The task block takes the plan's commands where the kit's were.
LEMMA ApplyTasksSound ==
  ASSUME TypeOK, OneRecordPerFile, PlanSound, ApplyTasks
  PROVE  /\ (TypeOK /\ OneRecordPerFile /\ PlanSound)'
         /\ \A t \in Tasks : scripts[t] \in OwnCommands => scripts'[t] = scripts[t]
<1>1. /\ scripts \in [Tasks -> KitCommands \cup OwnCommands \cup {None}]
      /\ taskPlan \subseteq PlannedTasks \cup DroppedEntries
  BY DEF TypeOK, PlannedTasks, DroppedEntries
<1>2. \A e \in taskPlan : e.state \in TaskWritten => scripts[e.name] \notin OwnCommands
  BY DEF ApplyTasks, PlanSound, TasksToCome
<1>3. /\ scripts' \in [Tasks -> KitCommands \cup OwnCommands \cup {None}]
      /\ \A t \in Tasks : scripts[t] \in OwnCommands => scripts'[t] = scripts[t]
  BY <1>1, <1>2, ScriptsAfterFacts DEF ApplyTasks
<1>4. TypeOK'
  BY <1>3 DEF ApplyTasks, TypeOK, records, history
<1>5. TasksToCome'
  BY DEF ApplyTasks, TasksToCome
<1>. QED
  BY <1>3, <1>4, <1>5, PlanStays DEF ApplyTasks, records

\* The records written are the kit's, one for each file.
LEMMA WriteManifestSound ==
  ASSUME TypeOK, OneRecordPerFile, PlanSound, WriteManifest
  PROVE  /\ (TypeOK /\ OneRecordPerFile /\ PlanSound)'
         /\ \A p \in Paths :
              manifest'[p] \notin {None, manifest[p]} =>
                \/ /\ disk[PlaceOf[p]].kind = "file"
                   /\ disk[PlaceOf[p]].content = manifest'[p].content
                \/ \E q \in Aliases(p) : manifest'[p] = manifest[q]
<1>1. /\ kit \in Kits /\ config \in Configs
      /\ manifest \in [Paths -> KitHashes \cup {None}]
      /\ taskRecord \in [Tasks -> KitCommands \cup {None}]
      /\ plan \subseteq PlacedEntries \cup RetiredEntries
      /\ taskPlan \subseteq PlannedTasks \cup DroppedEntries
  BY DEF TypeOK, KitHashes, PlacedEntries, RetiredEntries, PlannedTasks, DroppedEntries
<1>2. todo = {} /\ phase = "record" /\ manifest' = NextManifest(plan)
      /\ taskRecord' = RecordedTasks(taskPlan)
  BY DEF WriteManifest, TypeOK
<1>3. /\ manifest' \in [Paths -> KitHashes \cup {None}]
      /\ OneRecordPerFile'
      /\ \A p \in Paths :
           manifest'[p] \notin {None, manifest[p]} =>
             \/ \E e \in plan : /\ e.path = p /\ IsRecorded(e.state)
                                /\ manifest'[p].content = e.content
             \/ \E q \in Aliases(p) : manifest'[p] = manifest[q]
  BY <1>1, <1>2, NextManifestFacts DEF PlanSound, OneRecordPerFile
<1>4. taskRecord' \in [Tasks -> KitCommands \cup {None}]
  BY <1>1, <1>2, RecordedTasksFacts
<1>5. TypeOK'
  BY <1>3, <1>4 DEF WriteManifest, Stop, TypeOK, KitHashes, tree, history
<1>6. PlanSound'
  BY NothingPlannedNext DEF WriteManifest, Stop
<1>7. ASSUME NEW p \in Paths, manifest'[p] \notin {None, manifest[p]}
      PROVE  \/ /\ disk[PlaceOf[p]].kind = "file"
                /\ disk[PlaceOf[p]].content = manifest'[p].content
             \/ \E q \in Aliases(p) : manifest'[p] = manifest[q]
  <2>1. \A e \in plan : IsRecorded(e.state) =>
          disk[PlaceOf[e.path]].kind = "file" /\ disk[PlaceOf[e.path]].content = e.content
    BY <1>2 DEF PlanSound, DoneEntries
  <2>. QED
    BY <1>3, <1>7, <2>1
<1>. QED
  BY <1>3, <1>5, <1>6, <1>7

\* A run that is cut off leaves the tree and the records as they are.
LEMMA StopSound ==
  ASSUME TypeOK, OneRecordPerFile, (\E e \in todo : Throw(e)) \/ Crash
  PROVE  (TypeOK /\ OneRecordPerFile /\ PlanSound)'
<1>1. Unrecorded \subseteq Places \cup Tasks
  BY PlanPlaces DEF Unrecorded
<1>2. /\ phase' = "idle" /\ plan' = {} /\ taskPlan' = {} /\ todo' = {}
      /\ cut' = cut \cup Unrecorded
      /\ UNCHANGED <<kit, config, disk, runnable, scripts, manifest, taskRecord, accepted,
                     settled, edited, changes>>
      /\ crashes' = crashes \/ (crashes < MaxCrashes /\ crashes' = crashes + 1)
  BY DEF Throw, Crash, Stop, tree, records
<1>3. crashes' \in 0..MaxCrashes
  BY <1>2, TextAssumption DEF TypeOK
<1>4. TypeOK'
  BY <1>1, <1>2, <1>3 DEF TypeOK
<1>5. OneRecordPerFile'
  BY <1>2 DEF OneRecordPerFile
<1>. QED
  BY <1>2, <1>4, <1>5, NothingPlannedNext

\* Between runs nothing is planned, and only a lost manifest changes it.
LEMMA ConsumerSound ==
  ASSUME TypeOK, OneRecordPerFile, ConsumerStep \/ \E c \in Configs : RunInit(c)
  PROVE  (TypeOK /\ OneRecordPerFile /\ PlanSound)'
<1>1. MaxChanges \in Nat /\ changes \in 0..MaxChanges /\ ConsumerNodes \subseteq Node
  BY TextAssumption DEF TypeOK
<1>2. ASSUME Change PROVE changes' \in 0..MaxChanges /\ phase = "idle"
  BY <1>1, <1>2 DEF Change
<1>3. CASE \E k \in Kits : Upgrade(k)
  <2>1. TypeOK' /\ OneRecordPerFile'
    BY <1>2, <1>3 DEF Upgrade, TypeOK, OneRecordPerFile, tree, records, run
  <2>. QED
    BY <1>2, <1>3, <2>1, NothingPlannedNext DEF Upgrade, run, TypeOK
<1>4. CASE \E c \in Configs : Configure(c)
  <2>1. TypeOK' /\ OneRecordPerFile'
    BY <1>2, <1>4 DEF Configure, TypeOK, OneRecordPerFile, tree, records, run
  <2>. QED
    BY <1>2, <1>4, <2>1, NothingPlannedNext DEF Configure, run, TypeOK
<1>5. CASE \E d \in Places, node \in ConsumerNodes : Edit(d, node)
  <2>1. PICK d \in Places, node \in ConsumerNodes : Edit(d, node)
    BY <1>5
  <2>2. disk' \in [Places -> Node]
    BY <1>1, <2>1 DEF Edit, TypeOK
  <2>3. TypeOK' /\ OneRecordPerFile'
    BY <1>2, <2>1, <2>2 DEF Edit, TypeOK, OneRecordPerFile, records, run
  <2>. QED
    BY <1>2, <2>1, <2>3, NothingPlannedNext DEF Edit, run, TypeOK
<1>6. CASE \E d \in Places : ClearBit(d)
  <2>1. TypeOK' /\ OneRecordPerFile'
    BY <1>2, <1>6 DEF ClearBit, TypeOK, OneRecordPerFile, records, run
  <2>. QED
    BY <1>2, <1>6, <2>1, NothingPlannedNext DEF ClearBit, run, TypeOK
<1>7. CASE \E t \in Tasks, command \in KitCommands \cup OwnCommands \cup {None} :
             EditScript(t, command)
  <2>1. TypeOK' /\ OneRecordPerFile'
    BY <1>2, <1>7 DEF EditScript, TypeOK, OneRecordPerFile, records, run
  <2>. QED
    BY <1>2, <1>7, <2>1, NothingPlannedNext DEF EditScript, run, TypeOK
<1>8. CASE \E a \in Assets : Accept(a)
  <2>1. PICK a \in Assets : Accept(a)
    BY <1>8
  <2>2. OnDisk(a) \in Hashes \cup {None}
    <3>1. disk[At(a)] \in Node
      BY PlacedFacts DEF TypeOK
    <3>. QED
      BY <3>1 DEF OnDisk, WholeHash, Hashes, Node
  <2>3. accepted' \in [Paths -> Hashes \cup {None}]
    BY <2>1, <2>2 DEF Accept, TypeOK
  <2>4. TypeOK' /\ OneRecordPerFile'
    BY <1>2, <2>1, <2>3 DEF Accept, TypeOK, OneRecordPerFile, tree, run
  <2>. QED
    BY <1>2, <2>1, <2>4, NothingPlannedNext DEF Accept, run, TypeOK
<1>9. CASE LoseManifest
  <2>1. TypeOK' /\ OneRecordPerFile'
    BY <1>2, <1>9 DEF LoseManifest, TypeOK, OneRecordPerFile, tree, run
  <2>. QED
    BY <1>2, <1>9, <2>1, NothingPlannedNext DEF LoseManifest, run, TypeOK
<1>10. CASE \E c \in Configs : RunInit(c)
  <2>1. PICK c \in Configs : RunInit(c)
    BY <1>10
  <2>2. changes' \in 0..MaxChanges
    BY <1>1, <2>1 DEF RunInit
  <2>3. TypeOK' /\ OneRecordPerFile'
    BY <2>1, <2>2 DEF RunInit, TypeOK, OneRecordPerFile, tree, records
  <2>. QED
    BY <2>1, <2>3, NothingPlannedNext DEF RunInit, TypeOK
<1>. QED
  BY <1>3, <1>4, <1>5, <1>6, <1>7, <1>8, <1>9, <1>10 DEF ConsumerStep

\* Every step keeps the invariant.
LEMMA NextSound ==
  TypeOK /\ OneRecordPerFile /\ PlanSound /\ [Next]_vars
    => (TypeOK /\ OneRecordPerFile /\ PlanSound)'
<1>. SUFFICES ASSUME TypeOK, OneRecordPerFile, PlanSound, [Next]_vars
              PROVE  (TypeOK /\ OneRecordPerFile /\ PlanSound)'
  OBVIOUS
<1>1. CASE UNCHANGED vars
  <2>1. TypeOK' /\ TasksToCome'
    BY <1>1 DEF vars, tree, records, run, history, TypeOK, PlanSound, TasksToCome
  <2>. QED
    BY <1>1, <2>1, PlanStays DEF vars, tree, records, run
<1>2. CASE ConsumerStep \/ \E c \in Configs : RunInit(c)
  BY <1>2, ConsumerSound
<1>3. CASE BuildPlan
  BY <1>3, BuildPlanSound
<1>4. CASE \E e \in todo : ApplyEntry(e)
  BY <1>4, ApplyEntrySound
<1>5. CASE (\E e \in todo : Throw(e)) \/ Crash
  BY <1>5, StopSound
<1>6. CASE SetModes
  BY <1>6, SetModesSound
<1>7. CASE ApplyTasks
  BY <1>7, ApplyTasksSound
<1>8. CASE WriteManifest
  BY <1>8, WriteManifestSound
<1>. QED
  BY <1>1, <1>2, <1>3, <1>4, <1>5, <1>6, <1>7, <1>8 DEF Next, RunStep

\* The invariant holds in every behaviour.
LEMMA Sound == Spec => [](TypeOK /\ OneRecordPerFile /\ PlanSound)
  BY InitSound, NextSound, PTL DEF Spec

-----------------------------------------------------------------------------
(* What follows *)

\* Every variable keeps its type.
THEOREM Typing == Spec => []TypeOK
  BY Sound, PTL

\* However paths are respelled, no file is recorded twice.
THEOREM RecordsApart == Spec => []OneRecordPerFile
  BY Sound, PTL

\* No step of a run touches a text, a region, a directory or a task of the
\* consumer's.
THEOREM OwnWorkKept == Spec => KeepsOwnWork
<1> DEFINE Kept ==
      /\ \A d \in Places :
           /\ disk'[d].region = disk[d].region
           /\ disk[d].kind = "other" \/ (disk[d].kind = "file" /\ disk[d].content.text \in OwnTexts)
                => disk'[d] = disk[d]
      /\ \A t \in Tasks : scripts[t] \in OwnCommands => scripts'[t] = scripts[t]
<1>1. TypeOK /\ OneRecordPerFile /\ PlanSound /\ [Next]_vars
        => [changes' = changes => Kept]_vars
  <2>. SUFFICES ASSUME TypeOK, OneRecordPerFile, PlanSound, Next, changes' = changes
                PROVE  Kept
    BY DEF vars
  <2>1. changes # changes + 1
    BY DEF TypeOK
  <2>2. CASE ConsumerStep
    BY <2>1, <2>2 DEF ConsumerStep, Upgrade, Configure, Edit, ClearBit, EditScript, Accept,
         LoseManifest, Change
  <2>3. CASE \E e \in todo : ApplyEntry(e)
    <3>1. PICK e \in todo : ApplyEntry(e)
      BY <2>3
    <3>2. scripts' = scripts
      BY <3>1 DEF ApplyEntry
    <3>. QED
      BY <3>1, <3>2, ApplyEntrySound
  <2>4. CASE ApplyTasks
    <3>1. disk' = disk
      BY <2>4 DEF ApplyTasks
    <3>. QED
      BY <2>4, <3>1, ApplyTasksSound
  <2>5. CASE (\E c \in Configs : RunInit(c)) \/ BuildPlan \/ (\E e \in todo : Throw(e))
              \/ SetModes \/ WriteManifest \/ Crash
    <3>1. disk' = disk /\ scripts' = scripts
      BY <2>5 DEF RunInit, BuildPlan, Throw, SetModes, WriteManifest, Crash, tree
    <3>. QED
      BY <3>1
  <2>. QED
    BY <2>2, <2>3, <2>4, <2>5 DEF Next, RunStep
<1>. QED
  BY <1>1, Sound, PTL DEF Spec, KeepsOwnWork

\* The manifest only takes up what is in the tree when it is written.
THEOREM RecordsTrue == Spec => RecordsWhatIsThere
<1> DEFINE True ==
      \A p \in Paths :
        manifest'[p] \notin {None, manifest[p]} =>
          \/ disk[PlaceOf[p]].kind = "file" /\ disk[PlaceOf[p]].content = manifest'[p].content
          \/ \E q \in Aliases(p) : manifest'[p] = manifest[q]
<1>1. TypeOK /\ OneRecordPerFile /\ PlanSound /\ [Next]_vars => [True]_vars
  <2>. SUFFICES ASSUME TypeOK, OneRecordPerFile, PlanSound, Next
                PROVE  True
    BY DEF vars
  <2>1. CASE WriteManifest
    BY <2>1, WriteManifestSound
  <2>2. CASE LoseManifest
    <3>1. \A p \in Paths : manifest'[p] = None
      BY <2>2 DEF LoseManifest
    <3>. QED
      BY <3>1
  <2>3. CASE RunStep /\ ~WriteManifest
    <3>1. manifest' = manifest
      BY <2>3 DEF RunStep, RunInit, BuildPlan, ApplyEntry, Throw, SetModes, ApplyTasks,
           Crash, records
    <3>. QED
      BY <3>1
  <2>4. CASE ConsumerStep /\ ~LoseManifest
    <3>1. manifest' = manifest
      BY <2>4 DEF ConsumerStep, Upgrade, Configure, Edit, ClearBit, EditScript, Accept, records
    <3>. QED
      BY <3>1
  <2>. QED
    BY <2>1, <2>2, <2>3, <2>4 DEF Next
<1>. QED
  BY <1>1, Sound, PTL DEF Spec, RecordsWhatIsThere
=============================================================================
