------------------------- MODULE DevkitSettledProofs -------------------------
(***************************************************************************)
(* Theorems of DevkitSync about a run that ended, for every kit,           *)
(* configuration and tree: what no consumer touched follows the installed  *)
(* version, hooks can be run, and a second run would do nothing.           *)
(*                                                                         *)
(* The strengthening describes a run in terms of where its plan leads, so  *)
(* that nothing has to be said of the tree the plan was made on.           *)
(***************************************************************************)
EXTENDS DevkitSyncProofs

-----------------------------------------------------------------------------
(* Tasks: what a plan leads to *)

\* A command that is the recorded one or none, and the version's if it has one
\* in this profile.
TaskFollows(t, command, recorded) ==
  /\ command \in {None, recorded}
  /\ t \in DOMAIN kit.tasks /\ Includes(TaskRung[t]) => command \in {None, kit.tasks[t]}
  /\ t \notin DOMAIN kit.tasks => command = None

\* A task `devkit create` has written, and no manifest knows yet.
Begun(t) ==
  /\ t \in DOMAIN kit.tasks \cap Blueprint /\ Includes(BlueprintRung)
  /\ scripts[t] = kit.tasks[t]

TaskSound(t) ==
  /\ phase = "idle" => scripts[t] \in {None, taskRecord[t]}
  /\ phase = "init" => scripts[t] \in {None, taskRecord[t]} \/ Begun(t)
  /\ phase \in {"files", "tasks"} =>
       TaskFollows(t, ScriptsAfter(taskPlan)[t], RecordedTasks(taskPlan)[t])
  /\ phase = "record" => TaskFollows(t, scripts[t], RecordedTasks(taskPlan)[t])
  /\ settled => TaskFollows(t, scripts[t], taskRecord[t])

TasksSound == \A t \in Tasks \ (edited \cup cut) : TaskSound(t)

DropEntry(t) ==
  [name |-> t, command |-> None,
   state |-> IF scripts[t] = taskRecord[t] THEN "removed" ELSE "modified"]

\* A plan has one entry for a task at most: the version's, or that the
\* version no longer has it.
LEMMA TaskPlanEntries ==
  ASSUME kit \in Kits, NEW establish \in BOOLEAN, NEW e \in TaskPlan(establish)
  PROVE  /\ e.name \in Tasks
         /\ e.name \in DOMAIN kit.tasks => e = TaskEntry(e.name) /\ Includes(TaskRung[e.name])
         /\ e.name \notin DOMAIN kit.tasks =>
              /\ e = DropEntry(e.name)
              /\ taskRecord[e.name] # None /\ scripts[e.name] # None
<1>1. CASE e \in DroppedTasks
  BY <1>1 DEF DroppedTasks, DropEntry
<1>2. CASE \E t \in DOMAIN kit.tasks : e = TaskEntry(t) /\ Includes(TaskRung[t])
  <2>1. PICK t \in DOMAIN kit.tasks : e = TaskEntry(t) /\ Includes(TaskRung[t])
    BY <1>2
  <2>2. e.name = t
    BY <2>1 DEF TaskEntry
  <2>. QED
    BY <2>1, <2>2, ShippedFacts
<1>. QED
  BY <1>1, <1>2 DEF TaskPlan, GroupPlan, Offered

\* Where the entries have a task once, that entry decides.
LEMMA TaskOutcome ==
  ASSUME NEW entries, NEW t \in Tasks,
         \A e, f \in entries : e.name = t /\ f.name = t => e = f
  PROVE  /\ \A e \in entries : e.name = t =>
              /\ ScriptsAfter(entries)[t] =
                   IF e.state \in TaskWritten THEN e.command ELSE scripts[t]
              /\ RecordedTasks(entries)[t] =
                   IF e.state = "removed" \/ IsRecorded(e.state) THEN e.command ELSE taskRecord[t]
         /\ (\A e \in entries : e.name # t) =>
              ScriptsAfter(entries)[t] = scripts[t] /\ RecordedTasks(entries)[t] = taskRecord[t]
<1> DEFINE written == {e \in entries : e.state \in TaskWritten}
           settles == {e \in entries : e.state = "removed" \/ IsRecorded(e.state)}
<1>1. ScriptsAfter(entries)[t] =
        IF \E e \in written : e.name = t THEN EntryFor(t, written).command ELSE scripts[t]
  BY DEF ScriptsAfter
<1>2. RecordedTasks(entries)[t] =
        IF \E e \in settles : e.name = t THEN EntryFor(t, settles).command ELSE taskRecord[t]
  BY DEF RecordedTasks
<1>3. ASSUME NEW some \in SUBSET entries, \E e \in some : e.name = t
      PROVE  EntryFor(t, some) \in some /\ EntryFor(t, some).name = t
  BY <1>3 DEF EntryFor
<1>4. ASSUME NEW e \in entries, e.name = t
      PROVE  /\ ScriptsAfter(entries)[t] =
                  IF e.state \in TaskWritten THEN e.command ELSE scripts[t]
             /\ RecordedTasks(entries)[t] =
                  IF e.state = "removed" \/ IsRecorded(e.state) THEN e.command ELSE taskRecord[t]
  <2>1. (\E f \in written : f.name = t) => e \in written /\ EntryFor(t, written) = e
    BY <1>3, <1>4
  <2>2. (\E f \in settles : f.name = t) => e \in settles /\ EntryFor(t, settles) = e
    BY <1>3, <1>4
  <2>3. e.state \in TaskWritten <=> \E f \in written : f.name = t
    BY <1>4, <2>1
  <2>4. (e.state = "removed" \/ IsRecorded(e.state)) <=> \E f \in settles : f.name = t
    BY <1>4, <2>2
  <2>. QED
    BY <1>1, <1>2, <2>1, <2>2, <2>3, <2>4
<1>5. ASSUME \A e \in entries : e.name # t
      PROVE  ScriptsAfter(entries)[t] = scripts[t] /\ RecordedTasks(entries)[t] = taskRecord[t]
  BY <1>1, <1>2, <1>5
<1>. QED
  BY <1>4, <1>5

\* After a run a task with an entry has the version's command, recorded, or a
\* command of the consumer's that is neither the version's nor the record's;
\* a task the version dropped is gone, or the consumer's.
EntryLeads(t, command, recorded) ==
  /\ t \in DOMAIN kit.tasks =>
       \/ command = kit.tasks[t] /\ recorded = kit.tasks[t]
       \/ /\ command = scripts[t] /\ recorded = taskRecord[t]
          /\ command \notin {None, kit.tasks[t], recorded}
  /\ t \notin DOMAIN kit.tasks =>
       \/ command = None /\ recorded = None
       \/ command = scripts[t] /\ recorded = taskRecord[t] /\ command # recorded

\* So an entry of a new plan leads.
LEMMA EntryOutcome ==
  ASSUME kit \in Kits, NEW establish \in BOOLEAN, NEW e \in TaskPlan(establish), NEW t,
         e.name = t,
         taskRecord \in [Tasks -> KitCommands \cup {None}]
  PROVE  EntryLeads(t, ScriptsAfter(TaskPlan(establish))[t],
                    RecordedTasks(TaskPlan(establish))[t])
<1> DEFINE entries == TaskPlan(establish)
           s == ScriptsAfter(entries)[t]
           r == RecordedTasks(entries)[t]
<1>1. t \in Tasks /\ \A f, g \in entries : f.name = t /\ g.name = t => f = g
  BY TaskPlanEntries
<1>2. /\ s = IF e.state \in TaskWritten THEN e.command ELSE scripts[t]
      /\ r = IF e.state = "removed" \/ IsRecorded(e.state) THEN e.command ELSE taskRecord[t]
  BY <1>1, TaskOutcome
<1>3. CASE t \in DOMAIN kit.tasks
  <2> DEFINE state == Classify(kit.tasks[t], scripts[t], Known(t))
  <2>1. e.state = state /\ e.command = kit.tasks[t]
    BY <1>3, TaskPlanEntries DEF TaskEntry
  <2>2. kit.tasks[t] # None
    BY <1>3, ShippedFacts, NoneApart
  <2>3. CASE state \in {"added", "restored", "updated"}
    BY <1>2, <1>3, <2>1, <2>3 DEF TaskWritten, IsRecorded, EntryLeads
  <2>4. CASE state = "current"
    <3>1. scripts[t] = kit.tasks[t]
      BY <2>2, <2>4, ClassifyRange
    <3>. QED
      BY <1>2, <1>3, <2>1, <2>4, <3>1 DEF TaskWritten, IsRecorded, EntryLeads
  <2>5. CASE state \in {"modified", "conflict"}
    <3>1. s = scripts[t] /\ r = taskRecord[t]
      BY <1>2, <2>1, <2>5 DEF TaskWritten, IsRecorded
    <3>2. scripts[t] # None /\ scripts[t] # Known(t)
      BY <2>5 DEF Classify
    <3>. QED
      BY <1>3, <3>1, <3>2 DEF Known, EntryLeads
  <2>6. state \in {"added", "current", "conflict", "restored", "modified", "updated"}
    BY ClassifyRange
  <2>. QED
    BY <2>3, <2>4, <2>5, <2>6
<1>4. CASE t \notin DOMAIN kit.tasks
  <2>1. e = DropEntry(t)
    BY <1>4, TaskPlanEntries
  <2>. QED
    BY <1>2, <1>4, <2>1 DEF DropEntry, TaskWritten, IsRecorded, EntryLeads
<1>. QED
  BY <1>3, <1>4

\* Where a task has no entry, the run has nothing to say of it.
LEMMA TaskWithoutEntry ==
  ASSUME kit \in Kits, NEW establish \in BOOLEAN, NEW t \in Tasks,
         \A e \in TaskPlan(establish) : e.name # t
  PROVE  /\ ScriptsAfter(TaskPlan(establish))[t] = scripts[t]
         /\ RecordedTasks(TaskPlan(establish))[t] = taskRecord[t]
         /\ t \notin DOMAIN kit.tasks => taskRecord[t] = None \/ scripts[t] = None
         /\ t \in DOMAIN kit.tasks /\ Includes(TaskRung[t]) /\ scripts[t] # None
              => Known(t) = None
<1>1. /\ ScriptsAfter(TaskPlan(establish))[t] = scripts[t]
      /\ RecordedTasks(TaskPlan(establish))[t] = taskRecord[t]
  BY TaskOutcome
<1>2. ASSUME t \notin DOMAIN kit.tasks, taskRecord[t] # None, scripts[t] # None
      PROVE  FALSE
  <2>1. DropEntry(t) \in DroppedTasks /\ DropEntry(t).name = t
    BY <1>2 DEF DroppedTasks, DropEntry
  <2>. QED
    BY <2>1 DEF TaskPlan
<1>3. ASSUME t \in DOMAIN kit.tasks, Includes(TaskRung[t]), scripts[t] # None, Known(t) # None
      PROVE  FALSE
  <2>1. TaskEntry(t).name = t
    BY DEF TaskEntry
  <2>2. CASE t \in Blueprint
    <3>1. Includes(BlueprintRung)
      BY <1>3, <2>2, TaskAssumption
    <3>2. t \in Offered(Blueprint)
      BY <1>3, <2>2 DEF Offered
    <3>3. TaskEntry(t) \in GroupPlan(Blueprint, FALSE, {})
      BY <1>3, <3>2 DEF GroupPlan, HasTasksFromKit
    <3>. QED
      BY <2>1, <3>1, <3>3 DEF TaskPlan
  <2>3. CASE t \notin Blueprint
    <3>1. t \in Offered(Tasks \ Blueprint)
      BY <1>3, <2>3 DEF Offered
    <3>2. TaskEntry(t) \in GroupPlan(Tasks \ Blueprint, establish, Withheld)
      BY <1>3, <3>1 DEF GroupPlan, HasTasksFromKit
    <3>. QED
      BY <2>1, <3>2 DEF TaskPlan
  <2>. QED
    BY <2>2, <2>3
<1>. QED
  BY <1>1, <1>2, <1>3

\* A plan made on a task that was recorded, absent or just created leads to
\* the version's command for it, or to none.
LEMMA TaskPlanFollows ==
  ASSUME kit \in Kits, NEW establish \in BOOLEAN, NEW t \in Tasks,
         taskRecord \in [Tasks -> KitCommands \cup {None}],
         scripts[t] \in {None, taskRecord[t]} \/ Begun(t)
  PROVE  TaskFollows(t, ScriptsAfter(TaskPlan(establish))[t],
                     RecordedTasks(TaskPlan(establish))[t])
<1> DEFINE entries == TaskPlan(establish)
           s == ScriptsAfter(entries)[t]
           r == RecordedTasks(entries)[t]
<1>1. t \in DOMAIN kit.tasks => kit.tasks[t] # None
  BY ShippedFacts, NoneApart
<1>2. CASE \E e \in entries : e.name = t
  <2>1. PICK e \in entries : e.name = t
    BY <1>2
  <2>2. EntryLeads(t, s, r)
    BY <2>1, EntryOutcome
  <2>3. t \notin DOMAIN kit.tasks => scripts[t] # None
    BY <2>1, TaskPlanEntries
  <2>. QED
    BY <2>2, <2>3 DEF TaskFollows, Begun, EntryLeads
<1>3. CASE \A e \in entries : e.name # t
  <2>1. /\ s = scripts[t] /\ r = taskRecord[t]
        /\ t \notin DOMAIN kit.tasks => taskRecord[t] = None \/ scripts[t] = None
        /\ t \in DOMAIN kit.tasks /\ Includes(TaskRung[t]) /\ scripts[t] # None
              => Known(t) = None
    BY <1>3, TaskWithoutEntry
  <2>2. Begun(t) => FALSE
    BY <1>1, <2>1, TaskAssumption DEF Begun, Known
  <2>3. t \in DOMAIN kit.tasks /\ scripts[t] # None => Known(t) # None
    BY <1>1, <2>2 DEF Known
  <2>. QED
    BY <2>1, <2>2, <2>3 DEF TaskFollows, Begun
<1>. QED
  BY <1>2, <1>3

\* The first states have no task, or those just created.
LEMMA InitTasks == Init => TasksSound
<1>. SUFFICES ASSUME Init, NEW t \in Tasks PROVE TaskSound(t)
  BY DEF TasksSound
<1>1. settled = FALSE /\ phase \in {"idle", "init"}
  BY DEF Init
<1>2. phase = "idle" => scripts[t] = None
  BY DEF Init
<1>3. phase = "init" => scripts[t] = None \/ Begun(t)
  BY DEF Init, Begun
<1>. QED
  BY <1>1, <1>2, <1>3 DEF TaskSound

\* While the task block and what is said of it stay, so does where it leads.
LEMMA TasksStay ==
  ASSUME TasksSound,
         UNCHANGED <<kit, config, scripts, taskRecord, taskPlan, phase>>,
         settled' => settled, edited \cup cut \subseteq edited' \cup cut'
  PROVE  TasksSound'
<1>. SUFFICES ASSUME NEW t \in Tasks, t \notin (edited \cup cut)' PROVE TaskSound(t)'
  BY DEF TasksSound
<1>1. TaskSound(t)
  BY DEF TasksSound
<1>. QED
  BY <1>1 DEF TaskSound, TaskFollows, Begun, Includes, ScriptsAfter, RecordedTasks, EntryFor

\* Every step of a run keeps where untouched tasks lead.
LEMMA RunTasks ==
  ASSUME TypeOK, TasksSound, RunStep
  PROVE  TasksSound'
<1>1. CASE \E c \in Configs : RunInit(c)
  BY <1>1 DEF RunInit, tree, records, TasksSound, TaskSound
<1>2. CASE BuildPlan
  <2>. SUFFICES ASSUME NEW t \in Tasks \ (edited \cup cut) PROVE TaskSound(t)'
    BY <1>2 DEF BuildPlan, history, TasksSound
  <2>1. kit \in Kits /\ taskRecord \in [Tasks -> KitCommands \cup {None}]
    BY DEF TypeOK
  <2>2. scripts[t] \in {None, taskRecord[t]} \/ Begun(t)
    BY <1>2 DEF BuildPlan, TasksSound, TaskSound
  <2>3. TaskFollows(t, ScriptsAfter(TaskPlan(phase = "init"))[t],
                    RecordedTasks(TaskPlan(phase = "init"))[t])
    BY <2>1, <2>2, TaskPlanFollows
  <2>4. /\ taskPlan' = TaskPlan(phase = "init") /\ phase' = "files" /\ settled' = FALSE
        /\ UNCHANGED <<kit, config, scripts, taskRecord>>
    BY <1>2 DEF BuildPlan, tree, records
  <2>. QED
    BY <2>3, <2>4 DEF TaskSound, TaskFollows, Includes, ScriptsAfter, RecordedTasks, EntryFor
<1>3. CASE \E e \in todo : ApplyEntry(e)
  BY <1>3, TasksStay DEF ApplyEntry, records, history
<1>4. CASE SetModes
  <2>1. /\ phase = "files" /\ phase' = "tasks"
        /\ UNCHANGED <<kit, config, scripts, taskRecord, taskPlan, settled, edited, cut>>
    BY <1>4 DEF SetModes, records, history
  <2>. QED
    BY <2>1 DEF TasksSound, TaskSound, TaskFollows, Includes, ScriptsAfter, RecordedTasks, EntryFor
<1>5. CASE ApplyTasks
  <2>1. /\ phase = "tasks" /\ phase' = "record" /\ scripts' = ScriptsAfter(taskPlan)
        /\ UNCHANGED <<kit, config, taskRecord, taskPlan, settled, edited, cut>>
        /\ ~settled
    BY <1>5 DEF ApplyTasks, records, history, TypeOK
  <2>2. RecordedTasks(taskPlan)' = RecordedTasks(taskPlan)
    BY <2>1 DEF RecordedTasks, EntryFor
  <2>. QED
    BY <2>1, <2>2 DEF TasksSound, TaskSound, TaskFollows, Includes
<1>6. CASE WriteManifest
  <2>1. /\ phase = "record" /\ phase' = "idle" /\ taskRecord' = RecordedTasks(taskPlan)
        /\ UNCHANGED <<kit, config, scripts, edited, cut>>
    BY <1>6 DEF WriteManifest, Stop, tree, history
  <2>. QED
    BY <2>1 DEF TasksSound, TaskSound, TaskFollows, Includes
<1>7. CASE (\E e \in todo : Throw(e)) \/ Crash
  <2>1. /\ phase' = "idle" /\ phase # "idle" /\ settled' = settled /\ cut' = cut \cup Unrecorded
        /\ UNCHANGED <<scripts, taskRecord, edited>>
    BY <1>7 DEF Throw, Crash, Stop, tree, records
  <2>2. \A t \in Tasks \ Unrecorded : scripts[t] \in {None, taskRecord[t]}
    BY DEF Unrecorded
  <2>. QED
    BY <2>1, <2>2 DEF TasksSound, TaskSound, TypeOK
<1>. QED
  BY <1>1, <1>2, <1>3, <1>4, <1>5, <1>6, <1>7 DEF RunStep

\* What a consumer changes is no longer untouched.
LEMMA ConsumerTasks ==
  ASSUME TypeOK, TasksSound, ConsumerStep
  PROVE  TasksSound'
<1>1. CASE \/ \E k \in Kits : Upgrade(k)
           \/ \E c \in Configs : Configure(c)
  <2>1. /\ phase = "idle" /\ phase' = phase /\ settled' = FALSE
        /\ UNCHANGED <<scripts, taskRecord, edited, cut>>
    BY <1>1 DEF Upgrade, Configure, Change, tree, records, run
  <2>. QED
    BY <2>1 DEF TasksSound, TaskSound
<1>2. CASE \/ \E d \in Places, node \in ConsumerNodes : Edit(d, node)
           \/ \E d \in Places : ClearBit(d)
           \/ \E a \in Assets : Accept(a)
  <2>1. /\ UNCHANGED <<kit, config, scripts, taskRecord, taskPlan, phase>>
        /\ settled' => settled
        /\ edited \cup cut \subseteq edited' \cup cut'
    BY <1>2 DEF Edit, ClearBit, Accept, tree, records, run
  <2>. QED
    BY <2>1, TasksStay
<1>3. CASE \E t \in Tasks, command \in KitCommands \cup OwnCommands \cup {None} :
             EditScript(t, command)
  <2>1. PICK t \in Tasks, command \in KitCommands \cup OwnCommands \cup {None} :
          EditScript(t, command)
    BY <1>3
  <2>2. /\ phase = "idle" /\ phase' = phase /\ settled' = FALSE
        /\ scripts' = [scripts EXCEPT ![t] = command] /\ edited' = edited \cup {t}
        /\ UNCHANGED <<taskRecord, cut>>
    BY <2>1 DEF EditScript, Change, records, run
  <2>3. \A u \in Tasks \ {t} : scripts'[u] = scripts[u]
    BY <2>2 DEF TypeOK
  <2>. QED
    BY <2>2, <2>3 DEF TasksSound, TaskSound
<1>4. CASE LoseManifest
  BY <1>4 DEF LoseManifest, TasksSound
<1>. QED
  BY <1>1, <1>2, <1>3, <1>4 DEF ConsumerStep

\* In every state untouched tasks lead where the version has them.
LEMMA TasksHold == Spec => []TasksSound
<1>1. TypeOK /\ TasksSound /\ [Next]_vars => TasksSound'
  <2>. SUFFICES ASSUME TypeOK, TasksSound, [Next]_vars PROVE TasksSound'
    OBVIOUS
  <2>1. CASE UNCHANGED vars
    BY <2>1, TasksStay DEF vars, tree, records, run, history
  <2>. QED
    BY <2>1, RunTasks, ConsumerTasks DEF Next
<1>. QED
  BY <1>1, InitTasks, Typing, PTL DEF Spec

\* A task no consumer touched has, after every run that ended, the command the
\* installed version gives it, or is not there.
THEOREM TasksFollowed == Spec => []TasksFollow
<1>1. TasksSound => TasksFollow
  BY DEF TasksSound, TaskSound, TaskFollows, TasksFollow
<1>. QED
  BY <1>1, TasksHold, PTL

-----------------------------------------------------------------------------
(* Tasks: a second run *)

\* Nothing of the version's is known to be in the task block.
Silent(group, commands, recorded) ==
  \A u \in Offered(group) : commands[u] # kit.tasks[u] /\ recorded[u] = None

StillWithheld(t, commands, recorded) ==
  \/ t \in config.missingBins
  \/ t \in NeedsBlueprint /\ (~Includes(BlueprintRung) \/ Silent(Blueprint, commands, recorded))

\* A task is the version's and recorded, or the consumer's; or a run passes it
\* over, and will again.
TasksQuiet(commands, recorded) ==
  /\ \A t \in DOMAIN kit.tasks :
       \/ commands[t] = kit.tasks[t] /\ recorded[t] = kit.tasks[t]
       \/ commands[t] \notin {None, kit.tasks[t], recorded[t]}
       \/ ~Includes(TaskRung[t])
       \/ commands[t] = None /\ t \notin Blueprint /\ StillWithheld(t, commands, recorded)
       \/ \E group \in {Blueprint, Tasks \ Blueprint} :
            t \in group /\ Silent(group, commands, recorded)
  /\ \A t \in Tasks \ DOMAIN kit.tasks :
       commands[t] = None \/ recorded[t] = None \/ commands[t] # recorded[t]

\* An entry of the version's comes from the plan of its group.
LEMMA EntryGroup ==
  ASSUME kit \in Kits, NEW establish \in BOOLEAN, NEW e \in TaskPlan(establish),
         e.name \in DOMAIN kit.tasks
  PROVE  /\ e.name \in Blueprint => e \in GroupPlan(Blueprint, FALSE, {})
         /\ e.name \notin Blueprint => e \in GroupPlan(Tasks \ Blueprint, establish, Withheld)
<1>1. e \notin DroppedTasks
  BY DEF DroppedTasks
<1>2. ASSUME NEW group, NEW withheld, NEW est, e \in GroupPlan(group, est, withheld)
      PROVE  e.name \in group
  BY <1>2 DEF GroupPlan, Offered, TaskEntry
<1>3. \/ e \in GroupPlan(Blueprint, FALSE, {})
      \/ e \in GroupPlan(Tasks \ Blueprint, establish, Withheld)
  BY <1>1 DEF TaskPlan
<1>. QED
  BY <1>2, <1>3

\* A run that passes a group over leaves it as it was.
LEMMA SilentStays ==
  ASSUME kit \in Kits, NEW establish \in BOOLEAN, NEW group \in {Blueprint, Tasks \ Blueprint},
         ~HasTasksFromKit(Offered(group)), group = Blueprint \/ ~establish
  PROVE  Silent(group, ScriptsAfter(TaskPlan(establish)), RecordedTasks(TaskPlan(establish)))
<1>. SUFFICES ASSUME NEW u \in Offered(group)
              PROVE  /\ ScriptsAfter(TaskPlan(establish))[u] # kit.tasks[u]
                     /\ RecordedTasks(TaskPlan(establish))[u] = None
  BY DEF Silent
<1>1. u \in DOMAIN kit.tasks /\ u \in group /\ u \in Tasks /\ kit.tasks[u] # None
  BY ShippedFacts, NoneApart DEF Offered
<1>2. GroupPlan(group, FALSE, {}) = {} /\ (~establish => GroupPlan(group, establish, Withheld) = {})
  BY DEF GroupPlan
<1>3. \A e \in TaskPlan(establish) : e.name # u
  <2>1. SUFFICES ASSUME NEW e \in TaskPlan(establish), e.name = u PROVE FALSE
    OBVIOUS
  <2>. QED
    BY <1>1, <1>2, <2>1, EntryGroup
<1>4. Known(u) = None
  BY DEF HasTasksFromKit
<1>. QED
  BY <1>1, <1>3, <1>4, TaskWithoutEntry DEF Known

\* Every run leaves the task block such that another has nothing to do.
LEMMA RunQuiets ==
  ASSUME kit \in Kits, NEW establish \in BOOLEAN,
         taskRecord \in [Tasks -> KitCommands \cup {None}]
  PROVE  TasksQuiet(ScriptsAfter(TaskPlan(establish)), RecordedTasks(TaskPlan(establish)))
<1> DEFINE S == ScriptsAfter(TaskPlan(establish))
           R == RecordedTasks(TaskPlan(establish))
<1>1. ASSUME NEW t \in Tasks, NEW e \in TaskPlan(establish), e.name = t
      PROVE  /\ t \in DOMAIN kit.tasks =>
                  \/ S[t] = kit.tasks[t] /\ R[t] = kit.tasks[t]
                  \/ S[t] \notin {None, kit.tasks[t], R[t]}
             /\ t \notin DOMAIN kit.tasks => S[t] = None \/ S[t] # R[t]
  BY <1>1, EntryOutcome DEF EntryLeads
<1>2. ASSUME NEW t \in Tasks \ DOMAIN kit.tasks, \A e \in TaskPlan(establish) : e.name # t
      PROVE  S[t] = None \/ R[t] = None
  BY <1>2, TaskWithoutEntry
<1>3. ASSUME NEW t \in DOMAIN kit.tasks, Includes(TaskRung[t]),
             \A e \in TaskPlan(establish) : e.name # t
      PROVE  \/ S[t] = None /\ t \notin Blueprint /\ StillWithheld(t, S, R)
             \/ \E group \in {Blueprint, Tasks \ Blueprint} : t \in group /\ Silent(group, S, R)
  <2>1. t \in Tasks /\ S[t] = scripts[t] /\ TaskEntry(t).name = t
    BY <1>3, ShippedFacts, TaskWithoutEntry DEF TaskEntry
  <2>2. CASE t \in Blueprint
    <3>1. Includes(BlueprintRung) /\ t \in Offered(Blueprint)
      BY <1>3, <2>2, TaskAssumption DEF Offered
    <3>2. TaskEntry(t) \notin GroupPlan(Blueprint, FALSE, {})
      BY <1>3, <2>1, <3>1 DEF TaskPlan
    <3>3. ~HasTasksFromKit(Offered(Blueprint))
      BY <3>1, <3>2 DEF GroupPlan
    <3>. QED
      BY <2>2, <3>3, SilentStays
  <2>3. CASE t \notin Blueprint
    <3>1. t \in Offered(Tasks \ Blueprint)
      BY <1>3, <2>1, <2>3 DEF Offered
    <3>2. TaskEntry(t) \notin GroupPlan(Tasks \ Blueprint, establish, Withheld)
      BY <1>3, <2>1 DEF TaskPlan
    <3>3. \/ ~establish /\ ~HasTasksFromKit(Offered(Tasks \ Blueprint))
          \/ scripts[t] = None /\ t \in Withheld
      BY <3>1, <3>2 DEF GroupPlan
    <3>4. ASSUME scripts[t] = None, t \in Withheld PROVE StillWithheld(t, S, R)
      <4>1. ~HasTasksFromKit(DOMAIN kit.tasks \cap Blueprint)
              => ~HasTasksFromKit(Offered(Blueprint))
        BY DEF HasTasksFromKit, Offered
      <4>2. ~HasTasksFromKit(DOMAIN kit.tasks \cap Blueprint) => Silent(Blueprint, S, R)
        BY <4>1, SilentStays
      <4>. QED
        BY <3>4, <4>2 DEF Withheld, StillWithheld
    <3>5. ASSUME ~establish, ~HasTasksFromKit(Offered(Tasks \ Blueprint))
          PROVE  Silent(Tasks \ Blueprint, S, R)
      BY <3>5, SilentStays
    <3>. QED
      BY <2>1, <2>3, <3>3, <3>4, <3>5
  <2>. QED
    BY <2>2, <2>3
<1>4. DOMAIN kit.tasks \subseteq Tasks
  BY ShippedFacts
<1>5. ASSUME NEW t \in DOMAIN kit.tasks
      PROVE  \/ S[t] = kit.tasks[t] /\ R[t] = kit.tasks[t]
             \/ S[t] \notin {None, kit.tasks[t], R[t]}
             \/ ~Includes(TaskRung[t])
             \/ S[t] = None /\ t \notin Blueprint /\ StillWithheld(t, S, R)
             \/ \E group \in {Blueprint, Tasks \ Blueprint} : t \in group /\ Silent(group, S, R)
  <2>1. CASE \E e \in TaskPlan(establish) : e.name = t
    BY <1>1, <1>4, <2>1
  <2>2. CASE \A e \in TaskPlan(establish) : e.name # t
    BY <1>3, <2>2
  <2>. QED
    BY <2>1, <2>2
<1>6. ASSUME NEW t \in Tasks \ DOMAIN kit.tasks
      PROVE  S[t] = None \/ R[t] = None \/ S[t] # R[t]
  BY <1>1, <1>2
<1>. QED
  BY <1>5, <1>6 DEF TasksQuiet

\* So another run writes no task, and records what is recorded.
LEMMA QuietTaskRun ==
  ASSUME kit \in Kits, taskRecord \in [Tasks -> KitCommands \cup {None}],
         TasksQuiet(scripts, taskRecord)
  PROVE  /\ \A e \in TaskPlan(FALSE) : e.state \notin TaskWritten
         /\ RecordedTasks(TaskPlan(FALSE)) = taskRecord
<1>1. ASSUME NEW group, NEW withheld, Silent(group, scripts, taskRecord),
             \A u \in Offered(group) : kit.tasks[u] # None
      PROVE  GroupPlan(group, FALSE, withheld) = {}
  <2>1. ~HasTasksFromKit(Offered(group))
    BY <1>1 DEF Silent, HasTasksFromKit, Known
  <2>. QED
    BY <2>1 DEF GroupPlan
<1>2. \A u \in DOMAIN kit.tasks : u \in Tasks /\ kit.tasks[u] # None
  BY ShippedFacts, NoneApart
<1>3. ASSUME NEW t, StillWithheld(t, scripts, taskRecord) PROVE t \in Withheld
  <2>1. CASE t \in config.missingBins
    BY <2>1 DEF Withheld
  <2>2. CASE t \in NeedsBlueprint /\ ~Includes(BlueprintRung)
    BY <2>2 DEF Withheld
  <2>3. CASE /\ t \in NeedsBlueprint /\ Includes(BlueprintRung)
             /\ Silent(Blueprint, scripts, taskRecord)
    <3>1. \A u \in DOMAIN kit.tasks \cap Blueprint : u \in Offered(Blueprint)
      BY <2>3, TaskAssumption DEF Offered
    <3>2. ~HasTasksFromKit(DOMAIN kit.tasks \cap Blueprint)
      BY <2>3, <3>1 DEF Silent, HasTasksFromKit, Known
    <3>. QED
      BY <2>3, <3>2 DEF Withheld
  <2>. QED
    BY <1>3, <2>1, <2>2, <2>3 DEF StillWithheld
<1>4. ASSUME NEW e \in TaskPlan(FALSE), e.name \in DOMAIN kit.tasks
      PROVE  /\ e.state \notin TaskWritten /\ e.state # "removed"
             /\ IsRecorded(e.state) => e.command = taskRecord[e.name]
  <2> DEFINE t == e.name
  <2>1. e = TaskEntry(t) /\ Includes(TaskRung[t]) /\ t \in Tasks /\ kit.tasks[t] # None
    BY <1>2, <1>4, TaskPlanEntries
  <2>2. /\ e.state = Classify(kit.tasks[t], scripts[t], Known(t)) /\ e.command = kit.tasks[t]
    BY <2>1 DEF TaskEntry
  <2>3. ~\E group \in {Blueprint, Tasks \ Blueprint} :
          t \in group /\ Silent(group, scripts, taskRecord)
    <3>1. \A group : \A u \in Offered(group) : kit.tasks[u] # None
      BY <1>2 DEF Offered
    <3>2. SUFFICES ASSUME NEW group \in {Blueprint, Tasks \ Blueprint}, t \in group,
                          Silent(group, scripts, taskRecord)
                   PROVE  FALSE
      OBVIOUS
    <3>3. \/ e \in GroupPlan(group, FALSE, {}) \/ e \in GroupPlan(group, FALSE, Withheld)
      BY <1>4, <3>2, EntryGroup
    <3>. QED
      BY <1>1, <3>1, <3>2, <3>3
  <2>4. ~(scripts[t] = None /\ t \notin Blueprint /\ StillWithheld(t, scripts, taskRecord))
    <3>1. SUFFICES ASSUME scripts[t] = None, t \notin Blueprint, t \in Withheld PROVE FALSE
      BY <1>3
    <3>2. e \in GroupPlan(Tasks \ Blueprint, FALSE, Withheld)
      BY <1>4, <3>1, EntryGroup
    <3>3. PICK u \in Offered(Tasks \ Blueprint) :
            e = TaskEntry(u) /\ (scripts[u] # None \/ u \notin Withheld)
      BY <3>2 DEF GroupPlan
    <3>. QED
      BY <3>1, <3>3 DEF TaskEntry
  <2>5. CASE scripts[t] = kit.tasks[t] /\ taskRecord[t] = kit.tasks[t]
    <3>1. e.state = "current"
      BY <2>1, <2>2, <2>5 DEF Classify, Known
    <3>. QED
      BY <2>2, <2>5, <3>1 DEF TaskWritten
  <2>6. CASE scripts[t] \notin {None, kit.tasks[t], taskRecord[t]}
    <3>1. e.state \in {"conflict", "modified"}
      BY <2>2, <2>6 DEF Classify, Known
    <3>. QED
      BY <3>1 DEF TaskWritten, IsRecorded
  <2>. QED
    BY <1>4, <2>1, <2>3, <2>4, <2>5, <2>6 DEF TasksQuiet
<1>5. ASSUME NEW e \in TaskPlan(FALSE), e.name \notin DOMAIN kit.tasks
      PROVE  e.state = "modified"
  <2>1. /\ e = DropEntry(e.name) /\ e.name \in Tasks
        /\ taskRecord[e.name] # None /\ scripts[e.name] # None
    BY <1>5, TaskPlanEntries
  <2>. QED
    BY <1>5, <2>1 DEF TasksQuiet, DropEntry
<1>6. \A e \in TaskPlan(FALSE) : e.state \notin TaskWritten
  BY <1>4, <1>5 DEF TaskWritten
<1>7. ASSUME NEW t \in Tasks PROVE RecordedTasks(TaskPlan(FALSE))[t] = taskRecord[t]
  <2>1. \A e, f \in TaskPlan(FALSE) : e.name = t /\ f.name = t => e = f
    BY TaskPlanEntries
  <2>2. ASSUME NEW e \in TaskPlan(FALSE), e.name = t
        PROVE  RecordedTasks(TaskPlan(FALSE))[t] = taskRecord[t]
    <3>1. RecordedTasks(TaskPlan(FALSE))[t] =
            IF e.state = "removed" \/ IsRecorded(e.state) THEN e.command ELSE taskRecord[t]
      BY <2>1, <2>2, TaskOutcome
    <3>2. /\ e.state # "removed"
          /\ IsRecorded(e.state) => e.command = taskRecord[t]
      BY <1>4, <1>5, <2>2 DEF IsRecorded
    <3>. QED
      BY <3>1, <3>2
  <2>. QED
    BY <2>1, <2>2, TaskOutcome
<1>8. RecordedTasks(TaskPlan(FALSE)) = taskRecord
  BY <1>7 DEF RecordedTasks
<1>. QED
  BY <1>6, <1>8

-----------------------------------------------------------------------------
(* Files: what a run covers *)

\* The configuration gives all the asset needs.
Answered(a) == a \notin config.unmet /\ ~(a \in Templated /\ config.answer = None)

\* A run does not write the asset, nor record it.
Left(a, recorded) ==
  \/ ~Answered(a)
  \/ Classify(Incoming(a), OnDisk(a), recorded[Target(a)]) \in Acknowledgeable

Brings(e, a) ==
  /\ e.path = Target(a) /\ e.content = Rendered(a) /\ e.executable = (a \in Executable)
  /\ a \notin Regional => e.region = None
  /\ ~IsRetirement(e)

\* The entry's asset is in place once it is done, or left to the consumer.
Serves(e, a) ==
  IF IsRecorded(e.state)
  THEN e \notin todo \/ e.state = "current" => OnDisk(a) = Incoming(a)
  ELSE Left(a, Recorded)

Running == phase \in {"files", "tasks", "record"}

Covers ==
  /\ \A a \in Placed : \E e \in plan : Brings(e, a) /\ Serves(e, a)
  /\ \A p \in Departing : \E e \in plan : e.path = p /\ IsRetirement(e)
  /\ \A e \in plan : IsRetirement(e) => e.path \in Departing

\* Every placed asset has an entry, and what departs is retired.
RunCovers ==
  /\ Running => Covers
  /\ phase \in {"tasks", "record"} =>
       \A e \in plan : NeedsExecutableBit(e) => PlaceOf[e.path] \in runnable
  /\ phase \in {"files", "tasks"} =>
       TasksQuiet(ScriptsAfter(taskPlan), RecordedTasks(taskPlan))
  /\ phase = "record" => TasksQuiet(scripts, RecordedTasks(taskPlan))

\* Every placed asset is in place, recorded and can be run, or left; nothing
\* is to respell, to retire or to do in the task block.
Quiet ==
  /\ \A a \in Placed :
       \/ Left(a, manifest)
       \/ /\ OnDisk(a) = Incoming(a) /\ manifest[Target(a)] = Incoming(a)
          /\ a \in Executable => At(a) \in runnable
  /\ Recorded = manifest /\ Departing = {}
  /\ TasksQuiet(scripts, taskRecord)

QuietSound == RunCovers /\ (settled => Quiet)

\* What is placed and what departs depends on the version, the configuration
\* and the records alone.
LEMMA PlacementStays ==
  ASSUME kit' = kit, config' = config
  PROVE  /\ Shipped' = Shipped /\ Retired' = Retired /\ Placed' = Placed
         /\ PlacedPaths' = PlacedPaths /\ Incomplete' = Incomplete
         /\ \A a : Target(a)' = Target(a) /\ At(a)' = At(a) /\ Rendered(a)' = Rendered(a)
                   /\ Incoming(a)' = Incoming(a) /\ Answered(a)' = Answered(a)
<1>1. Shipped' = Shipped /\ Retired' = Retired
  BY DEF Shipped, Retired, Includes
<1>2. \A a : Target(a)' = Target(a) /\ At(a)' = At(a) /\ Rendered(a)' = Rendered(a)
             /\ Incoming(a)' = Incoming(a) /\ Answered(a)' = Answered(a)
  BY DEF Target, At, Rendered, Incoming, Answered
<1>3. Candidates' = Candidates
  BY <1>1 DEF Candidates, Includes
<1>4. Placed' = Placed
  BY <1>2, <1>3 DEF Placed
<1>. QED
  BY <1>1, <1>2, <1>4 DEF PlacedPaths, Incomplete

LEMMA RecordsStay ==
  ASSUME kit' = kit, config' = config, manifest' = manifest
  PROVE  Recorded' = Recorded /\ Departing' = Departing
<1>1. /\ Shipped' = Shipped /\ Retired' = Retired /\ PlacedPaths' = PlacedPaths
      /\ Incomplete' = Incomplete /\ \A a : Target(a)' = Target(a)
  BY PlacementStays
<1>2. Recorded' = Recorded
  BY <1>1 DEF Recorded, Aliased, Aliases
<1>3. Declared' = Declared /\ ShippedPaths' = ShippedPaths
  BY <1>1 DEF Declared, ShippedPaths
<1>. QED
  BY <1>1, <1>2, <1>3 DEF Departing, StillShipped, PlacesOf

\* What departs is at no placed file.
LEMMA DepartingApart ==
  ASSUME NEW p \in Departing, NEW a \in Placed
  PROVE  PlaceOf[p] # At(a) /\ p # Target(a) /\ p \in Paths /\ Recorded[p] # None
<1>1. At(a) \in PlacesOf(PlacedPaths)
  BY DEF PlacesOf, PlacedPaths, At
<1>. QED
  BY <1>1 DEF Departing, StillShipped, At

\* The entry of a placed asset brings it, and says if it is left.
LEMMA PlacedEntryServes ==
  ASSUME kit \in Kits, config \in Configs, NEW a \in Placed
  PROVE  /\ Brings(PlacedEntry(a), a)
         /\ StateOf(a) = "current" => OnDisk(a) = Incoming(a)
         /\ ~IsRecorded(StateOf(a)) => Left(a, Recorded)
<1>1. StateOf(a) \in States \ {"retired", "kept"}
  BY StateOfRange
<1>2. Brings(PlacedEntry(a), a)
  BY <1>1 DEF Brings, PlacedEntry, RegionAt, IsRetirement
<1>3. ASSUME StateOf(a) = "current" PROVE OnDisk(a) = Incoming(a)
  <2>1. Incoming(a) # None
    <3>1. Incoming(a) \in KitHashes
      BY PlacedFacts, RenderedType DEF Incoming, KitHashes
    <3>. QED
      BY <3>1, NoneApart
  <2>2. StateOf(a) = Classify(Incoming(a), OnDisk(a), Recorded[Target(a)])
    BY <1>3, StateOfRange
  <2>. QED
    BY <1>3, <2>1, <2>2, ClassifyRange
<1>4. ASSUME ~IsRecorded(StateOf(a)), Answered(a)
      PROVE  Classify(Incoming(a), OnDisk(a), Recorded[Target(a)]) \in Acknowledgeable
  <2> DEFINE state == Classify(Incoming(a), OnDisk(a), Recorded[Target(a)])
  <2>1. state \in {"added", "current", "conflict", "restored", "modified", "updated"}
    BY ClassifyRange
  <2>2. StateOf(a) = state \/ state \in Acknowledgeable
    BY <1>4 DEF StateOf, Answered
  <2>. QED
    BY <1>4, <2>1, <2>2 DEF IsRecorded, Acknowledgeable
<1>. QED
  BY <1>2, <1>3, <1>4 DEF Left

\* Entries that retire what departs, and bring one thing to a place.
Fitting(entries) ==
  /\ \A p \in Departing : \E e \in entries : e.path = p /\ IsRetirement(e)
  /\ \A e \in entries : IsRetirement(e) => e.path \in Departing
  /\ \A e \in entries : IsRetirement(e) \/ e.path \in PlacedPaths
  /\ \A e, f \in entries : ~IsRetirement(e) /\ PlaceOf[e.path] = PlaceOf[f.path] => e = f

\* What such entries lead to be recorded.
LEMMA RecordsAfter ==
  ASSUME NEW entries, Fitting(entries), kit \in Kits, config \in Configs
  PROVE  /\ \A a \in Placed, e \in entries :
              Brings(e, a) =>
                NextManifest(entries)[Target(a)] =
                  IF IsRecorded(e.state) THEN Incoming(a) ELSE Recorded[Target(a)]
         /\ \A p \in Paths \ PlacedPaths :
              NextManifest(entries)[p] = IF p \in Departing THEN None ELSE Recorded[p]
<1>1. \A e \in entries : IsRecorded(e.state) => ~IsRetirement(e)
  BY DEF IsRecorded, IsRetirement
<1>2. ASSUME NEW a \in Placed, NEW e \in entries, Brings(e, a)
      PROVE  NextManifest(entries)[Target(a)] =
               IF IsRecorded(e.state) THEN Incoming(a) ELSE Recorded[Target(a)]
  <2>1. Target(a) \in Paths
    BY PlacedFacts
  <2>2. ~\E f \in entries : f.path = Target(a) /\ IsRetirement(f)
    BY DepartingApart DEF Fitting
  <2>3. \A f \in entries : f.path = Target(a) => f = e
    BY <1>2 DEF Fitting, Brings
  <2>4. e.path = Target(a) /\ e.content = Rendered(a)
    BY <1>2 DEF Brings
  <2>5. CASE IsRecorded(e.state)
    <3>1. (CHOOSE f \in entries : f.path = Target(a) /\ IsRecorded(f.state)) = e
      BY <2>3, <2>4, <2>5
    <3>. QED
      BY <2>1, <2>2, <2>4, <2>5, <3>1 DEF NextManifest, Incoming
  <2>6. CASE ~IsRecorded(e.state)
    BY <2>1, <2>2, <2>3, <2>6 DEF NextManifest
  <2>. QED
    BY <2>5, <2>6
<1>3. ASSUME NEW p \in Paths \ PlacedPaths
      PROVE  NextManifest(entries)[p] = IF p \in Departing THEN None ELSE Recorded[p]
  <2>1. ~\E f \in entries : f.path = p /\ IsRecorded(f.state)
    BY <1>1, <1>3 DEF Fitting
  <2>2. (\E f \in entries : f.path = p /\ IsRetirement(f)) <=> p \in Departing
    BY DEF Fitting
  <2>. QED
    BY <2>1, <2>2 DEF NextManifest
<1>. QED
  BY <1>2, <1>3

\* Where no placed file has another spelling recorded, none is respelled.
LEMMA NothingToRespell ==
  /\ manifest \in [Paths -> KitHashes \cup {None}]
  /\ \A p \in PlacedPaths, q \in Paths :
       manifest[q] # None /\ PlaceOf[p] = PlaceOf[q] => p = q
  => Recorded = manifest
<1>. SUFFICES ASSUME manifest \in [Paths -> KitHashes \cup {None}],
                     \A p \in PlacedPaths, q \in Paths :
                       manifest[q] # None /\ PlaceOf[p] = PlaceOf[q] => p = q
              PROVE  Recorded = manifest
  OBVIOUS
<1>1. \A p \in PlacedPaths : Aliases(p) = {}
  BY DEF Aliases
<1>2. Aliased = {}
  BY <1>1 DEF Aliased
<1>. QED
  BY <1>1, <1>2 DEF Recorded

\* The entries of a new plan do.
LEMMA PlanFits ==
  ASSUME kit \in Kits, config \in Configs, disk \in [Places -> Node], OneRecordPerFile,
         manifest \in [Paths -> KitHashes \cup {None}]
  PROVE  Fitting(Plan)
<1>1. ASSUME NEW p \in Departing PROVE \E e \in Plan : e.path = p /\ IsRetirement(e)
  <2>1. RetiredEntry(p) \in Plan /\ RetiredEntry(p).path = p /\ IsRetirement(RetiredEntry(p))
    BY PlanTyped DEF Plan, RetiredEntry
  <2>. QED
    BY <2>1
<1>2. ASSUME NEW e \in Plan, IsRetirement(e) PROVE e.path \in Departing
  <2>1. PICK p \in Departing : e = RetiredEntry(p)
    BY <1>2, PlanTyped DEF Plan
  <2>. QED
    BY <2>1 DEF RetiredEntry
<1>. QED
  BY <1>1, <1>2, PlanApart DEF Fitting

\* A new plan covers what is placed and what departs.
LEMMA BuildPlanCovers ==
  ASSUME TypeOK, OneRecordPerFile, BuildPlan
  PROVE  QuietSound'
<1>1. /\ kit \in Kits /\ config \in Configs /\ disk \in [Places -> Node]
      /\ manifest \in [Paths -> KitHashes \cup {None}]
      /\ taskRecord \in [Tasks -> KitCommands \cup {None}]
  BY DEF TypeOK, KitHashes
<1>2. /\ plan' = Plan /\ todo' = Plan /\ taskPlan' = TaskPlan(phase = "init")
      /\ phase' = "files" /\ settled' = FALSE
      /\ UNCHANGED <<kit, config, disk, runnable, scripts, manifest, taskRecord>>
  BY DEF BuildPlan, tree, records
<1>3. /\ Placed' = Placed /\ Recorded' = Recorded /\ Departing' = Departing
      /\ \A a : Target(a)' = Target(a) /\ At(a)' = At(a) /\ Rendered(a)' = Rendered(a)
                /\ Incoming(a)' = Incoming(a) /\ Answered(a)' = Answered(a)
      /\ \A a : OnDisk(a)' = OnDisk(a)
  <2>1. \A a : At(a)' = At(a)
    BY <1>2, PlacementStays
  <2>. QED
    BY <1>2, <2>1, PlacementStays, RecordsStay DEF OnDisk, WholeHash
<1>4. ASSUME NEW a \in Placed
      PROVE  \E e \in plan' : (Brings(e, a) /\ Serves(e, a))'
  <2>1. PlacedEntry(a) \in plan' /\ PlacedEntry(a).state = StateOf(a)
    BY <1>2 DEF Plan, PlacedEntry
  <2>2. /\ Brings(PlacedEntry(a), a)
        /\ StateOf(a) = "current" => OnDisk(a) = Incoming(a)
        /\ ~IsRecorded(StateOf(a)) => Left(a, Recorded)
    BY <1>1, PlacedEntryServes
  <2>3. PlacedEntry(a) \in todo'
    BY <1>2, <2>1
  <2> HIDE DEF PlacedEntry
  <2>4. \A e \in todo' :
          /\ Brings(e, a) => (Brings(e, a))'
          /\ (e.state = "current" => OnDisk(a) = Incoming(a))
               /\ (~IsRecorded(e.state) => Left(a, Recorded)) => (Serves(e, a))'
    BY <1>3 DEF Brings, Serves, Left
  <2>. QED
    BY <2>1, <2>2, <2>3, <2>4
<1>5. Fitting(Plan)
  BY <1>1, PlanFits
<1>6. Covers'
  BY <1>2, <1>3, <1>4, <1>5 DEF Covers, Fitting
<1>7. (TasksQuiet(ScriptsAfter(taskPlan), RecordedTasks(taskPlan)))'
  <2>1. TasksQuiet(ScriptsAfter(TaskPlan(phase = "init")), RecordedTasks(TaskPlan(phase = "init")))
    BY <1>1, RunQuiets
  <2>2. /\ ScriptsAfter(taskPlan)' = ScriptsAfter(TaskPlan(phase = "init"))
        /\ RecordedTasks(taskPlan)' = RecordedTasks(TaskPlan(phase = "init"))
    BY <1>2 DEF ScriptsAfter, RecordedTasks, EntryFor
  <2>. QED
    BY <1>2, <2>1, <2>2 DEF TasksQuiet, Silent, StillWithheld, Offered, Includes
<1>. QED
  BY <1>2, <1>6, <1>7 DEF QuietSound, RunCovers, Running

\* The plan of a run fits.
LEMMA RunFits ==
  ASSUME PlanSound, Covers
  PROVE  Fitting(plan)
  BY DEF PlanSound, PlannedPaths, PlacesApart, Covers, Fitting

\* A turn of the loop serves one asset and leaves the others as they are.
LEMMA ApplyEntryCovers ==
  ASSUME TypeOK, OneRecordPerFile, PlanSound, QuietSound, NEW e \in todo, ApplyEntry(e)
  PROVE  QuietSound'
<1> DEFINE place == PlaceOf[e.path]
<1>1. /\ todo' = todo \ {e} /\ phase = "files"
      /\ UNCHANGED <<kit, config, scripts, manifest, taskRecord, phase, plan, taskPlan, settled>>
  BY DEF ApplyEntry, records, history
<1>2. /\ Placed' = Placed /\ Recorded' = Recorded /\ Departing' = Departing
      /\ \A a : Target(a)' = Target(a) /\ At(a)' = At(a) /\ Rendered(a)' = Rendered(a)
                /\ Incoming(a)' = Incoming(a) /\ Answered(a)' = Answered(a)
  BY <1>1, PlacementStays, RecordsStay
<1>3. e \in plan /\ place \in Places /\ disk \in [Places -> Node]
  BY PlanPlaces DEF TypeOK
<1>4. \A d \in Places \ {place} : disk'[d] = disk[d]
  BY <1>3 DEF ApplyEntry
<1>5. ASSUME NEW a \in Placed
      PROVE  \E f \in plan' : (Brings(f, a) /\ Serves(f, a))'
  <2>1. PICK f \in plan : Brings(f, a) /\ Serves(f, a)
    BY <1>1 DEF QuietSound, RunCovers, Running, Covers
  <2>2. Brings(f, a)'
    BY <1>2, <2>1 DEF Brings
  <2>3. PlaceOf[f.path] = At(a) /\ ~IsRetirement(f) /\ At(a) \in Places
    BY <2>1, PlacedFacts DEF Brings, At, TypeOK
  <2>4. CASE f # e
    <3>1. At(a) # place
      BY <1>3, <2>3, <2>4 DEF PlanSound, PlacesApart
    <3>2. disk'[At(a)] = disk[At(a)]
      BY <1>4, <2>3, <3>1
    <3>3. OnDisk(a)' = OnDisk(a)
      BY <1>2, <3>2 DEF OnDisk, WholeHash
    <3>4. f \in todo' <=> f \in todo
      BY <1>1, <2>4
    <3>5. Serves(f, a)'
      BY <1>2, <2>1, <3>3, <3>4 DEF Serves, Left
    <3>. QED
      BY <1>1, <2>1, <2>2, <3>5
  <2>5. CASE f = e /\ e.state \in Written \ {"retired"}
    <3>1. disk' = [disk EXCEPT ![place] = FileOf(e.content, e.region)]
      BY <2>5 DEF ApplyEntry
    <3>2. disk'[At(a)] = FileOf(Rendered(a), e.region) /\ (a \notin Regional => e.region = None)
      BY <1>3, <2>1, <2>3, <2>5, <3>1 DEF Brings
    <3>3. OnDisk(a)' = Incoming(a)'
      BY <1>2, <3>2 DEF OnDisk, WholeHash, FileOf, Incoming
    <3>4. IsRecorded(e.state)
      BY <2>5 DEF Written, IsRecorded
    <3>5. Serves(f, a)'
      BY <2>5, <3>3, <3>4 DEF Serves
    <3>. QED
      BY <1>1, <2>1, <2>2, <3>5
  <2>6. CASE f = e /\ e.state \notin Written
    <3>1. disk' = disk
      BY <2>6 DEF ApplyEntry, Written
    <3>2. OnDisk(a)' = OnDisk(a)
      BY <1>2, <3>1 DEF OnDisk, WholeHash
    <3>3. IsRecorded(e.state) => e.state = "current"
      BY <2>6 DEF IsRecorded, Written
    <3>4. Serves(f, a)'
      BY <1>2, <2>1, <2>6, <3>2, <3>3 DEF Serves, Left
    <3>. QED
      BY <1>1, <2>1, <2>2, <3>4
  <2>7. e.state = "retired" => f # e
    BY <2>3 DEF IsRetirement
  <2>. QED
    BY <2>4, <2>5, <2>6, <2>7
<1>6. Covers'
  BY <1>1, <1>2, <1>5 DEF QuietSound, RunCovers, Running, Covers
<1>7. (TasksQuiet(ScriptsAfter(taskPlan), RecordedTasks(taskPlan)))'
  <2>1. TasksQuiet(ScriptsAfter(taskPlan), RecordedTasks(taskPlan))
    BY <1>1 DEF QuietSound, RunCovers
  <2>2. /\ ScriptsAfter(taskPlan)' = ScriptsAfter(taskPlan)
        /\ RecordedTasks(taskPlan)' = RecordedTasks(taskPlan)
    BY <1>1 DEF ScriptsAfter, RecordedTasks, EntryFor
  <2>. QED
    BY <1>1, <2>1, <2>2 DEF TasksQuiet, Silent, StillWithheld, Offered, Includes
<1>8. ~settled'
  BY <1>1 DEF TypeOK
<1>. QED
  BY <1>1, <1>6, <1>7, <1>8 DEF QuietSound, RunCovers

\* The mode bits and the task block go on from what the files led to.
LEMMA ModesAndTasksCover ==
  ASSUME TypeOK, PlanSound, QuietSound, SetModes \/ ApplyTasks
  PROVE  QuietSound'
<1>1. /\ UNCHANGED <<kit, config, disk, manifest, taskRecord, plan, taskPlan, todo, settled>>
      /\ phase # "idle"
  BY DEF SetModes, ApplyTasks, records, history
<1>2. /\ Placed' = Placed /\ Recorded' = Recorded /\ Departing' = Departing
      /\ \A a : Target(a)' = Target(a) /\ At(a)' = At(a) /\ Rendered(a)' = Rendered(a)
                /\ Incoming(a)' = Incoming(a) /\ Answered(a)' = Answered(a)
  BY <1>1, PlacementStays, RecordsStay
<1>3. Covers
  BY DEF SetModes, ApplyTasks, QuietSound, RunCovers, Running
<1>4. \A a : OnDisk(a)' = OnDisk(a)
  BY <1>1, <1>2 DEF OnDisk, WholeHash
<1>5. Covers'
  BY <1>1, <1>2, <1>3, <1>4 DEF Covers, Brings, Serves, Left
<1>6. ~settled'
  BY <1>1 DEF TypeOK
<1>7. RecordedTasks(taskPlan)' = RecordedTasks(taskPlan)
  BY <1>1 DEF RecordedTasks, EntryFor
<1>8. CASE SetModes
  <2>1. /\ phase = "files" /\ phase' = "tasks" /\ scripts' = scripts
        /\ runnable' = runnable \cup {PlaceOf[e.path] : e \in {e \in plan : NeedsExecutableBit(e)}}
    BY <1>8 DEF SetModes
  <2>2. ScriptsAfter(taskPlan)' = ScriptsAfter(taskPlan)
    BY <1>1, <2>1 DEF ScriptsAfter, EntryFor
  <2>3. TasksQuiet(ScriptsAfter(taskPlan), RecordedTasks(taskPlan))
    BY <2>1 DEF QuietSound, RunCovers
  <2>4. (TasksQuiet(ScriptsAfter(taskPlan), RecordedTasks(taskPlan)))'
    BY <1>1, <1>7, <2>2, <2>3 DEF TasksQuiet, Silent, StillWithheld, Offered, Includes
  <2>5. \A e \in plan' : NeedsExecutableBit(e) => PlaceOf[e.path] \in runnable'
    BY <1>1, <2>1
  <2>. QED
    BY <1>5, <1>6, <2>1, <2>4, <2>5 DEF QuietSound, RunCovers
<1>9. CASE ApplyTasks
  <2>1. /\ phase = "tasks" /\ phase' = "record" /\ scripts' = ScriptsAfter(taskPlan)
        /\ runnable' = runnable
    BY <1>9 DEF ApplyTasks
  <2>2. TasksQuiet(ScriptsAfter(taskPlan), RecordedTasks(taskPlan))
    BY <2>1 DEF QuietSound, RunCovers
  <2>3. (TasksQuiet(scripts, RecordedTasks(taskPlan)))'
    BY <1>1, <1>7, <2>1, <2>2 DEF TasksQuiet, Silent, StillWithheld, Offered, Includes
  <2>4. \A e \in plan' : NeedsExecutableBit(e) => PlaceOf[e.path] \in runnable'
    BY <1>1, <2>1 DEF QuietSound, RunCovers
  <2>. QED
    BY <1>5, <1>6, <2>1, <2>3, <2>4 DEF QuietSound, RunCovers
<1>. QED
  BY <1>8, <1>9

\* Once the manifest is written, nothing is left to do.
LEMMA WriteManifestQuiets ==
  ASSUME TypeOK, OneRecordPerFile, PlanSound, QuietSound, WriteManifest
  PROVE  QuietSound'
<1>1. /\ phase = "record" /\ phase' = "idle" /\ todo = {} /\ manifest' = NextManifest(plan)
      /\ taskRecord' = RecordedTasks(taskPlan)
      /\ UNCHANGED <<kit, config, disk, runnable, scripts>>
  BY DEF WriteManifest, Stop, tree, history, TypeOK
<1>2. /\ Placed' = Placed /\ PlacedPaths' = PlacedPaths /\ Incomplete' = Incomplete
      /\ Retired' = Retired /\ Shipped' = Shipped
      /\ \A a : Target(a)' = Target(a) /\ At(a)' = At(a) /\ Rendered(a)' = Rendered(a)
                /\ Incoming(a)' = Incoming(a) /\ Answered(a)' = Answered(a)
  BY <1>1, PlacementStays
<1>3. \A a : OnDisk(a)' = OnDisk(a)
  BY <1>1, <1>2 DEF OnDisk, WholeHash
<1>4. Covers /\ kit \in Kits /\ config \in Configs
      /\ manifest \in [Paths -> KitHashes \cup {None}]
  BY <1>1 DEF QuietSound, RunCovers, Running, TypeOK, KitHashes
<1>5. Fitting(plan)
  BY <1>4, RunFits
<1>6. ASSUME NEW a \in Placed
      PROVE  \/ (Left(a, manifest))'
             \/ (/\ OnDisk(a) = Incoming(a) /\ manifest[Target(a)] = Incoming(a)
                 /\ a \in Executable => At(a) \in runnable)'
  <2>1. PICK e \in plan : Brings(e, a) /\ Serves(e, a)
    BY <1>4 DEF Covers
  <2>2. manifest'[Target(a)] = IF IsRecorded(e.state) THEN Incoming(a) ELSE Recorded[Target(a)]
    BY <1>1, <1>4, <1>5, <2>1, RecordsAfter
  <2>3. CASE IsRecorded(e.state)
    <3>1. OnDisk(a) = Incoming(a)
      BY <1>1, <2>1, <2>3 DEF Serves
    <3>2. a \in Executable => At(a) \in runnable
      BY <1>1, <2>1, <2>3 DEF Brings, NeedsExecutableBit, QuietSound, RunCovers, At
    <3>. QED
      BY <1>1, <1>2, <1>3, <2>2, <2>3, <3>1, <3>2
  <2>4. CASE ~IsRecorded(e.state)
    <3>1. Left(a, Recorded)
      BY <2>1, <2>4 DEF Serves
    <3>. QED
      BY <1>2, <1>3, <2>2, <2>4, <3>1 DEF Left
  <2>. QED
    BY <2>3, <2>4
<1>7. /\ manifest' \in [Paths -> KitHashes \cup {None}]
      /\ \A p \in PlacedPaths, q \in Paths :
           manifest'[q] # None /\ PlaceOf[p] = PlaceOf[q] => p = q
  <2>1. manifest' \in [Paths -> KitHashes \cup {None}]
    BY WriteManifestSound DEF TypeOK, KitHashes
  <2>2. ASSUME NEW p \in PlacedPaths, NEW q \in Paths, manifest'[q] # None,
               PlaceOf[p] = PlaceOf[q]
        PROVE  p = q
    <3>1. CASE q \in PlacedPaths
      BY <1>4, <2>2, <3>1, PlacedFacts DEF PlacedPaths, At
    <3>2. CASE q \notin PlacedPaths
      <4>1. Recorded[q] # None
        BY <1>1, <1>4, <1>5, <2>2, <3>2, RecordsAfter
      <4>. QED
        BY <1>4, <2>2, <4>1, RecordedFacts
    <3>. QED
      BY <3>1, <3>2
  <2>. QED
    BY <2>1, <2>2
<1>8. Recorded' = manifest'
  <2>1. (/\ manifest \in [Paths -> KitHashes \cup {None}]
         /\ \A p \in PlacedPaths, q \in Paths :
              manifest[q] # None /\ PlaceOf[p] = PlaceOf[q] => p = q
         => Recorded = manifest)'
    BY NothingToRespell, PTL
  <2>. QED
    BY <1>2, <1>7, <2>1 DEF KitHashes
<1>9. Departing' = {}
  <2>1. /\ Declared' = Declared /\ ShippedPaths' = ShippedPaths
    BY <1>2 DEF Declared, ShippedPaths
  <2>2. \A d : StillShipped(d)' = StillShipped(d)
    BY <1>2, <2>1 DEF StillShipped, PlacesOf
  <2>3. SUFFICES ASSUME NEW p \in Departing' PROVE FALSE
    OBVIOUS
  <2>4. /\ p \in Paths /\ manifest'[p] # None /\ ~Incomplete
        /\ p \in Declared \/ p \notin ShippedPaths
        /\ ~StillShipped(PlaceOf[p])
    BY <1>2, <1>8, <2>1, <2>2 DEF Departing
  <2>5. p \notin PlacedPaths
    BY <2>4 DEF StillShipped, PlacesOf
  <2>6. p \notin Departing /\ Recorded[p] # None
    BY <1>1, <1>4, <1>5, <2>4, <2>5, RecordsAfter
  <2>. QED
    BY <2>4, <2>6 DEF Departing
<1>10. (TasksQuiet(scripts, taskRecord))'
  <2>1. TasksQuiet(scripts, RecordedTasks(taskPlan))
    BY <1>1 DEF QuietSound, RunCovers
  <2>. QED
    BY <1>1, <2>1 DEF TasksQuiet, Silent, StillWithheld, Offered, Includes
<1>11. Quiet'
  BY <1>2, <1>6, <1>8, <1>9, <1>10 DEF Quiet
<1>. QED
  BY <1>1, <1>11 DEF QuietSound, RunCovers, Running

\* What the consumer accepts changes nothing of it.
LEMMA QuietStays ==
  ASSUME QuietSound,
         UNCHANGED <<kit, config, disk, runnable, scripts, manifest, taskRecord, plan, taskPlan,
                     todo, phase, settled>>
  PROVE  QuietSound'
<1>1. /\ Placed' = Placed /\ Recorded' = Recorded /\ Departing' = Departing
      /\ \A a : Target(a)' = Target(a) /\ At(a)' = At(a) /\ Rendered(a)' = Rendered(a)
                /\ Incoming(a)' = Incoming(a) /\ Answered(a)' = Answered(a)
  BY PlacementStays, RecordsStay
<1>2. \A a : OnDisk(a)' = OnDisk(a)
  BY <1>1 DEF OnDisk, WholeHash
<1>3. /\ ScriptsAfter(taskPlan)' = ScriptsAfter(taskPlan)
      /\ RecordedTasks(taskPlan)' = RecordedTasks(taskPlan)
  BY DEF ScriptsAfter, RecordedTasks, EntryFor
<1>4. \A commands, recorded : TasksQuiet(commands, recorded)' = TasksQuiet(commands, recorded)
  BY DEF TasksQuiet, Silent, StillWithheld, Offered, Includes
<1>5. Covers => Covers'
  BY <1>1, <1>2 DEF Covers, Brings, Serves, Left
<1>6. (TasksQuiet(scripts, taskRecord) => (TasksQuiet(scripts, taskRecord))')
      /\ (TasksQuiet(scripts, RecordedTasks(taskPlan))
            => (TasksQuiet(scripts, RecordedTasks(taskPlan)))')
      /\ (TasksQuiet(ScriptsAfter(taskPlan), RecordedTasks(taskPlan))
            => (TasksQuiet(ScriptsAfter(taskPlan), RecordedTasks(taskPlan)))')
  BY <1>3 DEF TasksQuiet, Silent, StillWithheld, Offered, Includes
<1>7. Quiet => Quiet'
  BY <1>1, <1>2, <1>6 DEF Quiet, Left
<1>8. RunCovers'
  BY <1>5, <1>6 DEF QuietSound, RunCovers, Running
<1>. QED
  BY <1>7, <1>8 DEF QuietSound

\* Every step keeps what a run covers, and that a run that ended is quiet.
LEMMA NextQuiet ==
  TypeOK /\ OneRecordPerFile /\ PlanSound /\ QuietSound /\ [Next]_vars => QuietSound'
<1>. SUFFICES ASSUME TypeOK, OneRecordPerFile, PlanSound, QuietSound, [Next]_vars
              PROVE  QuietSound'
  OBVIOUS
<1>1. CASE UNCHANGED vars \/ \E a \in Assets : Accept(a)
  <2>1. UNCHANGED <<kit, config, disk, runnable, scripts, manifest, taskRecord, plan, taskPlan,
                    todo, phase, settled>>
    BY <1>1 DEF vars, tree, records, run, Accept
  <2>. QED
    BY <2>1, QuietStays
<1>2. CASE ConsumerStep /\ ~\E a \in Assets : Accept(a)
  <2>1. phase' = "idle" /\ settled' = FALSE
    BY <1>2 DEF ConsumerStep, Upgrade, Configure, Edit, ClearBit, EditScript, LoseManifest,
         Change, run
  <2>. QED
    BY <2>1 DEF QuietSound, RunCovers, Running
<1>3. CASE (\E c \in Configs : RunInit(c)) \/ (\E e \in todo : Throw(e)) \/ Crash
  <2>1. phase' \in {"idle", "init"} /\ settled' = FALSE
    BY <1>3 DEF RunInit, Throw, Crash, Stop, TypeOK
  <2>. QED
    BY <2>1 DEF QuietSound, RunCovers, Running
<1>4. CASE BuildPlan
  BY <1>4, BuildPlanCovers
<1>5. CASE \E e \in todo : ApplyEntry(e)
  BY <1>5, ApplyEntryCovers
<1>6. CASE SetModes \/ ApplyTasks
  BY <1>6, ModesAndTasksCover
<1>7. CASE WriteManifest
  BY <1>7, WriteManifestQuiets
<1>. QED
  BY <1>1, <1>2, <1>3, <1>4, <1>5, <1>6, <1>7 DEF Next, RunStep

\* It holds in every behaviour.
LEMMA QuietHolds == Spec => []QuietSound
<1>1. Init => QuietSound
  BY DEF Init, QuietSound, RunCovers, Running
<1>. QED
  BY <1>1, NextQuiet, Sound, PTL DEF Spec

\* What a second run would find of the files.
LEMMA QuietFiles ==
  ASSUME TypeOK, OneRecordPerFile, Quiet
  PROVE  /\ \A a \in Placed :
              /\ StateOf(a) \notin Written
              /\ IsRecorded(StateOf(a)) =>
                   /\ manifest[Target(a)] = Incoming(a)
                   /\ a \in Executable => At(a) \in runnable
         /\ \A e \in Plan : e.state \notin Written
         /\ NextManifest(Plan) = manifest
<1>1. /\ kit \in Kits /\ config \in Configs /\ disk \in [Places -> Node]
      /\ manifest \in [Paths -> KitHashes \cup {None}]
  BY DEF TypeOK, KitHashes
<1>2. ASSUME NEW a \in Placed
      PROVE  /\ StateOf(a) \notin Written
             /\ IsRecorded(StateOf(a)) =>
                  manifest[Target(a)] = Incoming(a) /\ (a \in Executable => At(a) \in runnable)
  <2> DEFINE state == Classify(Incoming(a), OnDisk(a), Recorded[Target(a)])
  <2>1. CASE Left(a, manifest)
    <3>1. ~Answered(a) \/ state \in Acknowledgeable
      BY <2>1 DEF Left, Quiet
    <3>2. StateOf(a) \in {"unmet", "unresolved", "acknowledged", "conflict", "modified"}
      BY <3>1 DEF StateOf, Answered, Acknowledgeable
    <3>. QED
      BY <3>2 DEF Written, IsRecorded
  <2>2. CASE /\ OnDisk(a) = Incoming(a) /\ manifest[Target(a)] = Incoming(a)
             /\ a \in Executable => At(a) \in runnable
    <3>1. Incoming(a) # None
      <4>1. Incoming(a) \in KitHashes
        BY <1>1, PlacedFacts, RenderedType DEF Incoming, KitHashes
      <4>. QED
        BY <4>1, NoneApart
    <3>2. state = "current"
      BY <2>2, <3>1 DEF Classify, Quiet
    <3>3. StateOf(a) \in {"unmet", "unresolved", "current"}
      BY <3>2 DEF StateOf, Acknowledgeable
    <3>. QED
      BY <2>2, <3>3 DEF Written, IsRecorded
  <2>. QED
    BY <2>1, <2>2 DEF Quiet
<1>3. \A e \in Plan : \E a \in Placed : e = PlacedEntry(a)
  BY DEF Plan, Quiet
<1>4. ASSUME NEW e \in Plan
      PROVE  /\ e.state \notin Written /\ ~IsRetirement(e)
             /\ IsRecorded(e.state) =>
                  e.path \in Paths /\ manifest[e.path] = [content |-> e.content, region |-> None]
  <2>1. PICK a \in Placed : e = PlacedEntry(a)
    BY <1>3
  <2>2. e.state = StateOf(a) /\ e.path = Target(a) /\ e.content = Rendered(a)
    BY <2>1 DEF PlacedEntry
  <2>3. ~IsRetirement(e)
    BY <1>1, <2>1, PlanTyped
  <2>. QED
    BY <1>1, <1>2, <2>2, <2>3, PlacedFacts DEF Incoming
<1>5. ASSUME NEW p \in Paths PROVE NextManifest(Plan)[p] = manifest[p]
  <2>1. ~\E e \in Plan : e.path = p /\ IsRetirement(e)
    BY <1>4
  <2>2. CASE \E e \in Plan : e.path = p /\ IsRecorded(e.state)
    <3> DEFINE chosen == CHOOSE e \in Plan : e.path = p /\ IsRecorded(e.state)
    <3>1. chosen \in Plan /\ chosen.path = p /\ IsRecorded(chosen.state)
      BY <2>2
    <3>2. NextManifest(Plan)[p] = [content |-> chosen.content, region |-> None]
      BY <2>1, <2>2 DEF NextManifest
    <3>. QED
      BY <1>4, <3>1, <3>2
  <2>3. CASE ~\E e \in Plan : e.path = p /\ IsRecorded(e.state)
    BY <2>1, <2>3 DEF NextManifest, Quiet
  <2>. QED
    BY <2>2, <2>3
<1>6. NextManifest(Plan) = manifest
  BY <1>1, <1>5 DEF NextManifest
<1>. QED
  BY <1>2, <1>4, <1>6

\* A second run writes no file and no task, and leaves the manifest as it is.
THEOREM SecondRunQuiet == Spec => []SecondRunIsQuiet
<1>1. TypeOK /\ OneRecordPerFile /\ QuietSound => SecondRunIsQuiet
  <2>. SUFFICES ASSUME TypeOK, OneRecordPerFile, QuietSound, settled
                PROVE  /\ \A e \in Plan : e.state \notin Written
                       /\ NextManifest(Plan) = manifest
                       /\ \A e \in TaskPlan(FALSE) : e.state \notin TaskWritten
                       /\ RecordedTasks(TaskPlan(FALSE)) = taskRecord
    BY DEF SecondRunIsQuiet
  <2>1. Quiet
    BY DEF QuietSound
  <2>2. kit \in Kits /\ taskRecord \in [Tasks -> KitCommands \cup {None}]
    BY DEF TypeOK
  <2>. QED
    BY <2>1, <2>2, QuietFiles, QuietTaskRun DEF Quiet
<1>. QED
  BY <1>1, QuietHolds, Sound, PTL

\* A hook the kit vouches for can be run after every run that ended.
THEOREM HooksRun == Spec => []ModesHold
<1>1. TypeOK /\ OneRecordPerFile /\ QuietSound => ModesHold
  <2>. SUFFICES ASSUME TypeOK, OneRecordPerFile, QuietSound, settled, NEW a \in Placed,
                       a \in Executable, StateOf(a) = "current"
                PROVE  At(a) \in runnable
    BY DEF ModesHold
  <2>. QED
    BY QuietFiles DEF QuietSound, IsRecorded
<1>. QED
  BY <1>1, QuietHolds, Sound, PTL

-----------------------------------------------------------------------------
(* Files no consumer touched *)

\* A place holds what is recorded of it, and nothing where nothing is.
Clean(node, d, recorded) ==
  \/ node = Absent /\ \A p \in Paths : PlaceOf[p] = d => recorded[p] = None
  \/ \E p \in Paths : /\ PlaceOf[p] = d /\ recorded[p] # None
                      /\ node = FileOf(recorded[p].content, None)

\* Follows, of any node.
NodeFollows(node, d) ==
  /\ \A a \in Placed : At(a) = d /\ Answered(a) => node = FileOf(Rendered(a), None)
  /\ ~Incomplete /\ (\A a \in Shipped \ Retired : At(a) # d) => node = Absent

WritesAt(e, d) == PlaceOf[e.path] = d /\ e.state \in Written

NodeAfter(e) == IF e.state = "retired" THEN Absent ELSE FileOf(e.content, e.region)

\* What a place should hold when a run with these entries has ended.
Ends(node, d, entries) == Clean(node, d, NextManifest(entries)) /\ NodeFollows(node, d)

\* Until an entry writes a place, it is as recorded; once none will, it is as
\* the run ends.
PlaceSound(d) ==
  /\ (\A e \in plan \ todo : ~WritesAt(e, d)) => Clean(disk[d], d, manifest)
  /\ Running =>
       /\ (\A e \in todo : ~WritesAt(e, d)) => Ends(disk[d], d, plan)
       /\ \A e \in plan : WritesAt(e, d) => Ends(NodeAfter(e), d, plan)
  /\ settled => NodeFollows(disk[d], d)

PlacesSound == \A d \in Places \ (edited \cup cut) : PlaceSound(d)

\* A place that is as recorded is so under the present spellings.
LEMMA CleanRespelled ==
  ASSUME kit \in Kits, config \in Configs, OneRecordPerFile,
         manifest \in [Paths -> KitHashes \cup {None}],
         NEW node, NEW d, Clean(node, d, manifest)
  PROVE  Clean(node, d, Recorded)
<1>1. \A p, q \in PlacedPaths : PlaceOf[p] = PlaceOf[q] => p = q
  BY PlacedFacts DEF PlacedPaths, At
<1>2. PlacedPaths \subseteq Paths
  BY PlacedFacts DEF PlacedPaths
<1>3. CASE node = Absent /\ \A p \in Paths : PlaceOf[p] = d => manifest[p] = None
  <2>1. ASSUME NEW p \in Paths, PlaceOf[p] = d PROVE Recorded[p] = None
    <3>1. Aliases(p) = {}
      BY <1>3, <2>1 DEF Aliases
    <3>. QED
      BY <1>3, <2>1, <3>1 DEF Recorded
  <2>. QED
    BY <1>3, <2>1 DEF Clean
<1>4. CASE \E p \in Paths : /\ PlaceOf[p] = d /\ manifest[p] # None
                            /\ node = FileOf(manifest[p].content, None)
  <2>1. PICK p \in Paths : /\ PlaceOf[p] = d /\ manifest[p] # None
                           /\ node = FileOf(manifest[p].content, None)
    BY <1>4
  <2>2. CASE \E q \in PlacedPaths : PlaceOf[q] = d
    <3>1. PICK q \in PlacedPaths : PlaceOf[q] = d
      BY <2>2
    <3>2. q = p => q \notin Aliased
      BY <1>1, <1>2, <3>1 DEF Aliased, Aliases
    <3>3. q # p => manifest[q] = None /\ Aliases(q) = {p}
      BY <1>2, <2>1, <3>1 DEF OneRecordPerFile, Aliases
    <3>4. Recorded[q] = manifest[p]
      <4>1. CASE q = p
        BY <2>1, <3>2, <4>1 DEF Recorded
      <4>2. CASE q # p
        <5>1. (CHOOSE r \in Aliases(q) : TRUE) = p /\ Aliases(q) # {}
          BY <3>3, <4>2
        <5>. QED
          BY <1>2, <3>1, <3>3, <4>2, <5>1 DEF Recorded
      <4>. QED
        BY <4>1, <4>2
    <3>. QED
      BY <1>2, <2>1, <3>1, <3>4 DEF Clean
  <2>3. CASE ~\E q \in PlacedPaths : PlaceOf[q] = d
    <3>1. p \notin PlacedPaths /\ p \notin Aliased
      BY <2>1, <2>3 DEF Aliased, Aliases
    <3>2. Recorded[p] = manifest[p]
      BY <3>1 DEF Recorded
    <3>. QED
      BY <2>1, <3>2 DEF Clean
  <2>. QED
    BY <2>2, <2>3
<1>. QED
  BY <1>3, <1>4 DEF Clean

\* A clean place of a placed asset has its one record, and is never in
\* conflict or modified.
LEMMA CleanPlaced ==
  ASSUME kit \in Kits, config \in Configs, OneRecordPerFile, disk \in [Places -> Node],
         manifest \in [Paths -> KitHashes \cup {None}],
         NEW a \in Placed, Clean(disk[At(a)], At(a), Recorded)
  PROVE  /\ RegionAt(a) = None
         /\ Answered(a) => IsRecorded(StateOf(a))
         /\ Answered(a) /\ StateOf(a) \notin Written => disk[At(a)] = FileOf(Rendered(a), None)
         /\ ~Answered(a) => StateOf(a) \in {"unmet", "unresolved"}
<1> DEFINE rec == Recorded[Target(a)]
           node == disk[At(a)]
<1>1. a \in Assets /\ a \in Shipped /\ Target(a) \in Paths /\ PlaceOf[Target(a)] = At(a)
  BY PlacedFacts DEF At
<1>2. \A p \in Paths : PlaceOf[p] = At(a) /\ Recorded[p] # None => p = Target(a)
  BY <1>1, RecordedFacts DEF PlacedPaths
<1>3. rec \in KitHashes \cup {None}
  BY <1>1, RecordedFacts
<1>4. \/ node = Absent /\ rec = None
      \/ rec # None /\ node = FileOf(rec.content, None)
  BY <1>1, <1>2 DEF Clean
<1>5. node.region = None
  BY <1>4 DEF Absent, FileOf
<1>6. OnDisk(a) = rec
  <2>1. CASE node = Absent /\ rec = None
    BY <2>1 DEF OnDisk, WholeHash, Absent
  <2>2. CASE rec # None /\ node = FileOf(rec.content, None)
    <3>1. rec = [content |-> rec.content, region |-> None]
      BY <1>3, <2>2 DEF KitHashes
    <3>2. OnDisk(a) = [content |-> rec.content, region |-> None]
      BY <2>2 DEF OnDisk, WholeHash, FileOf
    <3>. QED
      BY <3>1, <3>2
  <2>. QED
    BY <1>4, <2>1, <2>2
<1>7. Incoming(a) # None
  <2>1. Incoming(a) \in KitHashes
    BY <1>1, RenderedType DEF Incoming, KitHashes
  <2>. QED
    BY <2>1, NoneApart
<1> DEFINE state == Classify(Incoming(a), OnDisk(a), rec)
<1>8. state \in {"added", "current", "updated"}
  BY <1>6 DEF Classify
<1>9. Answered(a) => StateOf(a) = state
  BY <1>8 DEF StateOf, Answered, Acknowledgeable
<1>10. ASSUME state = "current" PROVE node = FileOf(Rendered(a), None)
  <2>1. rec = Incoming(a)
    BY <1>6, <1>7, <1>10, ClassifyRange
  <2>. QED
    BY <1>4, <1>7, <2>1 DEF Incoming
<1>11. ~Answered(a) => StateOf(a) \in {"unmet", "unresolved"}
  BY DEF StateOf, Answered
<1>. QED
  BY <1>5, <1>8, <1>9, <1>10, <1>11 DEF RegionAt, IsRecorded, Written

\* At the place of a placed asset, a new plan ends with the asset or leaves
\* the place as it is.
LEMMA PlacedEnds ==
  ASSUME kit \in Kits, config \in Configs, OneRecordPerFile, disk \in [Places -> Node],
         manifest \in [Paths -> KitHashes \cup {None}],
         NEW a \in Placed, Clean(disk[At(a)], At(a), Recorded)
  PROVE  /\ (\A e \in Plan : ~WritesAt(e, At(a))) => Ends(disk[At(a)], At(a), Plan)
         /\ \A e \in Plan : WritesAt(e, At(a)) => Ends(NodeAfter(e), At(a), Plan)
<1> DEFINE d == At(a)
           next == NextManifest(Plan)
           file == FileOf(Rendered(a), None)
<1>1. /\ a \in Shipped \ Retired /\ Target(a) \in Paths /\ PlaceOf[Target(a)] = d
      /\ Target(a) \in PlacedPaths /\ \A b \in Placed : At(b) = d => b = a
  BY PlacedFacts DEF At, Placed, Candidates, PlacedPaths
<1>2. Fitting(Plan) /\ PlacedEntry(a) \in Plan /\ Brings(PlacedEntry(a), a)
  BY PlanFits, PlacedEntryServes DEF Plan
<1>3. next[Target(a)] = IF IsRecorded(StateOf(a)) THEN Incoming(a) ELSE Recorded[Target(a)]
  BY <1>2, RecordsAfter DEF PlacedEntry
<1>4. ASSUME NEW p \in Paths, PlaceOf[p] = d, p # Target(a)
      PROVE  next[p] = None /\ Recorded[p] = None
  <2>1. p \notin PlacedPaths
    BY <1>1, <1>4 DEF PlacedPaths, At
  <2>2. Recorded[p] = None
    BY <1>1, <1>4, RecordedFacts
  <2>. QED
    BY <1>2, <2>1, <2>2, RecordsAfter
<1>5. /\ RegionAt(a) = None
      /\ Answered(a) => IsRecorded(StateOf(a))
      /\ Answered(a) /\ StateOf(a) \notin Written => disk[d] = file
      /\ ~Answered(a) => StateOf(a) \in {"unmet", "unresolved"}
  BY CleanPlaced
<1>6. ASSUME Answered(a) PROVE Ends(file, d, Plan)
  <2>1. next[Target(a)] = Incoming(a) /\ Incoming(a) # None
    <3>1. Incoming(a) \in KitHashes
      BY <1>1, RenderedType DEF Incoming, KitHashes
    <3>. QED
      BY <1>3, <1>5, <1>6, <3>1, NoneApart
  <2>2. Clean(file, d, next)
    BY <1>1, <2>1 DEF Clean, Incoming
  <2>3. NodeFollows(file, d)
    BY <1>1 DEF NodeFollows
  <2>. QED
    BY <2>2, <2>3 DEF Ends
<1>7. ASSUME \A e \in Plan : ~WritesAt(e, d) PROVE Ends(disk[d], d, Plan)
  <2>1. StateOf(a) \notin Written
    BY <1>1, <1>2, <1>7 DEF WritesAt, PlacedEntry
  <2>2. CASE Answered(a)
    BY <1>5, <1>6, <2>1, <2>2
  <2>3. CASE ~Answered(a)
    <3>1. next[Target(a)] = Recorded[Target(a)]
      BY <1>3, <1>5, <2>3 DEF IsRecorded
    <3>2. \A p \in Paths : PlaceOf[p] = d => next[p] = Recorded[p]
      BY <1>4, <3>1
    <3>3. Clean(disk[d], d, next)
      BY <3>2 DEF Clean
    <3>4. NodeFollows(disk[d], d)
      BY <1>1, <2>3 DEF NodeFollows
    <3>. QED
      BY <3>3, <3>4 DEF Ends
  <2>. QED
    BY <2>2, <2>3
<1>8. ASSUME NEW e \in Plan, WritesAt(e, d) PROVE Ends(NodeAfter(e), d, Plan)
  <2>1. e = PlacedEntry(a)
    BY <1>1, <1>2, <1>8 DEF Fitting, Brings, WritesAt
  <2>2. StateOf(a) \in Written /\ StateOf(a) # "retired"
    BY <1>8, <2>1, StateOfRange DEF WritesAt, PlacedEntry
  <2>3. Answered(a)
    BY <1>5, <2>2 DEF Written
  <2>4. NodeAfter(e) = file
    BY <1>5, <2>1, <2>2 DEF NodeAfter, PlacedEntry
  <2>. QED
    BY <1>6, <2>3, <2>4
<1>. QED
  BY <1>7, <1>8

\* At any other place, a new plan removes what departs and leaves the rest.
LEMMA UnplacedEnds ==
  ASSUME kit \in Kits, config \in Configs, OneRecordPerFile, disk \in [Places -> Node],
         manifest \in [Paths -> KitHashes \cup {None}],
         NEW d \in Places, \A a \in Placed : At(a) # d, Clean(disk[d], d, Recorded)
  PROVE  /\ (\A e \in Plan : ~WritesAt(e, d)) => Ends(disk[d], d, Plan)
         /\ \A e \in Plan : WritesAt(e, d) => Ends(NodeAfter(e), d, Plan)
<1> DEFINE next == NextManifest(Plan)
<1>1. Fitting(Plan) /\ \A p \in Paths : PlaceOf[p] = d => p \notin PlacedPaths
  BY PlanFits DEF PlacedPaths, At
<1>2. \A p \in Paths : PlaceOf[p] = d =>
        next[p] = IF p \in Departing THEN None ELSE Recorded[p]
  BY <1>1, RecordsAfter
<1>3. ASSUME NEW e \in Plan, PlaceOf[e.path] = d
      PROVE  e.path \in Departing /\ \E p \in Departing : e = RetiredEntry(p) /\ p = e.path
  <2>1. ~\E a \in Placed : e = PlacedEntry(a)
    BY <1>3 DEF PlacedEntry, At
  <2>2. PICK p \in Departing : e = RetiredEntry(p)
    BY <2>1 DEF Plan
  <2>. QED
    BY <2>2 DEF RetiredEntry
<1>4. CASE \E p \in Departing : PlaceOf[p] = d
  <2>1. PICK p \in Departing : PlaceOf[p] = d
    BY <1>4
  <2>2. p \in Paths /\ Recorded[p] \in KitHashes /\ Recorded[p] # None
    BY RecordedFacts DEF Departing
  <2>3. \A q \in Paths : PlaceOf[q] = d /\ Recorded[q] # None => q = p
    BY <2>1, <2>2, RecordedFacts
  <2>4. disk[d] = FileOf(Recorded[p].content, None)
    BY <2>1, <2>2, <2>3 DEF Clean
  <2>5. WholeHash(disk[d]) = Recorded[p]
    BY <2>2, <2>4 DEF WholeHash, FileOf, KitHashes
  <2>6. RetiredEntry(p) \in Plan /\ WritesAt(RetiredEntry(p), d)
    BY <2>1, <2>5 DEF Plan, RetiredEntry, RetirementState, WritesAt, Written
  <2>7. Ends(Absent, d, Plan)
    <3>1. \A q \in Paths : PlaceOf[q] = d => next[q] = None
      BY <1>2, <2>3
    <3>. QED
      BY <3>1 DEF Ends, Clean, NodeFollows
  <2>8. ASSUME NEW e \in Plan, WritesAt(e, d) PROVE NodeAfter(e) = Absent
    <3>1. PICK q \in Departing : e = RetiredEntry(q)
      BY <1>3, <2>8 DEF WritesAt
    <3>2. e.state \in {"retired", "kept"} /\ e.state \in Written
      BY <2>8, <3>1 DEF RetiredEntry, RetirementState, WritesAt
    <3>. QED
      BY <3>2 DEF Written, NodeAfter
  <2>. QED
    BY <2>6, <2>7, <2>8
<1>5. CASE ~\E p \in Departing : PlaceOf[p] = d
  <2>1. \A e \in Plan : ~WritesAt(e, d)
    BY <1>3, <1>5 DEF WritesAt
  <2>2. Clean(disk[d], d, next)
    <3>1. \A p \in Paths : PlaceOf[p] = d => next[p] = Recorded[p]
      BY <1>2, <1>5
    <3>. QED
      BY <3>1 DEF Clean
  <2>3. ASSUME ~Incomplete, \A a \in Shipped \ Retired : At(a) # d
        PROVE  disk[d] = Absent
    <3>1. SUFFICES ASSUME NEW p \in Paths, PlaceOf[p] = d, Recorded[p] # None PROVE FALSE
      BY DEF Clean
    <3>2. p \in Declared \/ p \notin ShippedPaths
      BY <2>3, <3>1 DEF Declared, ShippedPaths, At
    <3>3. d \notin PlacesOf(PlacedPaths)
      BY DEF PlacesOf, PlacedPaths, At
    <3>4. d \in PlacesOf(ShippedPaths) => d \in PlacesOf(Declared)
      BY <2>3 DEF PlacesOf, ShippedPaths, Declared, At
    <3>5. p \in Departing
      BY <2>3, <3>1, <3>2, <3>3, <3>4 DEF Departing, StillShipped
    <3>. QED
      BY <1>5, <3>1, <3>5
  <2>4. NodeFollows(disk[d], d)
    BY <2>3 DEF NodeFollows
  <2>. QED
    BY <2>1, <2>2, <2>4 DEF Ends
<1>. QED
  BY <1>4, <1>5

\* What a place should hold depends on the version, the configuration, the
\* records and the plan.
LEMMA FollowingStays ==
  ASSUME kit' = kit, config' = config
  PROVE  \A node, d : NodeFollows(node, d)' = NodeFollows(node, d)
  BY PlacementStays DEF NodeFollows

\* Outside a run only the records and the tree count.
LEMMA PlacesRest ==
  ASSUME PlacesSound, UNCHANGED <<disk, manifest, plan, todo>>, ~Running', settled' = FALSE,
         edited \cup cut \subseteq edited' \cup cut'
  PROVE  PlacesSound'
  BY DEF PlacesSound, PlaceSound, WritesAt, Clean

\* Nor do steps that write no file change where a run ends.
LEMMA PlacesStay ==
  ASSUME PlacesSound, UNCHANGED <<kit, config, disk, manifest, plan, todo>>,
         Running' => Running, settled' => settled,
         edited \cup cut \subseteq edited' \cup cut'
  PROVE  PlacesSound'
<1>1. /\ \A node, d : NodeFollows(node, d)' = NodeFollows(node, d)
      /\ NextManifest(plan)' = NextManifest(plan)
  BY FollowingStays, RecordsStay DEF NextManifest
<1>. SUFFICES ASSUME NEW d \in Places, d \notin (edited \cup cut)' PROVE PlaceSound(d)'
  BY DEF PlacesSound
<1>2. PlaceSound(d)
  BY DEF PlacesSound
<1>. QED
  BY <1>1, <1>2 DEF PlaceSound, WritesAt, Ends, Clean, NodeFollows, NodeAfter

\* A new plan ends with every untouched place following the version.
LEMMA BuildPlanEnds ==
  ASSUME TypeOK, OneRecordPerFile, PlacesSound, BuildPlan
  PROVE  PlacesSound'
<1>1. /\ kit \in Kits /\ config \in Configs /\ disk \in [Places -> Node]
      /\ manifest \in [Paths -> KitHashes \cup {None}] /\ plan = {}
  BY DEF BuildPlan, TypeOK, KitHashes
<1>2. /\ plan' = Plan /\ todo' = Plan /\ settled' = FALSE
      /\ UNCHANGED <<kit, config, disk, manifest, edited, cut>>
  BY DEF BuildPlan, tree, records, history
<1>3. \A node, d : NodeFollows(node, d)' = NodeFollows(node, d)
  BY <1>2, FollowingStays
<1>4. NextManifest(plan)' = NextManifest(Plan)
  BY <1>2, RecordsStay DEF NextManifest
<1>. SUFFICES ASSUME NEW d \in Places \ (edited \cup cut) PROVE PlaceSound(d)'
  BY <1>2 DEF PlacesSound
<1>5. Clean(disk[d], d, manifest)
  BY <1>1 DEF PlacesSound, PlaceSound
<1>6. Clean(disk[d], d, Recorded)
  BY <1>1, <1>5, CleanRespelled
<1>7. /\ (\A e \in Plan : ~WritesAt(e, d)) => Ends(disk[d], d, Plan)
      /\ \A e \in Plan : WritesAt(e, d) => Ends(NodeAfter(e), d, Plan)
  <2>1. CASE \E a \in Placed : At(a) = d
    BY <1>1, <1>6, <2>1, PlacedEnds
  <2>2. CASE \A a \in Placed : At(a) # d
    BY <1>1, <1>6, <2>2, UnplacedEnds
  <2>. QED
    BY <2>1, <2>2
<1>8. Clean(disk[d], d, manifest)'
  BY <1>2, <1>5 DEF Clean
<1>9. (\A e \in todo : ~WritesAt(e, d))' => (Ends(disk[d], d, plan))'
  BY <1>2, <1>3, <1>4, <1>7 DEF WritesAt, Ends, Clean
<1>10. (\A e \in plan : WritesAt(e, d) => Ends(NodeAfter(e), d, plan))'
  BY <1>2, <1>3, <1>4, <1>7 DEF WritesAt, NodeAfter, Ends, Clean
<1>. QED
  BY <1>2, <1>8, <1>9, <1>10 DEF PlaceSound

\* A turn of the loop ends the place it writes.
LEMMA ApplyEntryEnds ==
  ASSUME TypeOK, PlacesSound, NEW e \in todo, ApplyEntry(e)
  PROVE  PlacesSound'
<1> DEFINE place == PlaceOf[e.path]
<1>1. /\ todo' = todo \ {e} /\ phase = "files"
      /\ UNCHANGED <<kit, config, manifest, phase, plan, settled, edited, cut>>
  BY DEF ApplyEntry, records, history
<1>2. e \in plan /\ place \in Places /\ disk \in [Places -> Node] /\ ~settled
  BY <1>1, PlanPlaces DEF TypeOK
<1>3. /\ \A node, d : NodeFollows(node, d)' = NodeFollows(node, d)
      /\ NextManifest(plan)' = NextManifest(plan)
  BY <1>1, FollowingStays, RecordsStay DEF NextManifest
<1>. SUFFICES ASSUME NEW d \in Places \ (edited \cup cut) PROVE PlaceSound(d)'
  BY <1>1 DEF PlacesSound
<1>4. PlaceSound(d)
  BY DEF PlacesSound
<1>5. \A f \in plan : WritesAt(f, d) => Ends(NodeAfter(f), d, plan)
  BY <1>1, <1>4 DEF PlaceSound, Running
<1>6. (\A f \in plan : WritesAt(f, d) => Ends(NodeAfter(f), d, plan))'
  BY <1>1, <1>3, <1>5 DEF WritesAt, NodeAfter, Ends, Clean
<1>7. CASE WritesAt(e, d)
  <2>1. disk'[d] = NodeAfter(e)
    BY <1>2, <1>7 DEF ApplyEntry, WritesAt, NodeAfter, Written
  <2>2. Ends(disk'[d], d, plan)
    BY <1>2, <1>5, <1>7, <2>1
  <2>3. (Ends(disk[d], d, plan))'
    BY <1>1, <1>3, <2>2 DEF Ends, Clean
  <2>4. ~(\A f \in plan \ todo : ~WritesAt(f, d))'
    BY <1>1, <1>2, <1>7 DEF WritesAt
  <2>. QED
    BY <1>1, <1>2, <1>6, <2>3, <2>4 DEF PlaceSound
<1>8. CASE ~WritesAt(e, d)
  <2>1. disk'[d] = disk[d]
    BY <1>2, <1>8 DEF ApplyEntry, WritesAt, Written
  <2>2. (\A f \in plan \ todo : ~WritesAt(f, d))' => Clean(disk[d], d, manifest)
    BY <1>1, <1>4 DEF PlaceSound, WritesAt
  <2>3. (\A f \in todo : ~WritesAt(f, d))' => Ends(disk[d], d, plan)
    BY <1>1, <1>4, <1>8 DEF PlaceSound, WritesAt, Running
  <2>4. (\A f \in plan \ todo : ~WritesAt(f, d))' => (Clean(disk[d], d, manifest))'
    BY <1>1, <2>1, <2>2 DEF Clean
  <2>5. (\A f \in todo : ~WritesAt(f, d))' => (Ends(disk[d], d, plan))'
    BY <1>1, <1>3, <2>1, <2>3 DEF Ends, Clean
  <2>. QED
    BY <1>1, <1>2, <1>6, <2>4, <2>5 DEF PlaceSound
<1>. QED
  BY <1>7, <1>8

\* Once the manifest is written, every untouched place follows.
LEMMA WriteManifestEnds ==
  ASSUME TypeOK, PlacesSound, WriteManifest
  PROVE  PlacesSound'
<1>1. /\ phase = "record" /\ phase' = "idle" /\ todo = {} /\ manifest' = NextManifest(plan)
      /\ UNCHANGED <<kit, config, disk, edited, cut>>
  BY DEF WriteManifest, Stop, tree, history, TypeOK
<1>2. \A node, d : NodeFollows(node, d)' = NodeFollows(node, d)
  BY <1>1, FollowingStays
<1>. SUFFICES ASSUME NEW d \in Places \ (edited \cup cut) PROVE PlaceSound(d)'
  BY <1>1 DEF PlacesSound
<1>3. Clean(disk[d], d, NextManifest(plan)) /\ NodeFollows(disk[d], d)
  BY <1>1 DEF PlacesSound, PlaceSound, Running, Ends
<1>4. (Clean(disk[d], d, manifest))'
  BY <1>1, <1>3 DEF Clean
<1>5. (NodeFollows(disk[d], d))'
  BY <1>1, <1>2, <1>3 DEF NodeFollows
<1>. QED
  BY <1>1, <1>4, <1>5 DEF PlaceSound, Running

\* A run that is cut off leaves behind what it had written.
LEMMA StopLeaves ==
  ASSUME TypeOK, PlacesSound, (\E e \in todo : Throw(e)) \/ Crash
  PROVE  PlacesSound'
<1>1. /\ phase' = "idle" /\ plan' = {} /\ todo' = {} /\ settled' = FALSE
      /\ cut' = cut \cup Unrecorded
      /\ UNCHANGED <<disk, manifest, edited>>
  BY DEF Throw, Crash, Stop, tree, records, TypeOK
<1>. SUFFICES ASSUME NEW d \in Places \ (edited \cup cut \cup Unrecorded) PROVE PlaceSound(d)'
  BY <1>1 DEF PlacesSound
<1>2. \A e \in plan \ todo : ~WritesAt(e, d)
  BY DEF Unrecorded, WritesAt
<1>3. Clean(disk[d], d, manifest)
  BY <1>2 DEF PlacesSound, PlaceSound
<1>. QED
  BY <1>1, <1>3 DEF PlaceSound, Running, Clean

\* What a consumer changes is no longer untouched.
LEMMA ConsumerPlaces ==
  ASSUME TypeOK, PlacesSound, ConsumerStep
  PROVE  PlacesSound'
<1>1. CASE \/ \E k \in Kits : Upgrade(k)
           \/ \E c \in Configs : Configure(c)
           \/ \E d \in Places : ClearBit(d)
           \/ \E t \in Tasks, command \in KitCommands \cup OwnCommands \cup {None} :
                EditScript(t, command)
  <2>1. /\ UNCHANGED <<disk, manifest, plan, todo>> /\ settled' = FALSE
        /\ phase' = "idle" /\ edited \cup cut \subseteq edited' \cup cut'
    BY <1>1 DEF Upgrade, Configure, ClearBit, EditScript, Change, tree, records, run
  <2>. QED
    BY <2>1, PlacesRest DEF Running
<1>2. CASE \E d \in Places, node \in ConsumerNodes : Edit(d, node)
  <2>1. PICK d \in Places, node \in ConsumerNodes : Edit(d, node)
    BY <1>2
  <2>2. /\ disk' = [disk EXCEPT ![d] = node] /\ edited' = edited \cup {d} /\ settled' = FALSE
        /\ phase' = "idle" /\ UNCHANGED <<manifest, plan, todo, cut>>
    BY <2>1 DEF Edit, Change, records, run
  <2>3. \A c \in Places \ {d} : disk'[c] = disk[c]
    BY <2>2 DEF TypeOK
  <2>. QED
    BY <2>2, <2>3 DEF PlacesSound, PlaceSound, Running, WritesAt, Clean
<1>3. CASE \E a \in Assets : Accept(a)
  <2>1. /\ UNCHANGED <<kit, config, disk, manifest, plan, todo, phase, settled, edited, cut>>
    BY <1>3 DEF Accept, tree, run
  <2>. QED
    BY <2>1, PlacesStay DEF Running
<1>4. CASE LoseManifest
  BY <1>4 DEF LoseManifest, PlacesSound
<1>. QED
  BY <1>1, <1>2, <1>3, <1>4 DEF ConsumerStep

\* In every state untouched places are as recorded, or as the run will leave them.
LEMMA PlacesHold == Spec => []PlacesSound
<1>1. Init => PlacesSound
  BY DEF Init, PlacesSound, PlaceSound, Running, Clean
<1>2. TypeOK /\ OneRecordPerFile /\ PlacesSound /\ [Next]_vars => PlacesSound'
  <2>. SUFFICES ASSUME TypeOK, OneRecordPerFile, PlacesSound, [Next]_vars PROVE PlacesSound'
    OBVIOUS
  <2>1. CASE UNCHANGED vars \/ SetModes \/ ApplyTasks
    <3>1. /\ UNCHANGED <<kit, config, disk, manifest, plan, todo, settled, edited, cut>>
          /\ Running' => Running
      BY <2>1 DEF vars, tree, records, run, history, SetModes, ApplyTasks, Running
    <3>. QED
      BY <3>1, PlacesStay
  <2>2. CASE \E c \in Configs : RunInit(c)
    <3>1. /\ UNCHANGED <<disk, manifest, plan, todo, edited, cut>>
          /\ ~Running' /\ settled' = FALSE
      BY <2>2 DEF RunInit, tree, records, Running
    <3>. QED
      BY <3>1, PlacesRest
  <2>. QED
    BY <2>1, <2>2, BuildPlanEnds, ApplyEntryEnds, WriteManifestEnds, StopLeaves,
       ConsumerPlaces DEF Next, RunStep
<1>. QED
  BY <1>1, <1>2, Typing, RecordsApart, PTL DEF Spec

\* A file no consumer touched is the installed version's after every run that
\* ended, whatever versions, rungs and spellings it went through.
THEOREM UntouchedFollowed == Spec => []UntouchedFollows
<1>1. TypeOK /\ PlacesSound => UntouchedFollows
  <2>. SUFFICES ASSUME TypeOK, PlacesSound, settled, NEW d \in Places \ (edited \cup cut)
                PROVE  Follows(d)
    BY DEF UntouchedFollows
  <2>1. NodeFollows(disk[d], d)
    BY DEF PlacesSound, PlaceSound
  <2>2. \A a : StateOf(a) \notin {"unmet", "unresolved"} => Answered(a)
    BY DEF StateOf, Answered
  <2>. QED
    BY <2>1, <2>2 DEF Follows, NodeFollows
<1>. QED
  BY <1>1, PlacesHold, Typing, PTL

-----------------------------------------------------------------------------
(* What a plan leaves alone *)

LeftAlone == Acknowledgeable \cup {"acknowledged", "kept"}

\* Nothing is left alone at a place that is as recorded.
LEMMA CleanIsPlanned ==
  ASSUME kit \in Kits, config \in Configs, OneRecordPerFile, disk \in [Places -> Node],
         manifest \in [Paths -> KitHashes \cup {None}],
         NEW e \in Plan, Clean(disk[PlaceOf[e.path]], PlaceOf[e.path], manifest)
  PROVE  e.state \notin LeftAlone
<1>1. Clean(disk[PlaceOf[e.path]], PlaceOf[e.path], Recorded)
  BY CleanRespelled
<1>2. CASE \E a \in Placed : e = PlacedEntry(a)
  <2>1. PICK a \in Placed : e = PlacedEntry(a)
    BY <1>2
  <2>2. e.state = StateOf(a) /\ PlaceOf[e.path] = At(a)
    BY <2>1 DEF PlacedEntry, At
  <2>3. IsRecorded(StateOf(a)) \/ StateOf(a) \in {"unmet", "unresolved"}
    BY <1>1, <2>2, CleanPlaced
  <2>. QED
    BY <2>2, <2>3 DEF LeftAlone, Acknowledgeable, IsRecorded
<1>3. CASE \E p \in Departing : e = RetiredEntry(p)
  <2>1. PICK p \in Departing : e = RetiredEntry(p)
    BY <1>3
  <2>2. e.path = p /\ e.state = RetirementState(p)
    BY <2>1 DEF RetiredEntry
  <2>3. p \in Paths /\ Recorded[p] \in KitHashes /\ Recorded[p] # None
    BY RecordedFacts DEF Departing
  <2>4. \A q \in Paths : PlaceOf[q] = PlaceOf[p] /\ Recorded[q] # None => q = p
    BY <2>3, RecordedFacts
  <2>5. disk[PlaceOf[p]] = FileOf(Recorded[p].content, None)
    BY <1>1, <2>2, <2>3, <2>4 DEF Clean
  <2>6. WholeHash(disk[PlaceOf[p]]) = Recorded[p]
    BY <2>3, <2>5 DEF WholeHash, FileOf, KitHashes
  <2>. QED
    BY <2>2, <2>6 DEF RetirementState, LeftAlone, Acknowledgeable
<1>. QED
  BY <1>2, <1>3 DEF Plan

\* Nor is a task that is recorded, absent or just created.
LEMMA SoundTaskIsPlanned ==
  ASSUME kit \in Kits, NEW establish \in BOOLEAN, NEW e \in TaskPlan(establish),
         scripts[e.name] \in {None, taskRecord[e.name]} \/ Begun(e.name)
  PROVE  e.state \notin Acknowledgeable
<1>1. CASE e.name \in DOMAIN kit.tasks
  <2>1. e.state = Classify(kit.tasks[e.name], scripts[e.name], Known(e.name))
    BY <1>1, TaskPlanEntries DEF TaskEntry
  <2>2. scripts[e.name] # None => Known(e.name) = scripts[e.name]
    BY DEF Known, Begun
  <2>. QED
    BY <2>1, <2>2 DEF Classify, Acknowledgeable
<1>2. CASE e.name \notin DOMAIN kit.tasks
  <2>1. e = DropEntry(e.name) /\ scripts[e.name] # None
    BY <1>2, TaskPlanEntries
  <2>2. scripts[e.name] = taskRecord[e.name]
    BY <1>2, <2>1 DEF Begun
  <2>. QED
    BY <2>1, <2>2 DEF DropEntry, Acknowledgeable
<1>. QED
  BY <1>1, <1>2

\* A plan leaves alone only what a consumer changed or a run that was cut off
\* wrote, so the kit never takes its own work for an edit (classifyMaterialisation,
\* retirementsFor, planTasks).
THEOREM OnlyTheirsLeft == Spec => []LeavesOnlyTheirs
<1>1. TypeOK /\ OneRecordPerFile /\ PlacesSound /\ TasksSound => LeavesOnlyTheirs
  <2>. SUFFICES ASSUME TypeOK, OneRecordPerFile, PlacesSound, TasksSound,
                       phase \in {"idle", "init"}
                PROVE  /\ \A e \in Plan :
                               e.state \in LeftAlone => PlaceOf[e.path] \in edited \cup cut
                       /\ \A e \in TaskPlan(phase = "init") :
                            e.state \in Acknowledgeable => e.name \in edited \cup cut
    BY DEF LeavesOnlyTheirs, LeftAlone
  <2>1. /\ kit \in Kits /\ config \in Configs /\ disk \in [Places -> Node]
        /\ manifest \in [Paths -> KitHashes \cup {None}] /\ plan = {}
    BY DEF TypeOK, KitHashes
  <2>2. ASSUME NEW e \in Plan, PlaceOf[e.path] \notin edited \cup cut
        PROVE  e.state \notin LeftAlone
    <3>1. PlaceOf[e.path] \in Places
      BY <2>1, PlanTyped, DevkitAssumption DEF PlacedEntries, RetiredEntries
    <3>2. Clean(disk[PlaceOf[e.path]], PlaceOf[e.path], manifest)
      BY <2>1, <2>2, <3>1 DEF PlacesSound, PlaceSound
    <3>. QED
      BY <2>1, <3>2, CleanIsPlanned
  <2>3. ASSUME NEW e \in TaskPlan(phase = "init"), e.name \notin edited \cup cut
        PROVE  e.state \notin Acknowledgeable
    <3>1. e.name \in Tasks
      BY <2>1, TaskPlanEntries
    <3>2. scripts[e.name] \in {None, taskRecord[e.name]} \/ Begun(e.name)
      BY <2>3, <3>1 DEF TasksSound, TaskSound
    <3>. QED
      BY <2>1, <3>2, SoundTaskIsPlanned
  <2>. QED
    BY <2>2, <2>3
<1>. QED
  BY <1>1, PlacesHold, TasksHold, Typing, RecordsApart, PTL
=============================================================================
