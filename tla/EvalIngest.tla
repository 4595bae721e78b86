----------------------------- MODULE EvalIngest -----------------------------
(***************************************************************************)
(* packages/eval-history, src/ingest, and evals/run-record.mjs: an eval    *)
(* run writes its envelope to disk however it ends and then sends it to    *)
(* the database; evals:ingest sends whatever lies on disk, as often as it  *)
(* is started.  Runs and commands send at the same time, possibly the same *)
(* envelope.                                                               *)
(*                                                                         *)
(* One statement is one step.  A transaction's rows are its sender's until *)
(* it commits; until then nobody else can insert the same run_id or upsert *)
(* a subject it has upserted.  A cycle of waiting senders costs one of     *)
(* them its transaction.  A connection may break and a run be killed at    *)
(* any point: the server ends the transaction later, and a commit already  *)
(* sent may still be carried out.                                          *)
(*                                                                         *)
(* An adjudication case is an item without subjects: its second statement  *)
(* writes its verdicts, as a run's last one writes its trials.             *)
(***************************************************************************)
EXTENDS Naturals, Sequences, SequencesExt, FiniteSets

CONSTANTS Runs,        \* eval runs, each with a run_id
          Cases,       \* adjudication cases, each with a case_id
          Commands,    \* evals:ingest, run again and again
          Version,     \* contents of subjects
          SubjectOf,   \* the subject each is a content of
          VersionsOf,  \* per run or case, the subjects of its envelope, in order
          StartedAt,   \* per run or case, when it was started
          Flaws,       \* the sets of those that the database may refuse
          Breaks,      \* bound: how many connections fail
          Nothing      \* not a run or case

Items == Runs \cup Cases
Senders == Runs \cup Commands
Never == 0

ASSUME EvalIngestAssumption ==
  /\ Runs \cap (Cases \cup Commands) = {}
  /\ IsFiniteSet(Runs) /\ IsFiniteSet(Cases)
  /\ VersionsOf \in [Items -> Seq(Version)]
  /\ StartedAt \in [Items -> Nat \ {Never}]
  /\ Flaws \subseteq SUBSET Items
  /\ Breaks \in Nat
  /\ Nothing \notin Items

(* A partial envelope is treated as a complete one is.                     *)
Ends == {"complete", "aborted"}

VARIABLES
  disk,       \* per run or case, its envelope on disk
  flawed,     \* those with a row the database refuses
  stored,     \* per run or case, the envelope whose row is committed
  rows,       \* how many groups of rows are committed with it
  firstSeen,  \* per content, evals.eval_subject_version.first_seen_at
  pc,         \* per sender, what it does next
  queue,      \* per sender, what it has left to send over this connection
  later,      \* and over the next
  content,    \* per sender, the envelope it read last
  server,     \* per sender, the state of its transaction
  item,       \* the run or case whose row that transaction has inserted
  wrote,      \* the groups of rows it has written
  outcome,    \* per sender, the result it will report
  report,     \* per sender, the results it has reported
  breaks      \* connections failed so far

database == <<stored, rows, firstSeen>>
transaction == <<server, item, wrote, content>>
vars == <<disk, flawed, database, pc, queue, later, transaction,
          outcome, report, breaks>>

-----------------------------------------------------------------------------
NoReports == [i \in Items |-> "none"]

Init ==
  /\ disk = [i \in Items |-> IF i \in Cases THEN "complete" ELSE "none"]
  /\ flawed \in Flaws
  /\ stored = [i \in Items |-> "none"]
  /\ rows = [i \in Items |-> 0]
  /\ firstSeen = [v \in Version |-> Never]
  /\ pc = [s \in Senders |-> IF s \in Runs THEN "running" ELSE "idle"]
  /\ queue = [s \in Senders |-> <<>>]
  /\ later = [s \in Senders |-> <<>>]
  /\ content = [s \in Senders |-> "none"]
  /\ server = [s \in Senders |-> "none"]
  /\ item = [s \in Senders |-> Nothing]
  /\ wrote = [s \in Senders |-> 0]
  /\ outcome = [s \in Senders |-> "none"]
  /\ report = [s \in Senders |-> NoReports]
  /\ breaks = 0

Goto(s, place) == pc' = [pc EXCEPT ![s] = place]

Over(s) == IF s \in Runs THEN "over" ELSE "idle"

-----------------------------------------------------------------------------
(* recordRun.                                                              *)

(* The run finishes, throws or hits the session limit, or takes a signal:  *)
(* from here on no signal is listened to.  The file is created first.      *)
Stop(r) ==
  /\ pc[r] = "running"
  /\ Goto(r, "saving")
  /\ disk' = [disk EXCEPT ![r] = "torn"]
  /\ UNCHANGED <<flawed, database, queue, later, transaction, outcome, report,
                 breaks>>

(* The envelope fails its schema.                                          *)
SaveFails(r) ==
  /\ pc[r] = "running"
  /\ Goto(r, "over")
  /\ UNCHANGED <<disk, flawed, database, queue, later, transaction,
                 outcome, report, breaks>>

(* An aborted envelope is left for evals:ingest.                           *)
Save(r) ==
  /\ pc[r] = "saving"
  /\ \E end \in Ends :
       /\ disk' = [disk EXCEPT ![r] = end]
       /\ IF end = "aborted"
          THEN Goto(r, "over") /\ UNCHANGED queue
          ELSE Goto(r, "connect") /\ queue' = [queue EXCEPT ![r] = <<r>>]
  /\ UNCHANGED <<flawed, database, later, transaction, outcome, report, breaks>>

-----------------------------------------------------------------------------
(* ingestPaths and overConnection.                                         *)

\* Mutant: only what a run finished.
FoundFinished(set) == {i \in set : disk[i] = "complete"}

(* The files that can be read.                                             *)
Found(set) == {i \in set : disk[i] \in Ends}

(* The orders in which files may be sent.                                  *)
Listings(set) ==
  {list \in [1..Cardinality(set) -> set] : IsInjective(list)}

\* Mutant: a file below two of the paths is sent twice.
OldestFirstPerPath(set) ==
  {list \o list : list \in Listings(set)}

OldestFirst(set) ==
  {list \in Listings(set) :
     \A m, n \in DOMAIN list : m < n => StartedAt[list[m]] <= StartedAt[list[n]]}

(* ingestFiles and ingestAdjudicationFiles, called in turn: each sends its *)
(* files over a connection, the runs oldest first.                         *)
Start(c) ==
  /\ pc[c] = "idle"
  /\ \E runs \in OldestFirst(Found(Runs)), cases \in Listings(Found(Cases)) :
        /\ runs \o cases # <<>>
        /\ queue' = [queue EXCEPT ![c] = IF runs = <<>> THEN cases ELSE runs]
        /\ later' = [later EXCEPT ![c] = IF runs = <<>> THEN <<>> ELSE cases]
  /\ report' = [report EXCEPT ![c] = [i \in Items |->
                  IF disk[i] = "torn" THEN "rejected" ELSE "none"]]
  /\ Goto(c, "connect")
  /\ UNCHANGED <<disk, flawed, database, transaction, outcome, breaks>>

(* What is left of this connection's items has been reported.              *)
NextConnection(s) ==
  /\ queue' = [queue EXCEPT ![s] = later[s]]
  /\ later' = [later EXCEPT ![s] = <<>>]
  /\ Goto(s, IF later[s] = <<>> THEN Over(s) ELSE "connect")

(* The first item is reported, and the next one's turn comes.              *)
Report(s, result) ==
  /\ outcome' = [outcome EXCEPT ![s] = "none"]
  /\ report' = [report EXCEPT ![s][Head(queue[s])] = result]
  /\ IF Len(queue[s]) > 1
     THEN /\ queue' = [queue EXCEPT ![s] = Tail(@)]
          /\ Goto(s, "begin")
          /\ UNCHANGED later
     ELSE NextConnection(s)

ReportRest(s, result) ==
  /\ outcome' = [outcome EXCEPT ![s] = "none"]
  /\ report' = [report EXCEPT ![s] = [i \in Items |->
       IF i \in ToSet(queue[s]) THEN result ELSE @[i]]]
  /\ NextConnection(s)

Connect(s) ==
  /\ pc[s] = "connect" /\ server[s] = "none"
  /\ Goto(s, "begin")
  /\ UNCHANGED <<disk, flawed, database, queue, later, transaction,
                 outcome, report, breaks>>

ConnectFails(s) ==
  /\ pc[s] = "connect" /\ server[s] = "none"
  /\ breaks < Breaks /\ breaks' = breaks + 1
  /\ ReportRest(s, "unsent")
  /\ UNCHANGED <<disk, flawed, database, transaction>>

-----------------------------------------------------------------------------
(* One item: inIngestTransaction.                                          *)

(* The file is read again, then begin.                                     *)
Begin(s) ==
  /\ pc[s] = "begin"
  /\ IF disk[Head(queue[s])] \in Ends
     THEN /\ content' = [content EXCEPT ![s] = disk[Head(queue[s])]]
          /\ server' = [server EXCEPT ![s] = "open"]
          /\ Goto(s, "insert")
          /\ UNCHANGED <<queue, later, outcome, report>>
     ELSE Report(s, "rejected") /\ UNCHANGED <<content, server>>
  /\ UNCHANGED <<disk, flawed, database, item, wrote, breaks>>

SubjectsOf(i) == [n \in DOMAIN VersionsOf[i] |-> SubjectOf[VersionsOf[i][n]]]

(* Run or case, one group per subject with its tasks, and the last one for *)
(* the trials or the verdicts.                                             *)
Groups(i) == Len(VersionsOf[i]) + 1

Locked(s) ==
  IF item[s] = Nothing THEN {}
  ELSE {SubjectsOf(item[s])[n] : n \in DOMAIN VersionsOf[item[s]] \cap 1..wrote[s]}

Others(s) == {t \in Senders \ {s} : server[t] # "none"}

(* Those whose transaction must end before s can go on.                    *)
Blockers(s) ==
  IF pc[s] = "insert" THEN {t \in Others(s) : item[t] = Head(queue[s])}
  ELSE IF pc[s] = "rows" /\ wrote[s] + 1 \in DOMAIN VersionsOf[item[s]]
  THEN {t \in Others(s) : SubjectsOf(item[s])[wrote[s] + 1] \in Locked(t)}
  ELSE {}

(* on conflict (run_id) do nothing: waits for the one inserting it.        *)
Insert(s) ==
  /\ pc[s] = "insert" /\ Blockers(s) = {}
  /\ IF stored[Head(queue[s])] = "none"
     THEN /\ item' = [item EXCEPT ![s] = Head(queue[s])]
          /\ Goto(s, "rows")
     ELSE /\ Goto(s, "look")
          /\ UNCHANGED item
  /\ UNCHANGED <<disk, flawed, database, queue, later, content, server,
                 wrote, outcome, report, breaks>>

Conclude(s, result, place) ==
  /\ outcome' = [outcome EXCEPT ![s] = result]
  /\ Goto(s, place)

(* existingOutcome.                                                        *)
Look(s) ==
  /\ pc[s] = "look"
  /\ Conclude(s, IF stored[Head(queue[s])] = content[s]
                 THEN "present" ELSE "conflict", "rollback")
  /\ UNCHANGED <<disk, flawed, database, queue, later, transaction,
                 report, breaks>>

(* A statement fails: the server gives up the transaction and its locks,   *)
(* and the client catches the error.                                       *)
StatementFails(s) ==
  /\ Conclude(s, "failed", "rollback")
  /\ item' = [item EXCEPT ![s] = Nothing]
  /\ wrote' = [wrote EXCEPT ![s] = 0]
  /\ UNCHANGED <<disk, flawed, database, queue, later, content, server,
                 report, breaks>>

WriteRows(s) ==
  /\ pc[s] = "rows" /\ Blockers(s) = {}
  /\ IF wrote[s] + 1 = Groups(item[s])
     THEN item[s] \notin flawed /\ Conclude(s, "inserted", "commit")
     ELSE UNCHANGED <<outcome, pc>>
  /\ wrote' = [wrote EXCEPT ![s] = @ + 1]
  /\ UNCHANGED <<disk, flawed, database, queue, later, content, server,
                 item, report, breaks>>

RowsRefused(s) ==
  /\ pc[s] = "rows" /\ wrote[s] + 1 = Groups(item[s]) /\ item[s] \in flawed
  /\ StatementFails(s)

(* Senders that wait for each other, each for one of them.                 *)
Deadlocked(set) ==
  \A s \in set : /\ Blockers(s) \cap set # {}
                 /\ \E t \in set : s \in Blockers(t)

Victim(s) ==
  /\ pc[s] \in {"insert", "rows"}
  /\ \E set \in SUBSET Senders : s \in set /\ Deadlocked(set)
  /\ StatementFails(s)

End(s) ==
  /\ server' = [server EXCEPT ![s] = "none"]
  /\ item' = [item EXCEPT ![s] = Nothing]
  /\ wrote' = [wrote EXCEPT ![s] = 0]
  /\ content' = [content EXCEPT ![s] = "none"]

\* Mutant: what was there first stays, whenever it was started.
Kept(s, v) == IF firstSeen[v] = Never THEN StartedAt[item[s]] ELSE firstSeen[v]

(* least(version.first_seen_at, excluded.first_seen_at)                    *)
Earliest(s, v) ==
  IF firstSeen[v] = Never \/ StartedAt[item[s]] < firstSeen[v]
  THEN StartedAt[item[s]] ELSE firstSeen[v]

Publish(s) ==
  /\ stored' = [stored EXCEPT ![item[s]] = content[s]]
  /\ rows' = [rows EXCEPT ![item[s]] = @ + wrote[s]]
  /\ firstSeen' = [v \in Version |->
       IF v \in ToSet(VersionsOf[item[s]]) THEN Earliest(s, v) ELSE firstSeen[v]]
  /\ End(s)

Commit(s) ==
  /\ pc[s] = "commit"
  /\ Publish(s)
  /\ Report(s, outcome[s])
  /\ UNCHANGED <<disk, flawed, breaks>>

Rollback(s) ==
  /\ pc[s] = "rollback"
  /\ End(s)
  /\ Report(s, outcome[s])
  /\ UNCHANGED <<disk, flawed, database, breaks>>

-----------------------------------------------------------------------------
(* Failures.                                                               *)

Sending == {"begin", "insert", "look", "rows", "commit", "rollback"}

(* The server does not know yet that the client is gone.                   *)
Abandon(s) ==
  server' = [server EXCEPT ![s] =
    IF @ = "none" THEN "none"
    ELSE IF pc[s] = "commit" THEN "committing" ELSE "orphan"]

\* Mutant: a commit that was sent counts as done.
LoseAfterCommit(s) ==
  /\ pc[s] \in Sending
  /\ breaks < Breaks /\ breaks' = breaks + 1
  /\ Abandon(s)
  /\ ReportRest(s, IF pc[s] = "commit" THEN "inserted" ELSE "failed")
  /\ UNCHANGED <<disk, flawed, database, content, item, wrote>>

(* The statement throws, so does the rollback, and so does begin for every *)
(* item after it.                                                          *)
LoseConnection(s) ==
  /\ pc[s] \in Sending
  /\ breaks < Breaks /\ breaks' = breaks + 1
  /\ Abandon(s)
  /\ ReportRest(s, "failed")
  /\ UNCHANGED <<disk, flawed, database, content, item, wrote>>

\* Mutant: a signal is still listened to while the envelope is sent.
KillRewriting(r) ==
  /\ pc[r] # "over"
  /\ Goto(r, "over")
  /\ Abandon(r)
  /\ disk' = [disk EXCEPT ![r] = IF pc[r] \in Sending THEN "aborted" ELSE @]
  /\ queue' = [queue EXCEPT ![r] = <<>>]
  /\ outcome' = [outcome EXCEPT ![r] = "none"]
  /\ UNCHANGED <<flawed, database, later, content, item, wrote, report,
                 breaks>>

(* The run's process dies: a second signal, or one while it sends.         *)
Kill(r) ==
  /\ pc[r] # "over"
  /\ Goto(r, "over")
  /\ Abandon(r)
  /\ queue' = [queue EXCEPT ![r] = <<>>]
  /\ outcome' = [outcome EXCEPT ![r] = "none"]
  /\ UNCHANGED <<disk, flawed, database, later, content, item, wrote,
                 report, breaks>>

ServerDrops(s) ==
  /\ server[s] \in {"orphan", "committing"}
  /\ End(s)
  /\ UNCHANGED <<disk, flawed, database, pc, queue, later, outcome,
                 report, breaks>>

ServerCommits(s) ==
  /\ server[s] = "committing"
  /\ Publish(s)
  /\ UNCHANGED <<disk, flawed, pc, queue, later, outcome, report,
                 breaks>>

-----------------------------------------------------------------------------
Statement(s) ==
  \/ Connect(s) \/ Begin(s) \/ Insert(s) \/ Look(s) \/ WriteRows(s)
  \/ RowsRefused(s) \/ Commit(s) \/ Rollback(s)

ServerEnds(s) == ServerDrops(s) \/ ServerCommits(s)

Next ==
  \/ \E r \in Runs : Stop(r) \/ SaveFails(r) \/ Save(r) \/ Kill(r)
  \/ \E c \in Commands : Start(c)
  \/ \E s \in Senders :
       \/ Statement(s) \/ Victim(s) \/ ServerEnds(s)
       \/ ConnectFails(s) \/ LoseConnection(s)

Spec == Init /\ [][Next]_vars

(* evals:ingest is run again; a client sends its next statement once what  *)
(* it waits for has ended, and PostgreSQL breaks deadlocks and ends the    *)
(* transactions of clients that are gone.                                  *)
Fairness ==
  /\ \A c \in Commands : WF_vars(Start(c))
  /\ \A s \in Senders :
       WF_vars(Statement(s)) /\ WF_vars(Victim(s)) /\ WF_vars(ServerEnds(s))

FairSpec == Spec /\ Fairness

-----------------------------------------------------------------------------
(* Properties.                                                             *)

Envelopes == Ends \cup {"none"}
Results == {"none", "inserted", "present", "conflict", "failed", "unsent",
            "rejected"}

(* Every variable keeps its kind of value, and no sender has an item twice *)
(* before it.                                                              *)
TypeOK ==
  /\ disk \in [Items -> Envelopes \cup {"torn"}]
  /\ flawed \subseteq Items
  /\ stored \in [Items -> Envelopes]
  /\ rows \in [Items -> Nat]
  /\ firstSeen \in [Version -> Nat]
  /\ pc \in [Senders -> {"running", "saving", "over", "idle", "connect"} \cup Sending]
  /\ queue \in [Senders -> Seq(Items)]
  /\ later \in [Senders -> Seq(Items)]
  /\ \A s \in Senders : IsInjective(queue[s]) /\ IsInjective(later[s])
  /\ content \in [Senders -> Envelopes]
  /\ server \in [Senders -> {"none", "open", "orphan", "committing"}]
  /\ item \in [Senders -> Items \cup {Nothing}]
  /\ wrote \in [Senders -> Nat]
  /\ outcome \in [Senders -> Results]
  /\ report \in [Senders -> [Items -> Results]]
  /\ breaks \in 0..Breaks

(* What is reported as inserted or present is stored, from the envelope    *)
(* that lies on disk.                                                      *)
ReportsTrue ==
  \A s \in Senders, i \in Items :
    report[s][i] \in {"inserted", "present"}
      => stored[i] # "none" /\ stored[i] = disk[i]

(* "one transaction per run keyed on run_id": whatever breaks, a run or    *)
(* case enters the database in one step, with all its rows, and never      *)
(* again; in whatever order they come, a content was first seen by the     *)
(* earliest stored run that has it.                                        *)
Db == INSTANCE Archive WITH Envelopes <- Ends
ImplementsArchive == Db!Spec

(* "a signal during the send cannot rewrite it": a run has one envelope,   *)
(* and no sender ever finds its run_id stored from a different one.        *)
OneEnvelope ==
  \A s \in Senders, i \in Items :
    outcome[s] # "conflict" /\ report[s][i] # "conflict"

(* No wait is for ever: while a statement waits for another transaction,   *)
(* some client can send its next one, the server has yet to end one whose  *)
(* client is gone, or senders wait for each other and one is the victim.   *)
WaitsEnd ==
  (\E s \in Senders : Blockers(s) # {}) =>
    \/ \E s \in Senders : server[s] = "open" /\ Blockers(s) = {}
    \/ \E s \in Senders : server[s] \in {"orphan", "committing"}
    \/ \E set \in SUBSET Senders : set # {} /\ Deadlocked(set)

(* "A run that failed to send is sent later": every whole envelope on disk *)
(* is in the database in the end, unless the database refuses its rows.    *)
EventuallyStored ==
  <>[] \A i \in Items \ flawed : disk[i] \in Ends => stored[i] # "none"
=============================================================================
