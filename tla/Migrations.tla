----------------------------- MODULE Migrations -----------------------------
(***************************************************************************)
(* packages/eval-history, src/migrate: `evals:migrate` brings one          *)
(* PostgreSQL database up to the migration files of a checkout, upserts    *)
(* the model prices and grants the roles.  Several runners may work on one *)
(* database: CI jobs, a developer, the synthetic seed, each from a         *)
(* checkout of its own.                                                    *)
(*                                                                         *)
(* A query is one step.  A transaction's writes stay with the runner until *)
(* it commits; the advisory lock is held by whoever has a migrating        *)
(* transaction open past pg_advisory_xact_lock.  A connection may break at *)
(* any point: the client fails at once, the server ends the abandoned      *)
(* transaction later, and a commit already sent may or may not be carried  *)
(* out.                                                                    *)
(*                                                                         *)
(* A file stands for its version and its content; it creates one object, a *)
(* table or a view, named like the file.  A role is only ever created.     *)
(***************************************************************************)
EXTENDS Naturals, Sequences, FiniteSets

CONSTANTS Runners,      \* runs of the command
          File,         \* migration files: a version with a content
          VersionOf,    \* the version in a file's name
          Directories,  \* the contents of migrations/ a checkout may have
          Definers,     \* files whose view lacks security_invoker
          NoOne         \* not a runner

ASSUME MigrationsAssumption ==
  /\ VersionOf \in [File -> Nat]
  /\ Directories \subseteq SUBSET File
  /\ \A dir \in Directories : IsFiniteSet(dir)
  /\ Definers \subseteq File
  /\ NoOne \notin Runners

Roles == {"writer", "reader"}

VARIABLES
  ledger,     \* evals.schema_migration, in the order of its rows
  schema,     \* the files whose SQL has been carried out, in order
  prices,     \* whose model-prices.json evals.model_price holds
  roles,      \* the roles that exist
  grants,     \* per role, the objects it may use
  files,      \* per runner, the migration files of its checkout
  pc,         \* per runner, the query it is about to send
  reason,     \* per runner, why it failed
  session,    \* per runner, the transaction the server has open for it
  ran,        \* per runner, the file that transaction has carried out
  recorded,   \* per runner, the row that transaction has inserted
  offered,    \* per runner, what that transaction grants each role
  present,    \* per runner, the roles it saw
  resolved,   \* per runner, the objects it will grant the reader
  reported    \* per runner, the roles it prints as granted

database == <<ledger, schema, prices, roles, grants>>
granting == <<present, resolved, reported>>
work == <<ran, recorded, offered>>
vars == <<database, files, pc, reason, session, work, granting>>

-----------------------------------------------------------------------------
(* The files and the ledger.                                               *)

Elements(s) == {s[i] : i \in DOMAIN s}
Applied == Elements(ledger)
Objects == Elements(schema)

Versions(set) == {VersionOf[f] : f \in set}

HasDuplicate(dir) ==
  \E f, g \in dir : f # g /\ VersionOf[f] = VersionOf[g]

Missed(dir) == {f \in dir : VersionOf[f] \notin Versions(Applied)}

\* Mutants: a changed file goes unseen, one out of order.
DriftsByVersion(dir) ==
  \/ \E f \in Applied : VersionOf[f] \notin Versions(dir)
  \/ \E f \in Missed(dir) : \E g \in Applied : VersionOf[f] < VersionOf[g]
DriftsInContent(dir) == \E f \in Applied : f \notin dir

(* An applied row without its file, and a file that should have come       *)
(* before one already applied.                                             *)
Drifts(dir) ==
  \/ \E f \in Applied : f \notin dir
  \/ \E f \in Missed(dir) : \E g \in Applied : VersionOf[f] < VersionOf[g]

\* Mutant: all pending files in one transaction.
PendingAll(dir) ==
  CHOOSE s \in [1..Cardinality(Missed(dir)) -> Missed(dir)] :
    \A i, j \in DOMAIN s : i < j => VersionOf[s[i]] < VersionOf[s[j]]

(* The first pending file, as a sequence of at most one.                   *)
Pending(dir) ==
  IF Missed(dir) = {} THEN <<>>
  ELSE << CHOOSE f \in Missed(dir) :
            \A g \in Missed(dir) : VersionOf[f] <= VersionOf[g] >>

NoGrants == [role \in Roles |-> {}]

LockFree == \A q \in Runners : session[q] # "migrating"
GrantFree == \A q \in Runners : session[q] # "granting"

-----------------------------------------------------------------------------
Init ==
  /\ ledger = <<>> /\ schema = <<>> /\ prices = NoOne
  /\ roles \in SUBSET Roles
  /\ grants = NoGrants
  /\ files \in [Runners -> Directories]
  /\ pc = [r \in Runners |-> "read"]
  /\ reason = [r \in Runners |-> "none"]
  /\ session = [r \in Runners |-> "none"]
  /\ ran = [r \in Runners |-> <<>>]
  /\ recorded = [r \in Runners |-> <<>>]
  /\ offered = [r \in Runners |-> NoGrants]
  /\ present = [r \in Runners |-> {}]
  /\ resolved = [r \in Runners |-> {}]
  /\ reported = [r \in Runners |-> {}]

At(r, here, next) == pc[r] = here /\ pc' = [pc EXCEPT ![r] = next]

Fail(r, why) ==
  /\ pc' = [pc EXCEPT ![r] = "failed"]
  /\ reason' = [reason EXCEPT ![r] = why]

(* The transaction of r ends, and what it held goes with it.               *)
Close(r) ==
  /\ session' = [session EXCEPT ![r] = "none"]
  /\ ran' = [ran EXCEPT ![r] = <<>>]
  /\ recorded' = [recorded EXCEPT ![r] = <<>>]
  /\ offered' = [offered EXCEPT ![r] = NoGrants]

(* What the transaction of r has written becomes what everyone sees.       *)
PublishStep(r) ==
  /\ schema' = schema \o ran[r]
  /\ ledger' = ledger \o recorded[r]
  /\ Close(r)

PublishGrants(r) ==
  /\ grants' = [role \in Roles |->
                  IF role \in present[r] THEN offered[r][role] ELSE grants[role]]
  /\ Close(r)

ReadFiles(r) ==
  /\ pc[r] = "read"
  /\ IF HasDuplicate(files[r])
     THEN Fail(r, "duplicate")
     ELSE pc' = [pc EXCEPT ![r] = "lock"] /\ UNCHANGED reason
  /\ UNCHANGED <<database, files, session, work, granting>>

(* begin, then pg_advisory_xact_lock: waits for the transaction that has it. *)
Lock(r) ==
  /\ At(r, "lock", "inspect")
  /\ LockFree
  /\ session' = [session EXCEPT ![r] = "migrating"]
  /\ UNCHANGED <<database, files, reason, work, granting>>

Inspect(r) ==
  /\ pc[r] = "inspect"
  /\ IF Drifts(files[r])
     THEN /\ pc' = [pc EXCEPT ![r] = "rollback"]
          /\ reason' = [reason EXCEPT ![r] = "drift"]
     ELSE /\ pc' = [pc EXCEPT ![r] =
                      IF Pending(files[r]) = <<>> THEN "commit" ELSE "run"]
          /\ UNCHANGED reason
  /\ UNCHANGED <<database, files, session, work, granting>>

Run(r) ==
  /\ At(r, "run", "record")
  /\ ran' = [ran EXCEPT ![r] = Pending(files[r])]
  /\ UNCHANGED <<database, files, reason, session, recorded, offered, granting>>

RunFails(r) ==
  /\ At(r, "run", "rollback")
  /\ reason' = [reason EXCEPT ![r] = "sql"]
  /\ UNCHANGED <<database, files, session, work, granting>>

(* The version is the primary key of the ledger.                           *)
Record(r) ==
  /\ pc[r] = "record"
  /\ IF Versions(Elements(ran[r])) \cap Versions(Applied) # {}
     THEN /\ pc' = [pc EXCEPT ![r] = "rollback"]
          /\ reason' = [reason EXCEPT ![r] = "conflict"]
          /\ UNCHANGED recorded
     ELSE /\ pc' = [pc EXCEPT ![r] = "commit"]
          /\ recorded' = [recorded EXCEPT ![r] = ran[r]]
          /\ UNCHANGED reason
  /\ UNCHANGED <<database, files, session, ran, offered, granting>>

\* Mutant: a step that found nothing pending is followed by another.
CommitAgain(r) ==
  /\ At(r, "commit", "lock")
  /\ PublishStep(r)
  /\ UNCHANGED <<prices, roles, grants, files, reason, granting>>

(* A step that applied a file is followed by another; one that found       *)
(* nothing pending ends applyMigrations.                                   *)
Commit(r) ==
  /\ At(r, "commit", IF recorded[r] = <<>> THEN "prices" ELSE "lock")
  /\ PublishStep(r)
  /\ UNCHANGED <<prices, roles, grants, files, reason, granting>>

Rollback(r) ==
  /\ At(r, "rollback", "failed")
  /\ Close(r)
  /\ UNCHANGED <<database, files, reason, granting>>

-----------------------------------------------------------------------------
(* upsertModelPrices and grantRoles, outside the advisory lock.            *)

UpsertPrices(r) ==
  /\ At(r, "prices", "roles")
  /\ prices' = r
  /\ UNCHANGED <<ledger, schema, roles, grants, files, reason, session, work,
                 granting>>

ExistingRoles(r) ==
  /\ At(r, "roles", "resolve")
  /\ present' = [present EXCEPT ![r] = roles]
  /\ UNCHANGED <<database, files, reason, session, work, resolved, reported>>

(* The reader's two targets are spelled out from the catalog of this       *)
(* moment; the writer's stays "all tables".                                *)
Resolve(r) ==
  /\ At(r, "resolve", IF present[r] = {} THEN "expose" ELSE "grant")
  /\ resolved' = [resolved EXCEPT ![r] = Objects]
  /\ UNCHANGED <<database, files, reason, session, work, present, reported>>

\* Mutant: the writer's target is spelled out like the reader's.
GrantedAsResolved(r) == [role \in Roles |-> resolved[r]]

(* The revokes and the grants of every role, one text in one transaction.  *)
Granted(r) ==
  [role \in Roles |-> IF role = "writer" THEN Objects ELSE resolved[r]]

Grant(r) ==
  /\ pc[r] \in {"grant", "grantwait"}
  /\ GrantFree
  /\ pc' = [pc EXCEPT ![r] = "grantcommit"]
  /\ session' = [session EXCEPT ![r] = "granting"]
  /\ offered' = [offered EXCEPT ![r] = Granted(r)]
  /\ UNCHANGED <<database, files, reason, ran, recorded, granting>>

(* The catalog row a grant rewrites is being rewritten by another.         *)
GrantBlocks(r) ==
  /\ At(r, "grant", "grantwait")
  /\ ~GrantFree
  /\ UNCHANGED <<database, files, reason, session, work, granting>>

Waiting == {q \in Runners : pc[q] = "grantwait"}

(* Those who waited find the row updated under them, and fail.             *)
WaitersFail(places) ==
  /\ pc' = [q \in Runners |-> IF q \in Waiting THEN "failed" ELSE places[q]]
  /\ reason' = [q \in Runners |->
                  IF q \in Waiting THEN "grants" ELSE reason[q]]

CommitGrants(r) ==
  /\ pc[r] = "grantcommit"
  /\ WaitersFail([pc EXCEPT ![r] = "checkwriter"])
  /\ PublishGrants(r)
  /\ UNCHANGED <<ledger, schema, prices, roles, files, granting>>

(* The privileges each role lacks of those it was resolved to.             *)
CheckWriter(r) ==
  /\ At(r, "checkwriter", "checkreader")
  /\ reported' = [reported EXCEPT ![r] =
       IF Objects \subseteq grants["writer"] THEN present[r] \cap {"writer"}
       ELSE {}]
  /\ UNCHANGED <<database, files, reason, session, work, present, resolved>>

CheckReader(r) ==
  /\ At(r, "checkreader", "expose")
  /\ reported' = [reported EXCEPT ![r] =
       IF resolved[r] \subseteq grants["reader"]
       THEN @ \cup (present[r] \cap {"reader"}) ELSE @]
  /\ UNCHANGED <<database, files, reason, session, work, present, resolved>>

(* A view that runs with its owner's privileges takes the reader off the   *)
(* list of the granted.                                                    *)
Expose(r) ==
  /\ At(r, "expose", "done")
  /\ reported' = [reported EXCEPT ![r] =
       IF Definers \cap grants["reader"] # {} THEN @ \ {"reader"} ELSE @]
  /\ UNCHANGED <<database, files, reason, session, work, present, resolved>>

-----------------------------------------------------------------------------
(* The operator, and what may break.                                       *)

CreateRole(role) ==
  /\ role \notin roles
  /\ roles' = roles \cup {role}
  /\ UNCHANGED <<ledger, schema, prices, grants, files, pc, reason, session,
                 work, granting>>

LoseConnection(r) ==
  /\ pc[r] \notin {"read", "done", "failed"}
  /\ Fail(r, IF pc[r] \in {"commit", "grantcommit"} THEN "commit"
             ELSE "connection")
  /\ UNCHANGED <<database, files, session, work, granting>>

(* The server notices that nobody is there, and rolls back.                *)
ServerDrops(r) ==
  /\ pc[r] = "failed" /\ session[r] # "none"
  /\ Close(r)
  /\ UNCHANGED <<database, files, pc, reason, granting>>

(* The commit arrived before the connection broke.                         *)
ServerCommitsStep(r) ==
  /\ pc[r] = "failed" /\ session[r] = "migrating"
  /\ reason[r] = "commit"
  /\ PublishStep(r)
  /\ UNCHANGED <<prices, roles, grants, files, pc, reason, granting>>

ServerCommitsGrants(r) ==
  /\ pc[r] = "failed" /\ session[r] = "granting"
  /\ reason[r] = "commit"
  /\ WaitersFail(pc)
  /\ PublishGrants(r)
  /\ UNCHANGED <<ledger, schema, prices, roles, files, granting>>

(* Every run has ended, and the server holds nothing for any.              *)
Finished ==
  \A r \in Runners : pc[r] \in {"done", "failed"} /\ session[r] = "none"

Over == Finished /\ UNCHANGED vars

Migrate(r) ==
  \/ ReadFiles(r) \/ Inspect(r) \/ Run(r) \/ RunFails(r)
  \/ Record(r) \/ Commit(r) \/ Rollback(r)

GrantRoles(r) ==
  \/ UpsertPrices(r) \/ ExistingRoles(r) \/ Resolve(r) \/ GrantBlocks(r)
  \/ CommitGrants(r) \/ CheckWriter(r) \/ CheckReader(r) \/ Expose(r)

ServerEnds(r) ==
  ServerDrops(r) \/ ServerCommitsStep(r) \/ ServerCommitsGrants(r)

Next ==
  \/ \E r \in Runners :
       Migrate(r) \/ Lock(r) \/ GrantRoles(r) \/ Grant(r)
       \/ LoseConnection(r) \/ ServerEnds(r)
  \/ \E role \in Roles : CreateRole(role)
  \/ Over

Spec == Init /\ [][Next]_vars

(* A client sends its next query, PostgreSQL grants a lock nobody holds,   *)
(* and it ends the transactions of clients that are gone.                  *)
Fairness ==
  \A r \in Runners :
    /\ WF_vars(Migrate(r)) /\ WF_vars(Lock(r))
    /\ WF_vars(GrantRoles(r)) /\ WF_vars(Grant(r))
    /\ WF_vars(ServerEnds(r))

FairSpec == Spec /\ Fairness

-----------------------------------------------------------------------------
(* Properties.                                                             *)

Places == {"read", "lock", "inspect", "run", "record", "commit", "rollback",
           "prices", "roles", "resolve", "grant", "grantwait", "grantcommit",
           "checkwriter", "checkreader", "expose", "done", "failed"}

AtMostOne == {<<>>} \cup {<<f>> : f \in File}

(* Every variable keeps its kind of value, and one transaction never holds *)
(* the SQL of more than one file.                                          *)
TypeOK ==
  /\ ledger \in Seq(File) /\ schema \in Seq(File)
  /\ prices \in Runners \cup {NoOne}
  /\ roles \subseteq Roles
  /\ grants \in [Roles -> SUBSET File]
  /\ files \in [Runners -> Directories]
  /\ pc \in [Runners -> Places]
  /\ reason \in [Runners -> {"none", "duplicate", "drift", "sql", "conflict",
                             "connection", "commit", "grants"}]
  /\ session \in [Runners -> {"none", "migrating", "granting"}]
  /\ ran \in [Runners -> AtMostOne]
  /\ recorded \in [Runners -> AtMostOne]
  /\ offered \in [Runners -> [Roles -> SUBSET File]]
  /\ present \in [Runners -> SUBSET Roles]
  /\ resolved \in [Runners -> SUBSET File]
  /\ reported \in [Runners -> SUBSET Roles]

(* applyMigrations: files enter the ledger in ascending version order and  *)
(* no version twice, whichever checkouts the runners come from.            *)
LedgerAscends ==
  \A i, j \in DOMAIN ledger :
    i < j => VersionOf[ledger[i]] < VersionOf[ledger[j]]

(* A file's SQL has been carried out exactly when the ledger says so, in   *)
(* the same order: no failure, lost connection or race leaves a file run   *)
(* and not recorded, recorded and not run, or run twice.                   *)
RunAsRecorded == schema = ledger

(* The ledger begins with exactly the files of the checkout.               *)
Caught(r) ==
  \E n \in 0..Len(ledger) : files[r] = Elements(SubSeq(ledger, 1, n))

Migrated == {"prices", "roles", "resolve", "grant", "grantwait",
             "grantcommit", "checkwriter", "checkreader", "expose", "done"}

(* A run that gets past applyMigrations has the database it was written    *)
(* for: the first files ever applied are its own, all of them.             *)
CaughtUp == \A r \in Runners : pc[r] \in Migrated => Caught(r)

(* An old or diverged checkout never rewrites the model prices: the table  *)
(* holds those of a checkout whose files are all applied.                  *)
PricesOfCaughtUp == prices # NoOne => Caught(prices)

(* "applies each file once when two migrators race": runs from one and the *)
(* same checkout never refuse each other's work.                           *)
RacersAgree ==
  (\A q, r \in Runners : files[q] = files[r])
     => \A r \in Runners : reason[r] \notin {"drift", "conflict"}

(* A file enters the ledger only behind files its runner has, all of them: *)
(* one checkout explains every history the database can have.              *)
OneHistory ==
  [][ledger' # ledger =>
       \E r \in Runners : Elements(ledger') \subseteq files[r]]_vars

(* Runners from any checkouts, racing, failing and cut off, take the       *)
(* database only through histories that one checkout at a time explains:   *)
(* one file after the other, in order, run and recorded together.          *)
History == INSTANCE MigrationHistory
ImplementsHistory == History!Spec

(* A run that reports the writer as granted leaves it every object of its  *)
(* files, whatever other runs revoke and grant afterwards.                 *)
WriterKeeps ==
  \A r \in Runners :
    pc[r] = "done" /\ "writer" \in reported[r]
      => files[r] \subseteq grants["writer"]

(* What every checkout has, the reader does not lose once it holds it: the *)
(* revokes and the grants that follow are seen as one.                     *)
Common == {f \in File : \A r \in Runners : f \in files[r]}
ReaderKeepsCommon ==
  [][grants["reader"] \cap Common \subseteq grants'["reader"]]_vars

(* Every run ends and leaves no transaction behind, however many wait for  *)
(* the lock and whichever connections break.                               *)
RunsEnd == <>Finished

(* What a run at each place has before it, had it no more files to apply.  *)
Ahead ==
  [failed |-> 0, done |-> 0, rollback |-> 1, expose |-> 1, checkreader |-> 2,
   checkwriter |-> 3, grantcommit |-> 4, grantwait |-> 6, grant |-> 7,
   resolve |-> 8, roles |-> 9, prices |-> 10, commit |-> 11, record |-> 12,
   run |-> 13, inspect |-> 14, lock |-> 16, read |-> 17]

Remaining(r) ==
  20 * Cardinality(Missed(files[r])) + Ahead[pc[r]]
    + (IF session[r] = "none" THEN 0 ELSE 1)

(* No step, of whichever run, sends any run back, and every one takes some *)
(* run forward: applying a file is worth more than the next round of lock, *)
(* inspection, SQL and commit costs, and a failed run is not tried again.  *)
RunsAdvance ==
  [][/\ \A r \in Runners : Remaining(r)' <= Remaining(r)
     /\ roles' = roles => \E r \in Runners : Remaining(r)' < Remaining(r)]_vars

(* The next query of r, or the end of its transaction, waits for nobody.   *)
MayMove(r) ==
  /\ pc[r] # "done" /\ (pc[r] = "failed" => session[r] # "none")
  /\ pc[r] = "lock" => LockFree
  /\ pc[r] = "grantwait" => GrantFree

(* Whoever waits for the advisory lock or for a grant, somebody else is at *)
(* a query that waits for nothing: two lock orders never meet.             *)
SomeoneMoves == Finished \/ \E r \in Runners : MayMove(r)

(* README.md of the package: "select on every view in it", and `granted`   *)
(* "only for a role that holds every listed privilege".                    *)
ReaderReadsAll ==
  Finished /\ (\A r \in Runners : "reader" \in reported[r])
    => Objects \subseteq grants["reader"]
=============================================================================
