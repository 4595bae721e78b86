-------------------------- MODULE MigrationsProofs --------------------------
(***************************************************************************)
(* The safety properties of Migrations, for any number of runs, files and  *)
(* checkouts.                                                              *)
(*                                                                         *)
(* The ledger and the schema change together, by one file at a time, and   *)
(* only by the runner that has the advisory lock: what that runner found   *)
(* out about the ledger still holds when its transaction is published.     *)
(***************************************************************************)
EXTENDS Migrations, FiniteSetTheorems, WellFoundedInduction, TLAPS

(* Queries sent under the advisory lock.                                   *)
Holding == {"inspect", "run", "record", "commit", "rollback"}

(* The server may publish the step of r.                                   *)
Committing(r) ==
  /\ session[r] = "migrating"
  /\ \/ pc[r] = "commit"
     \/ pc[r] = "failed" /\ reason[r] = "commit"

Granters == {"grantcommit", "failed"}

(* The lock is held by one runner, from its first query to its last.       *)
OneMigrates ==
  /\ \A r \in Runners : pc[r] \in Holding => session[r] = "migrating"
  /\ \A r \in Runners : session[r] = "migrating" => pc[r] \in Holding \cup {"failed"}
  /\ \A q, r \in Runners :
       session[q] = "migrating" /\ session[r] = "migrating" => q = r

OneGrants ==
  /\ \A r \in Runners : pc[r] = "grantcommit" => session[r] = "granting"
  /\ \A r \in Runners : session[r] = "granting" => pc[r] \in Granters
  /\ \A q, r \in Runners :
       session[q] = "granting" /\ session[r] = "granting" => q = r

(* What the runner with the lock knows of the ledger.                      *)
Known(r) ==
  /\ session[r] # "migrating" => ran[r] = <<>> /\ recorded[r] = <<>>
  /\ pc[r] \in {"inspect", "run"} => ran[r] = <<>> /\ recorded[r] = <<>>
  /\ pc[r] \in {"run", "record"} => ~Drifts(files[r])
  /\ pc[r] = "record" => ran[r] = Pending(files[r])
  /\ Committing(r) =>
       /\ ~Drifts(files[r])
       /\ ran[r] = Pending(files[r])
       /\ recorded[r] = Pending(files[r])

StepsKnown == \A r \in Runners : Known(r)

(* The run got past reading its checkout; a failed one did if it committed. *)
PastReading(r) ==
  \/ pc[r] \notin {"read", "failed"}
  \/ pc[r] = "failed" /\ reason[r] = "commit"

Unambiguous ==
  \A r \in Runners : PastReading(r) => ~HasDuplicate(files[r])

SameFiles == \A q, r \in Runners : files[q] = files[r]

NeverDrifts ==
  SameFiles => \A r \in Runners : ~Drifts(files[r])

Checking == {"checkwriter", "checkreader", "expose", "done"}

(* What is about to be granted covers the files of the run that grants it, *)
(* and for the writer those of every run already past its grants.          *)
Resolving ==
  \A r \in Runners :
    /\ pc[r] \in {"grant", "grantwait"} => files[r] \subseteq resolved[r]
    /\ session[r] = "granting" => files[r] \subseteq offered[r]["reader"]

Offering ==
  \A q, r \in Runners :
    session[q] = "granting" /\ pc[r] \in Checking /\ "writer" \in present[r]
      => files[r] \subseteq offered[q]["writer"]

Reporting ==
  \A r \in Runners :
    /\ pc[r] \notin {"checkreader", "expose", "done", "failed"} => reported[r] = {}
    /\ reported[r] \subseteq present[r]
    /\ pc[r] \in {"checkreader", "expose", "done"} /\ "writer" \in reported[r]
         => files[r] \subseteq grants["writer"]

IInv ==
  /\ TypeOK
  /\ OneMigrates
  /\ OneGrants
  /\ StepsKnown
  /\ Unambiguous
  /\ LedgerAscends
  /\ RunAsRecorded
  /\ CaughtUp
  /\ PricesOfCaughtUp
  /\ NeverDrifts
  /\ RacersAgree
  /\ Resolving
  /\ Offering
  /\ Reporting

-----------------------------------------------------------------------------
(* The first pending file.                                                 *)

\* A nonempty set of naturals has a least member.
LEMMA LeastNat ==
  ASSUME NEW S \in SUBSET Nat, S # {}
  PROVE  \E n \in S : \A m \in S : n <= m
<1> DEFINE Initial == {0..n : n \in S}
<1>1. Initial \subseteq FiniteSubsetsOf(Nat) /\ Initial # {}
  <2>1. ASSUME NEW n \in Nat PROVE 0..n \in FiniteSubsetsOf(Nat)
    <3>1. IsFiniteSet(0..n)
      BY FS_Interval
    <3>2. 0..n \in SUBSET Nat
      OBVIOUS
    <3> QED
      BY <3>1, <3>2 DEF FiniteSubsetsOf
  <2> QED
    BY <2>1
<1>2. \E I \in Initial : \A J \in Initial : ~(<<J, I>> \in StrictSubsetOrdering(Nat))
  BY <1>1, FS_StrictSubsetOrderingWellFounded, WFMin
<1>3. PICK n \in S : \A m \in S : ~(<<0..m, 0..n>> \in StrictSubsetOrdering(Nat))
  BY <1>2
<1>4. \A m \in S : n <= m
  <2> SUFFICES ASSUME NEW m \in S, m < n PROVE FALSE
    OBVIOUS
  <2>1. 0..m \subseteq 0..n /\ 0..m # 0..n
    <3>1. n \in 0..n /\ n \notin 0..m
      OBVIOUS
    <3> QED
      BY <3>1
  <2>2. <<0..m, 0..n>> \in StrictSubsetOrdering(Nat)
    BY <2>1 DEF StrictSubsetOrdering
  <2> QED
    BY <2>2, <1>3
<1> QED
  BY <1>4

\* Pending is a file the ledger lacks, with the lowest version among them, or
\* nothing when the ledger lacks none.
LEMMA PendingIsFirst ==
  ASSUME NEW dir \in SUBSET File
  PROVE  \/ Missed(dir) = {} /\ Pending(dir) = <<>>
         \/ \E f \in Missed(dir) :
              /\ Pending(dir) = <<f>>
              /\ \A g \in Missed(dir) : VersionOf[f] <= VersionOf[g]
<1> USE MigrationsAssumption
<1>1. CASE Missed(dir) = {}
  BY <1>1 DEF Pending
<1>2. CASE Missed(dir) # {}
  <2> DEFINE S == {VersionOf[f] : f \in Missed(dir)}
  <2>1. Missed(dir) \subseteq File
    BY DEF Missed
  <2>2. S \in SUBSET Nat /\ S # {}
    BY <1>2, <2>1
  <2>3. PICK n \in S : \A m \in S : n <= m
    BY <2>2, LeastNat
  <2>4. \E f \in Missed(dir) : \A g \in Missed(dir) : VersionOf[f] <= VersionOf[g]
    BY <2>3
  <2> QED
    BY <1>2, <2>4 DEF Pending
<1> QED
  BY <1>1, <1>2

LEMMA PendingType ==
  ASSUME NEW dir \in SUBSET File
  PROVE  /\ Pending(dir) \in AtMostOne
         /\ Pending(dir) = <<>> <=> Missed(dir) = {}
         /\ Elements(Pending(dir)) \subseteq Missed(dir)
<1>1. CASE Missed(dir) = {} /\ Pending(dir) = <<>>
  BY <1>1 DEF AtMostOne, Elements
<1>2. CASE \E f \in Missed(dir) : Pending(dir) = <<f>>
  <2>1. PICK f \in Missed(dir) : Pending(dir) = <<f>>
    BY <1>2
  <2>2. f \in File
    BY DEF Missed
  <2>3. Elements(<<f>>) = {f}
    BY DEF Elements
  <2> QED
    BY <2>1, <2>2, <2>3 DEF AtMostOne
<1> QED
  BY <1>1, <1>2, PendingIsFirst

LEMMA AtMostOneIsSeq == AtMostOne \subseteq Seq(File)
<1>1. ASSUME NEW f \in File PROVE <<f>> \in Seq(File)
  OBVIOUS
<1>2. <<>> \in Seq(File)
  OBVIOUS
<1> QED
  BY <1>1, <1>2 DEF AtMostOne

LEMMA FilesAreFiles ==
  ASSUME TypeOK, NEW r \in Runners
  PROVE  files[r] \in SUBSET File
BY MigrationsAssumption DEF TypeOK

-----------------------------------------------------------------------------
(* Types.                                                                  *)

\* The initial states satisfy the invariant.
LEMMA InitIInv == Init => IInv
<1> SUFFICES ASSUME Init PROVE IInv
  OBVIOUS
<1>1. TypeOK
  BY DEF Init, TypeOK, NoGrants, AtMostOne, Places, Roles
<1>2. OneMigrates /\ OneGrants /\ StepsKnown /\ Unambiguous
  BY DEF Init, OneMigrates, OneGrants, StepsKnown, Known, Committing, Unambiguous,
         PastReading, Holding
<1>3. LedgerAscends /\ RunAsRecorded
  BY DEF Init, LedgerAscends, RunAsRecorded
<1>4. CaughtUp /\ PricesOfCaughtUp
  BY MigrationsAssumption DEF Init, CaughtUp, PricesOfCaughtUp, Migrated
<1>5. NeverDrifts /\ RacersAgree
  <2>1. Applied = {}
    BY DEF Init, Applied, Elements
  <2> QED
    BY <2>1 DEF Init, NeverDrifts, RacersAgree, Drifts
<1>6. Resolving /\ Offering /\ Reporting
  BY DEF Init, Resolving, Offering, Reporting, Checking
<1> QED
  BY <1>1, <1>2, <1>3, <1>4, <1>5, <1>6 DEF IInv

\* A transaction that ends leaves nothing behind.
LEMMA CloseType ==
  ASSUME TypeOK, NEW r \in Runners, Close(r)
  PROVE  /\ session' \in [Runners -> {"none", "migrating", "granting"}]
         /\ ran' \in [Runners -> AtMostOne]
         /\ recorded' \in [Runners -> AtMostOne]
         /\ offered' \in [Runners -> [Roles -> SUBSET File]]
<1>1. NoGrants \in [Roles -> SUBSET File]
  BY DEF NoGrants
<1>2. <<>> \in AtMostOne
  BY DEF AtMostOne
<1> QED
  BY <1>1, <1>2 DEF TypeOK, Close

LEMMA PublishStepType ==
  ASSUME TypeOK, NEW r \in Runners, PublishStep(r)
  PROVE  ledger' \in Seq(File) /\ schema' \in Seq(File)
<1>1. ran[r] \in Seq(File) /\ recorded[r] \in Seq(File)
  BY AtMostOneIsSeq DEF TypeOK
<1>2. ledger \in Seq(File) /\ schema \in Seq(File)
  BY DEF TypeOK
<1> QED
  BY <1>1, <1>2 DEF PublishStep

LEMMA PublishGrantsType ==
  ASSUME TypeOK, NEW r \in Runners, PublishGrants(r)
  PROVE  grants' \in [Roles -> SUBSET File]
BY DEF TypeOK, PublishGrants

LEMMA ObjectsType ==
  ASSUME TypeOK
  PROVE  Objects \subseteq File
BY DEF TypeOK, Objects, Elements

\* Every step keeps every variable's kind of value.
LEMMA TypeNext ==
  ASSUME TypeOK, [Next]_vars
  PROVE  TypeOK'
<1> USE DEF TypeOK
<1>1. ASSUME NEW r \in Runners, ReadFiles(r) PROVE TypeOK'
  BY <1>1 DEF ReadFiles, Fail, database, work, granting, Places
<1>2. ASSUME NEW r \in Runners, Lock(r) PROVE TypeOK'
  BY <1>2 DEF Lock, At, database, work, granting, Places
<1>3. ASSUME NEW r \in Runners, Inspect(r) PROVE TypeOK'
  BY <1>3 DEF Inspect, database, work, granting, Places
<1>4. ASSUME NEW r \in Runners, Run(r) PROVE TypeOK'
  <2>1. Pending(files[r]) \in AtMostOne
    BY FilesAreFiles, PendingType
  <2> QED
    BY <1>4, <2>1 DEF Run, At, database, granting, Places
<1>5. ASSUME NEW r \in Runners, RunFails(r) PROVE TypeOK'
  BY <1>5 DEF RunFails, At, database, work, granting, Places
<1>6. ASSUME NEW r \in Runners, Record(r) PROVE TypeOK'
  BY <1>6 DEF Record, database, granting, Places
<1>7. ASSUME NEW r \in Runners, Commit(r) PROVE TypeOK'
  <2>1. Close(r) /\ PublishStep(r)
    BY <1>7 DEF Commit, PublishStep
  <2> QED
    BY <1>7, <2>1, CloseType, PublishStepType DEF Commit, At, granting, Places
<1>8. ASSUME NEW r \in Runners, Rollback(r) PROVE TypeOK'
  <2>1. Close(r)
    BY <1>8 DEF Rollback
  <2> QED
    BY <1>8, <2>1, CloseType DEF Rollback, At, database, granting, Places
<1>9. ASSUME NEW r \in Runners, UpsertPrices(r) PROVE TypeOK'
  BY <1>9 DEF UpsertPrices, At, work, granting, Places
<1>10. ASSUME NEW r \in Runners, ExistingRoles(r) PROVE TypeOK'
  BY <1>10 DEF ExistingRoles, At, database, work, Places
<1>11. ASSUME NEW r \in Runners, Resolve(r) PROVE TypeOK'
  BY <1>11, ObjectsType DEF Resolve, At, database, work, Places
<1>12. ASSUME NEW r \in Runners, Grant(r) PROVE TypeOK'
  <2>1. Granted(r) \in [Roles -> SUBSET File]
    BY ObjectsType DEF Granted
  <2> QED
    BY <1>12, <2>1 DEF Grant, database, granting, Places
<1>13. ASSUME NEW r \in Runners, GrantBlocks(r) PROVE TypeOK'
  BY <1>13 DEF GrantBlocks, At, database, work, granting, Places
<1>14. ASSUME NEW places \in [Runners -> Places], WaitersFail(places)
       PROVE  /\ pc' \in [Runners -> Places]
              /\ reason' \in [Runners -> {"none", "duplicate", "drift", "sql",
                              "conflict", "connection", "commit", "grants"}]
  BY <1>14 DEF WaitersFail, Places
<1>15. ASSUME NEW r \in Runners, CommitGrants(r) PROVE TypeOK'
  <2>1. Close(r) /\ PublishGrants(r)
    BY <1>15 DEF CommitGrants, PublishGrants
  <2>2. [pc EXCEPT ![r] = "checkwriter"] \in [Runners -> Places]
    BY DEF Places
  <2>3. WaitersFail([pc EXCEPT ![r] = "checkwriter"])
    BY <1>15 DEF CommitGrants
  <2> QED
    BY <1>15, <2>1, <2>2, <2>3, <1>14, CloseType, PublishGrantsType
       DEF CommitGrants, granting
<1>16. ASSUME NEW r \in Runners, CheckWriter(r) PROVE TypeOK'
  BY <1>16 DEF CheckWriter, At, database, work, Places, Roles
<1>17. ASSUME NEW r \in Runners, CheckReader(r) PROVE TypeOK'
  BY <1>17 DEF CheckReader, At, database, work, Places, Roles
<1>18. ASSUME NEW r \in Runners, Expose(r) PROVE TypeOK'
  BY <1>18 DEF Expose, At, database, work, Places
<1>19. ASSUME NEW r \in Runners, LoseConnection(r) PROVE TypeOK'
  BY <1>19 DEF LoseConnection, Fail, database, work, granting, Places
<1>20. ASSUME NEW r \in Runners, ServerDrops(r) PROVE TypeOK'
  BY <1>20, CloseType DEF ServerDrops, database, granting
<1>21. ASSUME NEW r \in Runners, ServerCommitsStep(r) PROVE TypeOK'
  <2>1. Close(r) /\ PublishStep(r)
    BY <1>21 DEF ServerCommitsStep, PublishStep
  <2> QED
    BY <1>21, <2>1, CloseType, PublishStepType DEF ServerCommitsStep, granting
<1>22. ASSUME NEW r \in Runners, ServerCommitsGrants(r) PROVE TypeOK'
  <2>1. Close(r) /\ PublishGrants(r) /\ WaitersFail(pc)
    BY <1>22 DEF ServerCommitsGrants, PublishGrants
  <2> QED
    BY <1>22, <2>1, <1>14, CloseType, PublishGrantsType
       DEF ServerCommitsGrants, granting
<1>23. ASSUME NEW role \in Roles, CreateRole(role) PROVE TypeOK'
  BY <1>23 DEF CreateRole, work, granting
<1>24. CASE UNCHANGED vars
  BY <1>24 DEF vars, database, work, granting
<1> QED
  BY <1>1, <1>2, <1>3, <1>4, <1>5, <1>6, <1>7, <1>8, <1>9, <1>10, <1>11, <1>12,
     <1>13, <1>15, <1>16, <1>17, <1>18, <1>19, <1>20, <1>21, <1>22, <1>23, <1>24
     DEF Next, Migrate, GrantRoles, ServerEnds, Over

-----------------------------------------------------------------------------
(* The two transactions.                                                   *)

\* Places where no transaction is open.
Outside == {"read", "lock", "prices", "roles", "resolve", "grant", "grantwait",
            "checkwriter", "checkreader", "expose", "done"}

\* A step of r that begins and ends no transaction.
MovesWithin(r, places) ==
  /\ session' = session
  /\ pc[r] \in places
  /\ \A q \in Runners : q # r => pc'[q] = pc[q]
  /\ pc'[r] \in places

LEMMA QuietMoves ==
  ASSUME TypeOK, NEW r \in Runners,
         \/ UpsertPrices(r) \/ ExistingRoles(r) \/ Resolve(r) \/ GrantBlocks(r)
         \/ CheckWriter(r) \/ CheckReader(r) \/ Expose(r)
  PROVE  MovesWithin(r, Outside)
<1> USE DEF TypeOK, MovesWithin, Outside, At
<1>1. CASE UpsertPrices(r) \/ ExistingRoles(r)
  BY <1>1 DEF UpsertPrices, ExistingRoles
<1>2. CASE Resolve(r)
  BY <1>2 DEF Resolve
<1>3. CASE GrantBlocks(r)
  BY <1>3 DEF GrantBlocks
<1>4. CASE CheckWriter(r) \/ CheckReader(r) \/ Expose(r)
  BY <1>4 DEF CheckWriter, CheckReader, Expose
<1> QED
  BY <1>1, <1>2, <1>3, <1>4

LEMMA HoldingMoves ==
  ASSUME TypeOK, NEW r \in Runners,
         Inspect(r) \/ Run(r) \/ RunFails(r) \/ Record(r)
  PROVE  MovesWithin(r, Holding)
<1> USE DEF TypeOK, MovesWithin, Holding, At
<1>1. CASE Inspect(r)
  BY <1>1 DEF Inspect
<1>2. CASE Run(r) \/ RunFails(r)
  BY <1>2 DEF Run, RunFails
<1>3. CASE Record(r)
  BY <1>3 DEF Record
<1> QED
  BY <1>1, <1>2, <1>3

\* Committing the grants of r takes the waiting runs down.
LEMMA GrantsMoves ==
  ASSUME TypeOK, NEW r \in Runners, CommitGrants(r) \/ ServerCommitsGrants(r)
  PROVE  /\ session' = [session EXCEPT ![r] = "none"]
         /\ pc[r] \in Granters
         /\ \A q \in Runners :
              pc'[q] = IF pc[q] = "grantwait" THEN "failed"
                       ELSE IF q = r /\ pc[r] = "grantcommit" THEN "checkwriter"
                       ELSE pc[q]
<1> USE DEF TypeOK, PublishGrants, Close, WaitersFail, Waiting, Granters
<1>1. CASE CommitGrants(r)
  BY <1>1 DEF CommitGrants
<1>2. CASE ServerCommitsGrants(r)
  BY <1>2 DEF ServerCommitsGrants
<1> QED
  BY <1>1, <1>2

\* At most one runner is past the advisory lock, and it stays there exactly
\* while its queries need it.
LEMMA OneMigratesNext ==
  ASSUME TypeOK, OneMigrates, OneGrants, [Next]_vars
  PROVE  OneMigrates'
<1>0. /\ pc \in [Runners -> Places]
      /\ session \in [Runners -> {"none", "migrating", "granting"}]
  BY DEF TypeOK
<1> USE <1>0 DEF OneMigrates, OneGrants, Holding, Granters, Outside
<1>1. ASSUME NEW r \in Runners, ReadFiles(r) PROVE OneMigrates'
  <2>1. pc[r] = "read" /\ session' = session
    BY <1>1 DEF ReadFiles
  <2>2. \E place \in {"failed", "lock"} : pc' = [pc EXCEPT ![r] = place]
    BY <1>1 DEF ReadFiles, Fail
  <2> QED
    BY <2>1, <2>2
<1>2. ASSUME NEW r \in Runners, Lock(r) PROVE OneMigrates'
  BY <1>2 DEF Lock, At, LockFree
<1>3. ASSUME NEW r \in Runners, Inspect(r) \/ Run(r) \/ RunFails(r) \/ Record(r)
      PROVE OneMigrates'
  <2>1. MovesWithin(r, Holding)
    BY <1>3, HoldingMoves
  <2> QED
    BY <2>1 DEF MovesWithin
<1>4. ASSUME NEW r \in Runners, Commit(r) PROVE OneMigrates'
  BY <1>4 DEF Commit, PublishStep, Close, At
<1>5. ASSUME NEW r \in Runners, Rollback(r) PROVE OneMigrates'
  BY <1>5 DEF Rollback, Close, At
<1>6. ASSUME NEW r \in Runners,
             \/ UpsertPrices(r) \/ ExistingRoles(r) \/ Resolve(r) \/ GrantBlocks(r)
             \/ CheckWriter(r) \/ CheckReader(r) \/ Expose(r)
      PROVE OneMigrates'
  <2>1. MovesWithin(r, Outside)
    BY <1>6, QuietMoves
  <2> QED
    BY <2>1 DEF MovesWithin
<1>7. ASSUME NEW r \in Runners, Grant(r) PROVE OneMigrates'
  BY <1>7 DEF Grant, GrantFree
<1>8. ASSUME NEW r \in Runners, CommitGrants(r) \/ ServerCommitsGrants(r)
      PROVE OneMigrates'
  <2>1. \A q \in Runners : session'[q] = IF q = r THEN "none" ELSE session[q]
    BY <1>8, GrantsMoves
  <2>2. pc[r] \in Granters
    BY <1>8, GrantsMoves
  <2>3. \A q \in Runners :
          pc'[q] = IF pc[q] = "grantwait" THEN "failed"
                   ELSE IF q = r /\ pc[r] = "grantcommit" THEN "checkwriter"
                   ELSE pc[q]
    BY <1>8, GrantsMoves
  <2> QED
    BY <2>1, <2>2, <2>3
<1>9. ASSUME NEW r \in Runners, LoseConnection(r) PROVE OneMigrates'
  BY <1>9 DEF LoseConnection, Fail
<1>10. ASSUME NEW r \in Runners, ServerDrops(r) PROVE OneMigrates'
  BY <1>10 DEF ServerDrops, Close
<1>11. ASSUME NEW r \in Runners, ServerCommitsStep(r) PROVE OneMigrates'
  BY <1>11 DEF ServerCommitsStep, PublishStep, Close
<1>12. CASE (\E role \in Roles : CreateRole(role)) \/ UNCHANGED vars
  <2>1. pc' = pc /\ session' = session
    BY <1>12 DEF CreateRole, vars
  <2> QED
    BY <2>1
<1> QED
  BY <1>1, <1>2, <1>3, <1>4, <1>5, <1>6, <1>7, <1>8, <1>9, <1>10, <1>11, <1>12
     DEF Next, Migrate, GrantRoles, ServerEnds, Over

\* At most one runner has written grants it has not committed.
LEMMA OneGrantsNext ==
  ASSUME TypeOK, OneMigrates, OneGrants, [Next]_vars
  PROVE  OneGrants'
<1>0. /\ pc \in [Runners -> Places]
      /\ session \in [Runners -> {"none", "migrating", "granting"}]
  BY DEF TypeOK
<1> USE <1>0 DEF OneMigrates, OneGrants, Holding, Granters, Outside
<1>1. ASSUME NEW r \in Runners, ReadFiles(r) PROVE OneGrants'
  <2>1. pc[r] = "read" /\ session' = session
    BY <1>1 DEF ReadFiles
  <2>2. \E place \in {"failed", "lock"} : pc' = [pc EXCEPT ![r] = place]
    BY <1>1 DEF ReadFiles, Fail
  <2> QED
    BY <2>1, <2>2
<1>2. ASSUME NEW r \in Runners, Lock(r) PROVE OneGrants'
  BY <1>2 DEF Lock, At, LockFree
<1>3. ASSUME NEW r \in Runners, Inspect(r) \/ Run(r) \/ RunFails(r) \/ Record(r)
      PROVE OneGrants'
  <2>1. MovesWithin(r, Holding)
    BY <1>3, HoldingMoves
  <2> QED
    BY <2>1 DEF MovesWithin
<1>4. ASSUME NEW r \in Runners, Commit(r) PROVE OneGrants'
  BY <1>4 DEF Commit, PublishStep, Close, At
<1>5. ASSUME NEW r \in Runners, Rollback(r) PROVE OneGrants'
  BY <1>5 DEF Rollback, Close, At
<1>6. ASSUME NEW r \in Runners,
             \/ UpsertPrices(r) \/ ExistingRoles(r) \/ Resolve(r) \/ GrantBlocks(r)
             \/ CheckWriter(r) \/ CheckReader(r) \/ Expose(r)
      PROVE OneGrants'
  <2>1. MovesWithin(r, Outside)
    BY <1>6, QuietMoves
  <2> QED
    BY <2>1 DEF MovesWithin
<1>7. ASSUME NEW r \in Runners, Grant(r) PROVE OneGrants'
  BY <1>7 DEF Grant, GrantFree
<1>8. ASSUME NEW r \in Runners, CommitGrants(r) \/ ServerCommitsGrants(r)
      PROVE OneGrants'
  <2>1. \A q \in Runners : session'[q] = IF q = r THEN "none" ELSE session[q]
    BY <1>8, GrantsMoves
  <2>2. pc[r] \in Granters
    BY <1>8, GrantsMoves
  <2>3. \A q \in Runners :
          pc'[q] = IF pc[q] = "grantwait" THEN "failed"
                   ELSE IF q = r /\ pc[r] = "grantcommit" THEN "checkwriter"
                   ELSE pc[q]
    BY <1>8, GrantsMoves
  <2> QED
    BY <2>1, <2>2, <2>3
<1>9. ASSUME NEW r \in Runners, LoseConnection(r) PROVE OneGrants'
  BY <1>9 DEF LoseConnection, Fail
<1>10. ASSUME NEW r \in Runners, ServerDrops(r) PROVE OneGrants'
  BY <1>10 DEF ServerDrops, Close
<1>11. ASSUME NEW r \in Runners, ServerCommitsStep(r) PROVE OneGrants'
  BY <1>11 DEF ServerCommitsStep, PublishStep, Close
<1>12. CASE (\E role \in Roles : CreateRole(role)) \/ UNCHANGED vars
  <2>1. pc' = pc /\ session' = session
    BY <1>12 DEF CreateRole, vars
  <2> QED
    BY <2>1
<1> QED
  BY <1>1, <1>2, <1>3, <1>4, <1>5, <1>6, <1>7, <1>8, <1>9, <1>10, <1>11, <1>12
     DEF Next, Migrate, GrantRoles, ServerEnds, Over

-----------------------------------------------------------------------------
(* The ledger.                                                             *)

\* r publishes its step: one file, or none, is added to ledger and schema.
Publishes(r) ==
  /\ Committing(r)
  /\ \A q \in Runners : q # r => pc'[q] = pc[q]
  /\ pc'[r] \in {"prices", "lock", "failed"}
  /\ pc'[r] = "prices" => recorded[r] = <<>>
  /\ PublishStep(r)
  /\ UNCHANGED <<files, reason, prices, grants>>

\* Every other step leaves the ledger and the schema alone.
LEMMA LedgerSteps ==
  ASSUME TypeOK, OneMigrates, [Next]_vars
  PROVE  UNCHANGED <<ledger, schema, files>> \/ \E r \in Runners : Publishes(r)
<1> USE DEF TypeOK
<1>1. ASSUME NEW r \in Runners, Migrate(r), ~Commit(r)
      PROVE  UNCHANGED <<ledger, schema, files>>
  BY <1>1 DEF Migrate, ReadFiles, Inspect, Run, RunFails, Record, Rollback, database
<1>2. ASSUME NEW r \in Runners, Commit(r) PROVE Publishes(r)
  BY <1>2 DEF Commit, At, Publishes, Committing, OneMigrates, Holding
<1>3. ASSUME NEW r \in Runners, GrantRoles(r) \/ Lock(r) \/ Grant(r)
      PROVE  UNCHANGED <<ledger, schema, files>>
  BY <1>3 DEF GrantRoles, UpsertPrices, ExistingRoles, Resolve, GrantBlocks,
              CommitGrants, CheckWriter, CheckReader, Expose, Lock, Grant, database
<1>4. ASSUME NEW r \in Runners,
             LoseConnection(r) \/ ServerDrops(r) \/ ServerCommitsGrants(r)
      PROVE  UNCHANGED <<ledger, schema, files>>
  BY <1>4 DEF LoseConnection, ServerDrops, ServerCommitsGrants, database
<1>5. ASSUME NEW r \in Runners, ServerCommitsStep(r) PROVE Publishes(r)
  BY <1>5 DEF ServerCommitsStep, Publishes, Committing
<1>6. CASE (\E role \in Roles : CreateRole(role)) \/ UNCHANGED vars
  BY <1>6 DEF CreateRole, vars, database
<1> QED
  BY <1>1, <1>2, <1>3, <1>4, <1>5, <1>6 DEF Next, ServerEnds, Over

\* What a published step adds: the first file of the runner's checkout that the
\* ledger lacked, if it lacked any.
LEMMA Published ==
  ASSUME TypeOK, StepsKnown, NEW r \in Runners, Publishes(r)
  PROVE  /\ ~Drifts(files[r])
         /\ \/ /\ Missed(files[r]) = {}
               /\ recorded[r] = <<>>
               /\ UNCHANGED <<ledger, schema>>
            \/ /\ recorded[r] # <<>>
               /\ \E f \in Missed(files[r]) :
                    /\ f \in File
                    /\ ledger' = Append(ledger, f)
                    /\ schema' = Append(schema, f)
                    /\ Applied' = Applied \cup {f}
                    /\ \A g \in Missed(files[r]) : VersionOf[f] <= VersionOf[g]
<1>1. /\ ~Drifts(files[r])
      /\ ran[r] = Pending(files[r])
      /\ recorded[r] = Pending(files[r])
  BY DEF StepsKnown, Known, Publishes
<1>2. ledger' = ledger \o Pending(files[r]) /\ schema' = schema \o Pending(files[r])
  BY <1>1 DEF Publishes, PublishStep
<1>3. files[r] \in SUBSET File
  BY FilesAreFiles
<1>4. ledger \in Seq(File) /\ schema \in Seq(File)
  BY DEF TypeOK
<1>5. CASE Missed(files[r]) = {} /\ Pending(files[r]) = <<>>
  BY <1>1, <1>2, <1>4, <1>5
<1>6. ASSUME NEW f \in Missed(files[r]), Pending(files[r]) = <<f>>,
             \A g \in Missed(files[r]) : VersionOf[f] <= VersionOf[g]
      PROVE  /\ f \in File
             /\ ledger' = Append(ledger, f)
             /\ schema' = Append(schema, f)
             /\ Applied' = Applied \cup {f}
             /\ recorded[r] # <<>>
  <2>1. f \in File
    BY <1>3 DEF Missed
  <2>2. ledger' = Append(ledger, f) /\ schema' = Append(schema, f)
    BY <1>2, <1>4, <1>6, <2>1
  <2>3. Elements(Append(ledger, f)) = Elements(ledger) \cup {f}
    <3> DEFINE n == Len(ledger)
               longer == Append(ledger, f)
    <3>1. /\ n \in Nat /\ DOMAIN ledger = 1..n
          /\ DOMAIN longer = 1..(n + 1)
      BY <1>4, <2>1
    <3>2. longer[n + 1] = f /\ \A i \in 1..n : longer[i] = ledger[i]
      BY <1>4, <2>1
    <3>3. 1..(n + 1) = (1..n) \cup {n + 1}
      BY <3>1
    <3> HIDE DEF n, longer
    <3>4. {longer[i] : i \in (1..n) \cup {n + 1}} = {ledger[i] : i \in 1..n} \cup {f}
      BY <3>2
    <3> QED
      BY <3>1, <3>3, <3>4 DEF Elements, longer
  <2>4. Applied' = Applied \cup {f}
    BY <2>2, <2>3 DEF Applied, Elements
  <2>5. recorded[r] # <<>>
    BY <1>1, <1>6
  <2> QED
    BY <2>1, <2>2, <2>4, <2>5
<1> QED
  BY <1>1, <1>3, <1>5, <1>6, PendingIsFirst

LEMMA SameLedger ==
  ASSUME UNCHANGED <<ledger, files>>, NEW s \in Runners
  PROVE  /\ Drifts(files[s])' <=> Drifts(files[s])
         /\ Pending(files[s])' = Pending(files[s])
<1>1. Applied' = Applied
  BY DEF Applied, Elements
<1>2. Missed(files[s])' = Missed(files[s])
  BY <1>1 DEF Missed, Versions
<1> QED
  BY <1>1, <1>2 DEF Drifts, Pending

\* A runner without the lock has nothing to know.
LEMMA IdleKnown ==
  ASSUME NEW s \in Runners, session'[s] # "migrating", pc'[s] \notin Holding,
         ran'[s] = <<>>, recorded'[s] = <<>>
  PROVE  Known(s)'
BY DEF Known, Committing, Holding

LEMMA KeptKnown ==
  ASSUME NEW s \in Runners, Known(s), UNCHANGED <<ledger, files>>,
         pc'[s] = pc[s], reason'[s] = reason[s], session'[s] = session[s],
         ran'[s] = ran[s], recorded'[s] = recorded[s]
  PROVE  Known(s)'
BY SameLedger DEF Known, Committing

\* Publishing leaves no other runner with a belief about the ledger.
LEMMA StepsKnownPublish ==
  ASSUME TypeOK, OneMigrates, StepsKnown, NEW r \in Runners, Publishes(r)
  PROVE  StepsKnown'
<1>1. /\ pc \in [Runners -> Places]
      /\ session \in [Runners -> {"none", "migrating", "granting"}]
      /\ ran \in [Runners -> AtMostOne] /\ recorded \in [Runners -> AtMostOne]
  BY DEF TypeOK
<1>2. /\ session' = [session EXCEPT ![r] = "none"]
      /\ ran' = [ran EXCEPT ![r] = <<>>]
      /\ recorded' = [recorded EXCEPT ![r] = <<>>]
  BY DEF Publishes, PublishStep, Close
<1>3. SUFFICES ASSUME NEW s \in Runners PROVE Known(s)'
  BY DEF StepsKnown
<1>4. CASE s = r
  <2>1. pc'[r] \notin Holding
    BY DEF Publishes, Holding
  <2> QED
    BY <1>1, <1>2, <1>4, <2>1, IdleKnown
<1>5. CASE s # r
  <2>1. session[r] = "migrating" /\ pc'[s] = pc[s]
    BY <1>5 DEF Publishes, Committing
  <2>2. session[s] # "migrating" /\ pc[s] \notin Holding
    BY <1>5, <2>1 DEF OneMigrates
  <2>3. ran[s] = <<>> /\ recorded[s] = <<>>
    BY <2>2 DEF StepsKnown, Known
  <2> QED
    BY <1>1, <1>2, <1>5, <2>1, <2>2, <2>3, IdleKnown
<1> QED
  BY <1>4, <1>5

\* What the runner with the lock knows of the ledger stays true until it
\* publishes.
LEMMA StepsKnownNext ==
  ASSUME TypeOK, OneMigrates, OneGrants, StepsKnown, [Next]_vars
  PROVE  StepsKnown'
<1>0. /\ pc \in [Runners -> Places]
      /\ session \in [Runners -> {"none", "migrating", "granting"}]
      /\ ran \in [Runners -> AtMostOne] /\ recorded \in [Runners -> AtMostOne]
      /\ reason \in [Runners -> {"none", "duplicate", "drift", "sql", "conflict",
                                 "connection", "commit", "grants"}]
      /\ OneMigrates /\ OneGrants
      /\ OneMigrates' /\ OneGrants'
      /\ \A s \in Runners : Known(s)
  BY OneMigratesNext, OneGrantsNext DEF TypeOK, StepsKnown
<1> USE <1>0
\* Steps of a runner without the lock.
<1>1. ASSUME NEW r \in Runners,
             \/ UpsertPrices(r) \/ ExistingRoles(r) \/ Resolve(r) \/ GrantBlocks(r)
             \/ CheckWriter(r) \/ CheckReader(r) \/ Expose(r)
      PROVE  StepsKnown'
  <2>1. MovesWithin(r, Outside)
    BY <1>1, QuietMoves
  <2>2. UNCHANGED <<ledger, files, reason, ran, recorded>>
    BY <1>1 DEF UpsertPrices, ExistingRoles, Resolve, GrantBlocks, CheckWriter,
                CheckReader, Expose, database, work
  <2>3. session[r] # "migrating" /\ session'[r] # "migrating" /\ pc'[r] \notin Holding
    BY <2>1 DEF MovesWithin, Outside, OneMigrates, Holding
  <2>4. Known(r)'
    BY <2>2, <2>3, IdleKnown DEF Known
  <2>5. ASSUME NEW s \in Runners, s # r PROVE Known(s)'
    BY <2>1, <2>2, <2>5, KeptKnown DEF MovesWithin
  <2> QED
    BY <2>4, <2>5 DEF StepsKnown
<1>2. ASSUME NEW r \in Runners, CommitGrants(r) \/ ServerCommitsGrants(r)
      PROVE  StepsKnown'
  <2>1. UNCHANGED <<ledger, files>>
    BY <1>2 DEF CommitGrants, ServerCommitsGrants
  <2>2. /\ session' = [session EXCEPT ![r] = "none"]
        /\ ran' = [ran EXCEPT ![r] = <<>>]
        /\ recorded' = [recorded EXCEPT ![r] = <<>>]
    BY <1>2 DEF CommitGrants, ServerCommitsGrants, PublishGrants, Close
  <2>3. \A q \in Runners :
          /\ pc[q] # "grantwait" => reason'[q] = reason[q]
          /\ pc[q] = "grantwait" => pc'[q] = "failed"
          /\ pc[q] # "grantwait" /\ q # r => pc'[q] = pc[q]
    BY <1>2 DEF CommitGrants, ServerCommitsGrants, WaitersFail, Waiting
  <2>4. /\ pc[r] \in Granters
        /\ pc'[r] = IF pc[r] = "grantcommit" THEN "checkwriter" ELSE pc[r]
    BY <1>2, GrantsMoves DEF Granters
  <2>5. Known(r)'
    <3>1. session'[r] # "migrating" /\ ran'[r] = <<>> /\ recorded'[r] = <<>>
      BY <2>2
    <3>2. pc'[r] \notin Holding
      BY <2>4 DEF Granters, Holding
    <3> QED
      BY <3>1, <3>2, IdleKnown
  <2>6. ASSUME NEW s \in Runners, s # r, pc[s] = "grantwait" PROVE Known(s)'
    <3>1. session[s] # "migrating"
      BY <2>6 DEF OneMigrates, Holding
    <3>2. ran[s] = <<>> /\ recorded[s] = <<>>
      BY <3>1 DEF Known
    <3>3. pc'[s] \notin Holding
      BY <2>3, <2>6 DEF Holding
    <3> QED
      BY <2>2, <2>6, <3>1, <3>2, <3>3, IdleKnown
  <2>7. ASSUME NEW s \in Runners, s # r, pc[s] # "grantwait" PROVE Known(s)'
    BY <2>1, <2>2, <2>3, <2>7, KeptKnown
  <2> QED
    BY <2>5, <2>6, <2>7 DEF StepsKnown
<1>3. ASSUME NEW r \in Runners, Grant(r) PROVE StepsKnown'
  <2>1. /\ UNCHANGED <<ledger, files, reason, ran, recorded>>
        /\ pc[r] \in {"grant", "grantwait"}
        /\ pc' = [pc EXCEPT ![r] = "grantcommit"]
        /\ session' = [session EXCEPT ![r] = "granting"]
    BY <1>3 DEF Grant, database
  <2>2. session[r] # "migrating"
    BY <2>1 DEF OneMigrates, Holding
  <2>3. Known(r)'
    BY <2>1, <2>2, IdleKnown DEF Known, Holding
  <2>4. ASSUME NEW s \in Runners, s # r PROVE Known(s)'
    BY <2>1, <2>4, KeptKnown
  <2> QED
    BY <2>3, <2>4 DEF StepsKnown
\* Steps of the runner with the lock.
<1>4. ASSUME NEW r \in Runners, ReadFiles(r) \/ Lock(r) PROVE StepsKnown'
  <2>1. /\ UNCHANGED <<ledger, files, ran, recorded>>
        /\ pc[r] \in {"read", "lock"} /\ pc'[r] \in {"lock", "failed", "inspect"}
        /\ pc'[r] = "failed" => session'[r] = session[r]
        /\ \A q \in Runners : q # r =>
             pc'[q] = pc[q] /\ session'[q] = session[q] /\ reason'[q] = reason[q]
    BY <1>4 DEF ReadFiles, Lock, At, Fail, database, work
  <2>2. session[r] # "migrating"
    BY <2>1 DEF OneMigrates, Holding
  <2>3. ran[r] = <<>> /\ recorded[r] = <<>>
    BY <2>2 DEF Known
  <2>4. Known(r)'
    BY <2>1, <2>2, <2>3 DEF Known, Committing
  <2>5. ASSUME NEW s \in Runners, s # r PROVE Known(s)'
    BY <2>1, <2>5, KeptKnown
  <2> QED
    BY <2>4, <2>5 DEF StepsKnown
<1>5. ASSUME NEW r \in Runners, Inspect(r) \/ Run(r) \/ RunFails(r) \/ Record(r)
      PROVE  StepsKnown'
  <2>1. /\ UNCHANGED <<ledger, files>>
        /\ session' = session
        /\ \A q \in Runners : q # r =>
             /\ pc'[q] = pc[q] /\ reason'[q] = reason[q]
             /\ ran'[q] = ran[q] /\ recorded'[q] = recorded[q]
    BY <1>5 DEF Inspect, Run, RunFails, Record, At, database, work
  <2>2. session[r] = "migrating"
    BY <1>5, HoldingMoves DEF MovesWithin, OneMigrates
  <2>3. /\ Drifts(files[r])' <=> Drifts(files[r])
        /\ Pending(files[r])' = Pending(files[r])
    BY <2>1, SameLedger
  <2>4. ASSUME Inspect(r) PROVE Known(r)'
    BY <2>2, <2>3, <2>4 DEF Inspect, Known, Committing, work
  <2>5. ASSUME Run(r) PROVE Known(r)'
    BY <2>2, <2>3, <2>5 DEF Run, At, Known, Committing
  <2>6. ASSUME RunFails(r) PROVE Known(r)'
    BY <2>2, <2>3, <2>6 DEF RunFails, At, Known, Committing, work
  <2>7. ASSUME Record(r) PROVE Known(r)'
    BY <2>2, <2>3, <2>7 DEF Record, Known, Committing
  <2>8. ASSUME NEW s \in Runners, s # r PROVE Known(s)'
    BY <2>1, <2>8, KeptKnown
  <2> QED
    BY <1>5, <2>4, <2>5, <2>6, <2>7, <2>8 DEF StepsKnown
<1>6. ASSUME NEW r \in Runners, Commit(r) \/ ServerCommitsStep(r) PROVE StepsKnown'
  <2>1. Publishes(r)
    BY <1>6 DEF Commit, At, ServerCommitsStep, Publishes, Committing, OneMigrates,
                Holding
  <2> QED
    BY <2>1, StepsKnownPublish
<1>7. ASSUME NEW r \in Runners, Rollback(r) \/ ServerDrops(r) PROVE StepsKnown'
  <2>1. /\ UNCHANGED <<ledger, files, reason>>
        /\ session' = [session EXCEPT ![r] = "none"]
        /\ ran' = [ran EXCEPT ![r] = <<>>]
        /\ recorded' = [recorded EXCEPT ![r] = <<>>]
        /\ pc'[r] = "failed"
        /\ \A q \in Runners : q # r => pc'[q] = pc[q]
    BY <1>7 DEF Rollback, ServerDrops, At, Close, database
  <2>2. Known(r)'
    BY <2>1, IdleKnown DEF Holding
  <2>3. ASSUME NEW s \in Runners, s # r PROVE Known(s)'
    BY <2>1, <2>3, KeptKnown
  <2> QED
    BY <2>2, <2>3 DEF StepsKnown
<1>8. ASSUME NEW r \in Runners, LoseConnection(r) PROVE StepsKnown'
  <2>1. /\ UNCHANGED <<ledger, files, session, ran, recorded>>
        /\ pc' = [pc EXCEPT ![r] = "failed"]
        /\ reason' = [reason EXCEPT ![r] =
             IF pc[r] \in {"commit", "grantcommit"} THEN "commit" ELSE "connection"]
        /\ pc[r] \notin {"read", "done", "failed"}
    BY <1>8 DEF LoseConnection, Fail, database, work
  <2>2. Known(r)'
    <3>1. /\ Drifts(files[r])' <=> Drifts(files[r])
          /\ Pending(files[r])' = Pending(files[r])
      BY <2>1, SameLedger
    <3>2. pc[r] = "grantcommit" => session[r] # "migrating"
      BY DEF OneGrants
    <3> QED
      BY <2>1, <3>1, <3>2 DEF Known, Committing
  <2>3. ASSUME NEW s \in Runners, s # r PROVE Known(s)'
    BY <2>1, <2>3, KeptKnown
  <2> QED
    BY <2>2, <2>3 DEF StepsKnown
<1>9. CASE (\E role \in Roles : CreateRole(role)) \/ UNCHANGED vars
  <2>1. UNCHANGED <<ledger, files, pc, reason, session, ran, recorded>>
    BY <1>9 DEF CreateRole, vars, database, work
  <2> QED
    BY <2>1, KeptKnown DEF StepsKnown
<1> QED
  BY <1>1, <1>2, <1>3, <1>4, <1>5, <1>6, <1>7, <1>8, <1>9
     DEF Next, Migrate, GrantRoles, ServerEnds, Over

-----------------------------------------------------------------------------
(* What the ledger becomes.                                                *)

\* How s comes to where the invariant says something of it, and why a run
\* refuses the ledger.
Entered(s) ==
  /\ PastReading(s)' => PastReading(s) \/ ~HasDuplicate(files[s])
  /\ pc'[s] \in Migrated => pc[s] \in Migrated \/ Publishes(s)
  /\ reason'[s] \in {"drift", "conflict"} =>
       \/ reason'[s] = reason[s]
       \/ Drifts(files[s])
       \/ /\ pc[s] = "record"
          /\ Versions(Elements(ran[s])) \cap Versions(Applied) # {}

LEMMA Entering ==
  ASSUME TypeOK, OneMigrates, [Next]_vars
  PROVE  \A s \in Runners : Entered(s)
<1>0. /\ pc \in [Runners -> Places]
      /\ reason \in [Runners -> {"none", "duplicate", "drift", "sql", "conflict",
                                 "connection", "commit", "grants"}]
  BY DEF TypeOK
<1> USE <1>0 DEF Entered, Migrated, PastReading
<1>1. ASSUME NEW r \in Runners, ReadFiles(r) PROVE \A s \in Runners : Entered(s)
  <2>1. /\ HasDuplicate(files[r]) => pc'[r] = "failed" /\ reason'[r] = "duplicate"
        /\ ~HasDuplicate(files[r]) => pc'[r] = "lock" /\ reason'[r] = reason[r]
        /\ \A q \in Runners : q # r => pc'[q] = pc[q] /\ reason'[q] = reason[q]
    BY <1>1 DEF ReadFiles, Fail
  <2> QED
    BY <2>1
<1>2. ASSUME NEW r \in Runners, Lock(r) \/ Run(r) \/ RunFails(r) \/ Rollback(r)
      PROVE  \A s \in Runners : Entered(s)
  BY <1>2 DEF Lock, Run, RunFails, Rollback, At
<1>3. ASSUME NEW r \in Runners, Inspect(r) PROVE \A s \in Runners : Entered(s)
  BY <1>3 DEF Inspect
<1>4. ASSUME NEW r \in Runners, Record(r) PROVE \A s \in Runners : Entered(s)
  BY <1>4 DEF Record
<1>5. ASSUME NEW r \in Runners, Commit(r) PROVE \A s \in Runners : Entered(s)
  <2>1. Publishes(r)
    BY <1>5 DEF Commit, At, Publishes, Committing, OneMigrates, Holding
  <2>2. /\ pc[r] = "commit" /\ reason' = reason
        /\ \A q \in Runners : q # r => pc'[q] = pc[q]
    BY <1>5 DEF Commit, At
  <2> QED
    BY <2>1, <2>2
<1>6. ASSUME NEW r \in Runners,
             \/ UpsertPrices(r) \/ ExistingRoles(r) \/ Resolve(r) \/ GrantBlocks(r)
             \/ CheckWriter(r) \/ CheckReader(r) \/ Expose(r)
      PROVE  \A s \in Runners : Entered(s)
  <2>1. pc[r] \in Migrated /\ reason' = reason
    BY <1>6 DEF UpsertPrices, ExistingRoles, Resolve, GrantBlocks, CheckWriter,
                CheckReader, Expose, At
  <2>2. MovesWithin(r, Outside)
    BY <1>6, QuietMoves
  <2> QED
    BY <2>1, <2>2 DEF MovesWithin
<1>7. ASSUME NEW r \in Runners, Grant(r) PROVE \A s \in Runners : Entered(s)
  BY <1>7 DEF Grant
<1>8. ASSUME NEW r \in Runners, CommitGrants(r) \/ ServerCommitsGrants(r)
      PROVE  \A s \in Runners : Entered(s)
  <2>1. \A q \in Runners :
          pc'[q] = IF pc[q] = "grantwait" THEN "failed"
                   ELSE IF q = r /\ pc[r] = "grantcommit" THEN "checkwriter"
                   ELSE pc[q]
    BY <1>8, GrantsMoves
  <2>2. \A q \in Runners :
          reason'[q] = IF pc[q] = "grantwait" THEN "grants" ELSE reason[q]
    BY <1>8 DEF CommitGrants, ServerCommitsGrants, WaitersFail, Waiting
  <2> QED
    BY <2>1, <2>2
<1>9. ASSUME NEW r \in Runners, LoseConnection(r) PROVE \A s \in Runners : Entered(s)
  BY <1>9 DEF LoseConnection, Fail
<1>10. ASSUME NEW r \in Runners, ServerDrops(r) \/ ServerCommitsStep(r)
       PROVE \A s \in Runners : Entered(s)
  BY <1>10 DEF ServerDrops, ServerCommitsStep
<1>11. CASE (\E role \in Roles : CreateRole(role)) \/ UNCHANGED vars
  <2>1. pc' = pc /\ reason' = reason
    BY <1>11 DEF CreateRole, vars
  <2> QED
    BY <2>1
<1> QED
  BY <1>1, <1>2, <1>3, <1>4, <1>5, <1>6, <1>7, <1>8, <1>9, <1>10, <1>11
     DEF Next, Migrate, GrantRoles, ServerEnds, Over

LEMMA UnambiguousNext ==
  ASSUME TypeOK, OneMigrates, Unambiguous, [Next]_vars
  PROVE  Unambiguous'
<1>1. files' = files
  BY LedgerSteps DEF Publishes
<1>2. \A s \in Runners : HasDuplicate(files[s])' <=> HasDuplicate(files[s])
  BY <1>1 DEF HasDuplicate
<1> QED
  BY <1>2, Entering DEF Entered, Unambiguous

\* A ledger that grows at its end, by a file later than all before it, keeps
\* its order.
LEMMA LedgerAscendsNext ==
  ASSUME TypeOK, OneMigrates, StepsKnown, LedgerAscends, [Next]_vars
  PROVE  LedgerAscends'
<1>1. CASE ledger' = ledger
  BY <1>1 DEF LedgerAscends
<1>2. ASSUME NEW r \in Runners, Publishes(r), ledger' # ledger
      PROVE  LedgerAscends'
  <2>1. PICK f \in Missed(files[r]) : f \in File /\ ledger' = Append(ledger, f)
    BY <1>2, Published
  <2>2. ~Drifts(files[r])
    BY <1>2, Published
  <2>3. ledger \in Seq(File)
    BY DEF TypeOK
  <2>4. ASSUME NEW g \in Applied PROVE VersionOf[g] < VersionOf[f]
    <3>1. ~(VersionOf[f] < VersionOf[g])
      BY <2>2 DEF Drifts
    <3>2. VersionOf[f] # VersionOf[g]
      BY DEF Missed, Versions
    <3>3. g \in File
      BY <2>3 DEF Applied, Elements
    <3> QED
      BY <2>1, <3>1, <3>2, <3>3, MigrationsAssumption
  <2>5. /\ DOMAIN ledger = 1..Len(ledger) /\ Len(ledger) \in Nat
        /\ DOMAIN ledger' = 1..(Len(ledger) + 1)
        /\ ledger'[Len(ledger) + 1] = f
        /\ \A i \in 1..Len(ledger) : ledger'[i] = ledger[i]
    BY <2>1, <2>3
  <2>6. \A i \in DOMAIN ledger : ledger[i] \in Applied
    BY DEF Applied, Elements
  <2> SUFFICES ASSUME NEW i \in DOMAIN ledger', NEW j \in DOMAIN ledger', i < j
               PROVE  VersionOf[ledger'[i]] < VersionOf[ledger'[j]]
    BY DEF LedgerAscends
  <2>7. i \in DOMAIN ledger /\ (j \in DOMAIN ledger \/ j = Len(ledger) + 1)
    BY <2>5
  <2> QED
    BY <2>4, <2>5, <2>6, <2>7 DEF LedgerAscends
<1> QED
  BY <1>1, <1>2, LedgerSteps

LEMMA RunAsRecordedNext ==
  ASSUME TypeOK, OneMigrates, StepsKnown, RunAsRecorded, [Next]_vars
  PROVE  RunAsRecorded'
<1>1. ASSUME NEW r \in Runners, Publishes(r) PROVE RunAsRecorded'
  BY <1>1, Published DEF RunAsRecorded
<1> QED
  BY <1>1, LedgerSteps DEF RunAsRecorded

\* A checkout whose files begin the ledger keeps that place, for the ledger
\* only grows.
LEMMA CaughtStays ==
  ASSUME TypeOK, OneMigrates, StepsKnown, [Next]_vars, NEW s \in Runners, Caught(s)
  PROVE  Caught(s)'
<1>1. files' = files
  BY LedgerSteps DEF Publishes
<1>2. CASE ledger' = ledger
  BY <1>1, <1>2 DEF Caught, Elements
<1>3. ASSUME NEW r \in Runners, Publishes(r), ledger' # ledger PROVE Caught(s)'
  <2>1. PICK f \in File : ledger' = Append(ledger, f)
    BY <1>3, Published
  <2>2. ledger \in Seq(File)
    BY DEF TypeOK
  <2>3. PICK n \in 0..Len(ledger) : files[s] = Elements(SubSeq(ledger, 1, n))
    BY DEF Caught
  <2>4. n \in 0..Len(ledger') /\ SubSeq(ledger', 1, n) = SubSeq(ledger, 1, n)
    BY <2>1, <2>2
  <2> QED
    BY <1>1, <2>3, <2>4 DEF Caught, Elements
<1> QED
  BY <1>2, <1>3, LedgerSteps

\* Nothing pending and no drift: the checkout and the ledger have the same files.
LEMMA NothingPending ==
  ASSUME TypeOK, NEW r \in Runners,
         ~Drifts(files[r]), Missed(files[r]) = {}, ~HasDuplicate(files[r])
  PROVE  files[r] = Applied
<1>1. Applied \subseteq files[r]
  BY DEF Drifts
<1>2. ASSUME NEW f \in files[r] PROVE f \in Applied
  <2>1. VersionOf[f] \in Versions(Applied)
    BY DEF Missed
  <2>2. PICK g \in Applied : VersionOf[f] = VersionOf[g]
    BY <2>1 DEF Versions
  <2> QED
    BY <1>1, <2>2 DEF HasDuplicate
<1> QED
  BY <1>1, <1>2

LEMMA CaughtUpNext ==
  ASSUME TypeOK, OneMigrates, StepsKnown, Unambiguous, CaughtUp, [Next]_vars
  PROVE  CaughtUp'
<1>1. SUFFICES ASSUME NEW s \in Runners, pc'[s] \in Migrated
               PROVE  Caught(s)'
  BY DEF CaughtUp
<1>2. CASE pc[s] \in Migrated
  BY <1>2, CaughtStays DEF CaughtUp
<1>3. CASE Publishes(s)
  <2>1. recorded[s] = <<>>
    BY <1>1, <1>3 DEF Publishes, Migrated
  <2>2. ~Drifts(files[s]) /\ Missed(files[s]) = {}
    BY <1>3, <2>1, Published
  <2>3. ~HasDuplicate(files[s])
    <3>1. ~HasDuplicate(files[s])'
      BY <1>1, UnambiguousNext DEF Unambiguous, Migrated, PastReading
    <3>2. files' = files
      BY <1>3 DEF Publishes
    <3> QED
      BY <3>1, <3>2 DEF HasDuplicate
  <2>4. files[s] = Applied
    BY <2>2, <2>3, NothingPending
  <2>5. Len(ledger) \in 0..Len(ledger) /\ SubSeq(ledger, 1, Len(ledger)) = ledger
    BY DEF TypeOK
  <2>6. Caught(s)
    BY <2>4, <2>5 DEF Caught, Applied
  <2> QED
    BY <2>6, CaughtStays
<1> QED
  BY <1>1, <1>2, <1>3, Entering DEF Entered

LEMMA PricesNext ==
  ASSUME TypeOK, OneMigrates, StepsKnown, CaughtUp, PricesOfCaughtUp, [Next]_vars
  PROVE  PricesOfCaughtUp'
<1>0. prices \in Runners \cup {NoOne} /\ NoOne \notin Runners
  BY MigrationsAssumption DEF TypeOK
<1>1. prices' = prices \/ \E r \in Runners : UpsertPrices(r)
  <2>1. ASSUME NEW r \in Runners, Migrate(r) PROVE prices' = prices
    BY <2>1 DEF Migrate, ReadFiles, Inspect, Run, RunFails, Record, Commit, Rollback,
                database
  <2>2. ASSUME NEW r \in Runners, GrantRoles(r), ~UpsertPrices(r)
        PROVE  prices' = prices
    BY <2>2 DEF GrantRoles, ExistingRoles, Resolve, GrantBlocks, CommitGrants,
                CheckWriter, CheckReader, Expose, database
  <2>3. ASSUME NEW r \in Runners,
               Lock(r) \/ Grant(r) \/ LoseConnection(r) \/ ServerEnds(r)
        PROVE  prices' = prices
    BY <2>3 DEF Lock, Grant, LoseConnection, ServerEnds, ServerDrops,
                ServerCommitsStep, ServerCommitsGrants, database
  <2>4. CASE (\E role \in Roles : CreateRole(role)) \/ UNCHANGED vars
    BY <2>4 DEF CreateRole, vars, database
  <2> QED
    BY <2>1, <2>2, <2>3, <2>4 DEF Next, Over
<1>2. CASE prices' = prices
  BY <1>0, <1>2, CaughtStays DEF PricesOfCaughtUp, Caught
<1>3. ASSUME NEW r \in Runners, UpsertPrices(r) PROVE PricesOfCaughtUp'
  <2>1. prices' = r /\ pc[r] \in Migrated
    BY <1>3 DEF UpsertPrices, At, Migrated
  <2>2. Caught(r)'
    BY <2>1, CaughtStays DEF CaughtUp
  <2> QED
    BY <2>1, <2>2 DEF PricesOfCaughtUp, Caught
<1> QED
  BY <1>1, <1>2, <1>3

\* What the ledger takes in is what the runner's checkout has next: it does not
\* drift from that checkout.
LEMMA NoDriftAfter ==
  ASSUME TypeOK, StepsKnown, NEW r \in Runners, Publishes(r)
  PROVE  ~Drifts(files[r])'
<1>1. ~Drifts(files[r]) /\ files' = files
  BY Published DEF Publishes
<1>2. CASE ledger' = ledger
  BY <1>1, <1>2, SameLedger
<1>3. CASE ledger' # ledger
  <2>1. PICK f \in Missed(files[r]) :
          /\ f \in File
          /\ Applied' = Applied \cup {f}
          /\ \A g \in Missed(files[r]) : VersionOf[f] <= VersionOf[g]
    BY <1>3, Published
  <2>2. f \in files[r] /\ VersionOf[f] \notin Versions(Applied)
    BY DEF Missed
  <2>3. Applied' \subseteq files[r]
    BY <1>1, <2>1, <2>2 DEF Drifts
  <2>4. ASSUME NEW g \in Missed(files[r])', NEW h \in Applied'
        PROVE  ~(VersionOf[g] < VersionOf[h])
    <3>1. g \in files[r] /\ VersionOf[g] \notin Versions(Applied)'
      BY <1>1 DEF Missed
    <3>2. Versions(Applied)' = Versions(Applied) \cup {VersionOf[f]}
      BY <2>1 DEF Versions
    <3>3. g \in Missed(files[r])
      BY <3>1, <3>2 DEF Missed
    <3>4. CASE h = f
      <4>1. g \in File
        BY <3>3, FilesAreFiles DEF Missed
      <4> QED
        BY <2>1, <3>3, <3>4, <4>1, MigrationsAssumption
    <3>5. CASE h \in Applied
      BY <1>1, <3>3, <3>5 DEF Drifts
    <3> QED
      BY <2>1, <3>4, <3>5
  <2> QED
    BY <1>1, <2>3, <2>4 DEF Drifts
<1> QED
  BY <1>2, <1>3

LEMMA NeverDriftsNext ==
  ASSUME TypeOK, OneMigrates, StepsKnown, NeverDrifts, [Next]_vars
  PROVE  NeverDrifts'
<1>1. files' = files
  BY LedgerSteps DEF Publishes
<1>2. CASE ledger' = ledger
  BY <1>1, <1>2, SameLedger DEF NeverDrifts, SameFiles
<1>3. ASSUME NEW r \in Runners, Publishes(r), SameFiles, NEW s \in Runners
      PROVE  ~Drifts(files[s])'
  <2>1. ~Drifts(files[r])'
    BY <1>3, NoDriftAfter
  <2>2. files[s]' = files[r]'
    BY <1>1, <1>3 DEF SameFiles
  <2> QED
    BY <2>1, <2>2 DEF Drifts
<1>4. SameFiles' <=> SameFiles
  BY <1>1 DEF SameFiles
<1> QED
  BY <1>2, <1>3, <1>4, LedgerSteps DEF NeverDrifts

LEMMA RacersAgreeNext ==
  ASSUME TypeOK, OneMigrates, StepsKnown, NeverDrifts, RacersAgree, [Next]_vars
  PROVE  RacersAgree'
<1>1. files' = files
  BY LedgerSteps DEF Publishes
<1>2. ASSUME SameFiles, NEW s \in Runners, reason'[s] \in {"drift", "conflict"}
      PROVE  FALSE
  <2>1. reason[s] \notin {"drift", "conflict"}
    BY <1>2 DEF RacersAgree, SameFiles
  <2>2. ~Drifts(files[s])
    BY <1>2 DEF NeverDrifts
  <2>3. pc[s] = "record" => Versions(Elements(ran[s])) \cap Versions(Applied) = {}
    <3>1. SUFFICES ASSUME pc[s] = "record"
                   PROVE  Versions(Elements(ran[s])) \cap Versions(Applied) = {}
      OBVIOUS
    <3>2. ran[s] = Pending(files[s])
      BY <3>1 DEF StepsKnown, Known
    <3>3. Elements(Pending(files[s])) \subseteq Missed(files[s])
      BY FilesAreFiles, PendingType
    <3> QED
      BY <3>2, <3>3 DEF Missed, Versions
  <2> QED
    BY <1>2, <2>1, <2>2, <2>3, Entering DEF Entered
<1> QED
  BY <1>1, <1>2 DEF RacersAgree, SameFiles

-----------------------------------------------------------------------------
(* The grants.                                                             *)

Late == {"checkreader", "expose", "done"}

\* r commits what its transaction grants.
Publicizes(r) ==
  /\ session[r] = "granting"
  /\ session' = [session EXCEPT ![r] = "none"]
  /\ grants' = [role \in Roles |->
                  IF role \in present[r] THEN offered[r][role] ELSE grants[role]]

\* How s comes to what the invariant says of its grants.
GrantsEntered(s) ==
  /\ pc'[s] \in {"grant", "grantwait"} =>
       \/ pc[s] = "resolve" /\ resolved'[s] = Objects
       \/ pc[s] \in {"grant", "grantwait"} /\ resolved'[s] = resolved[s]
  /\ session'[s] = "granting" =>
       \/ session[s] = "granting" /\ offered'[s] = offered[s]
       \/ pc[s] \in {"grant", "grantwait"} /\ offered'[s] = Granted(s)
  /\ pc'[s] \in Checking =>
       /\ present'[s] = present[s]
       /\ \/ pc[s] \in Checking
          \/ pc[s] = "resolve" /\ present[s] = {}
          \/ pc[s] = "grantcommit" /\ session'[s] = "none"
  /\ reported'[s] # reported[s] =>
       /\ pc'[s] \in Late /\ present'[s] = present[s]
       /\ reported'[s] \subseteq present[s] \cup reported[s]
       /\ "writer" \in reported'[s] =>
            \/ "writer" \in reported[s] /\ pc[s] \in Late
            \/ pc[s] = "checkwriter" /\ Objects \subseteq grants["writer"]
  /\ present'[s] # present[s] => pc[s] = "roles" /\ pc'[s] = "resolve"
  /\ pc[s] \in Late \cup {"failed"} => pc'[s] \in Late \cup {"failed"}
  /\ pc'[s] \in Late =>
       \/ pc[s] \in Late
       \/ pc[s] = "resolve" /\ reported'[s] = reported[s]
       \/ pc[s] = "checkwriter" /\ pc'[s] = "checkreader"
          /\ ("writer" \in reported'[s] => Objects \subseteq grants["writer"])

LEMMA GrantsEntering ==
  ASSUME TypeOK, OneMigrates, OneGrants, [Next]_vars
  PROVE  /\ \A s \in Runners : GrantsEntered(s)
         /\ UNCHANGED grants \/ \E r \in Runners : Publicizes(r)
<1>0. /\ pc \in [Runners -> Places]
      /\ session \in [Runners -> {"none", "migrating", "granting"}]
      /\ offered \in [Runners -> [Roles -> SUBSET File]]
      /\ present \in [Runners -> SUBSET Roles]
      /\ resolved \in [Runners -> SUBSET File]
      /\ reported \in [Runners -> SUBSET Roles]
  BY DEF TypeOK
<1> USE <1>0 DEF GrantsEntered, Checking, Late
<1>1. ASSUME NEW r \in Runners, ReadFiles(r) \/ Inspect(r) \/ Record(r) \/ Run(r)
             \/ RunFails(r)
      PROVE  (\A s \in Runners : GrantsEntered(s)) /\ UNCHANGED grants
  <2>1. /\ UNCHANGED <<grants, session, offered, present, resolved, reported>>
        /\ \A q \in Runners : q # r => pc'[q] = pc[q]
        /\ pc[r] \notin Late \cup {"failed"}
        /\ pc'[r] \in {"lock", "failed", "run", "record", "commit", "rollback"}
    BY <1>1 DEF ReadFiles, Fail, Inspect, Record, Run, RunFails, At, database, work,
                granting
  <2> QED
    BY <2>1
<1>2. ASSUME NEW r \in Runners, Lock(r)
      PROVE  (\A s \in Runners : GrantsEntered(s)) /\ UNCHANGED grants
  BY <1>2 DEF Lock, At, database, work, granting
<1>3. ASSUME NEW r \in Runners, Commit(r) \/ Rollback(r)
      PROVE  (\A s \in Runners : GrantsEntered(s)) /\ UNCHANGED grants
  <2>1. /\ UNCHANGED <<grants, present, resolved, reported>>
        /\ session' = [session EXCEPT ![r] = "none"]
        /\ offered' = [offered EXCEPT ![r] = NoGrants]
        /\ \A q \in Runners : q # r => pc'[q] = pc[q]
        /\ pc[r] \notin Late \cup {"failed"}
        /\ pc'[r] \in {"prices", "lock", "failed"}
    BY <1>3 DEF Commit, Rollback, PublishStep, Close, At, database, granting
  <2> QED
    BY <2>1
<1>4. ASSUME NEW r \in Runners, UpsertPrices(r) \/ GrantBlocks(r)
      PROVE  (\A s \in Runners : GrantsEntered(s)) /\ UNCHANGED grants
  BY <1>4 DEF UpsertPrices, GrantBlocks, At, database, work, granting
<1>5. ASSUME NEW r \in Runners, ExistingRoles(r)
      PROVE  (\A s \in Runners : GrantsEntered(s)) /\ UNCHANGED grants
  BY <1>5 DEF ExistingRoles, At, database, work
<1>6. ASSUME NEW r \in Runners, Resolve(r)
      PROVE  (\A s \in Runners : GrantsEntered(s)) /\ UNCHANGED grants
  BY <1>6 DEF Resolve, At, database, work
<1>7. ASSUME NEW r \in Runners, Grant(r)
      PROVE  (\A s \in Runners : GrantsEntered(s)) /\ UNCHANGED grants
  BY <1>7 DEF Grant, database, granting
<1>8. ASSUME NEW r \in Runners, CommitGrants(r) \/ ServerCommitsGrants(r)
      PROVE  (\A s \in Runners : GrantsEntered(s)) /\ Publicizes(r)
  <2>1. /\ UNCHANGED <<present, resolved, reported>>
        /\ session' = [session EXCEPT ![r] = "none"]
        /\ offered' = [offered EXCEPT ![r] = NoGrants]
        /\ grants' = [role \in Roles |->
                  IF role \in present[r] THEN offered[r][role] ELSE grants[role]]
        /\ session[r] = "granting"
    BY <1>8 DEF CommitGrants, ServerCommitsGrants, PublishGrants, Close, granting,
                OneGrants
  <2>2. \A q \in Runners :
          pc'[q] = IF pc[q] = "grantwait" THEN "failed"
                   ELSE IF q = r /\ pc[r] = "grantcommit" THEN "checkwriter"
                   ELSE pc[q]
    BY <1>8, GrantsMoves
  <2>3. \A s \in Runners : GrantsEntered(s)
    BY <2>1, <2>2
  <2> QED
    BY <2>1, <2>3 DEF Publicizes
<1>9. ASSUME NEW r \in Runners, CheckWriter(r)
      PROVE  (\A s \in Runners : GrantsEntered(s)) /\ UNCHANGED grants
  BY <1>9 DEF CheckWriter, At, database, work
<1>10. ASSUME NEW r \in Runners, CheckReader(r)
       PROVE (\A s \in Runners : GrantsEntered(s)) /\ UNCHANGED grants
  <2>1. /\ UNCHANGED <<grants, session, offered, present, resolved>>
        /\ pc[r] = "checkreader" /\ pc' = [pc EXCEPT ![r] = "expose"]
        /\ \A q \in Runners : q # r => reported'[q] = reported[q]
        /\ reported'[r] \subseteq reported[r] \cup present[r]
        /\ "writer" \in reported'[r] => "writer" \in reported[r]
    BY <1>10 DEF CheckReader, At, database, work
  <2> QED
    BY <2>1
<1>11. ASSUME NEW r \in Runners, Expose(r)
       PROVE (\A s \in Runners : GrantsEntered(s)) /\ UNCHANGED grants
  <2>1. /\ UNCHANGED <<grants, session, offered, present, resolved>>
        /\ pc[r] = "expose" /\ pc' = [pc EXCEPT ![r] = "done"]
        /\ \A q \in Runners : q # r => reported'[q] = reported[q]
        /\ reported'[r] \subseteq reported[r]
    BY <1>11 DEF Expose, At, database, work
  <2> QED
    BY <2>1
<1>12. ASSUME NEW r \in Runners, LoseConnection(r)
       PROVE (\A s \in Runners : GrantsEntered(s)) /\ UNCHANGED grants
  BY <1>12 DEF LoseConnection, Fail, database, work, granting
<1>13. ASSUME NEW r \in Runners, ServerDrops(r) \/ ServerCommitsStep(r)
       PROVE (\A s \in Runners : GrantsEntered(s)) /\ UNCHANGED grants
  <2>1. /\ UNCHANGED <<grants, pc, present, resolved, reported>>
        /\ session' = [session EXCEPT ![r] = "none"]
        /\ offered' = [offered EXCEPT ![r] = NoGrants]
    BY <1>13 DEF ServerDrops, ServerCommitsStep, PublishStep, Close, database, granting
  <2> QED
    BY <2>1
<1>14. CASE (\E role \in Roles : CreateRole(role)) \/ UNCHANGED vars
  <2>1. UNCHANGED <<grants, pc, session, offered, present, resolved, reported>>
    BY <1>14 DEF CreateRole, vars, database, work, granting
  <2> QED
    BY <2>1
<1> QED
  BY <1>1, <1>2, <1>3, <1>4, <1>5, <1>6, <1>7, <1>8, <1>9, <1>10, <1>11, <1>12,
     <1>13, <1>14 DEF Next, Migrate, GrantRoles, ServerEnds, Over

\* Past applyMigrations, a run's files have all been carried out.
LEMMA FilesAreObjects ==
  ASSUME TypeOK, RunAsRecorded, CaughtUp, NEW s \in Runners, pc[s] \in Migrated
  PROVE  files[s] \subseteq Objects
<1>1. PICK n \in 0..Len(ledger) : files[s] = Elements(SubSeq(ledger, 1, n))
  BY DEF CaughtUp, Caught
<1>2. ledger \in Seq(File) /\ schema = ledger
  BY DEF TypeOK, RunAsRecorded
<1>3. Elements(SubSeq(ledger, 1, n)) \subseteq Elements(ledger)
  <2>1. DOMAIN SubSeq(ledger, 1, n) = 1..n /\ 1..n \subseteq DOMAIN ledger
    BY <1>2
  <2>2. \A i \in 1..n : SubSeq(ledger, 1, n)[i] = ledger[i]
    BY <1>2
  <2> QED
    BY <2>1, <2>2 DEF Elements
<1> QED
  BY <1>1, <1>2, <1>3 DEF Objects

LEMMA ResolvingNext ==
  ASSUME TypeOK, OneMigrates, OneGrants, RunAsRecorded, CaughtUp, Resolving,
         [Next]_vars
  PROVE  Resolving'
<1>0. files' = files /\ \A s \in Runners : GrantsEntered(s)
  BY LedgerSteps, GrantsEntering DEF Publishes
<1>1. ASSUME NEW s \in Runners, pc'[s] \in {"grant", "grantwait"}
      PROVE  files[s] \subseteq resolved'[s]
  <2>1. pc[s] = "resolve" => files[s] \subseteq Objects
    BY FilesAreObjects DEF Migrated
  <2> QED
    BY <1>0, <1>1, <2>1 DEF GrantsEntered, Resolving
<1>2. ASSUME NEW s \in Runners, session'[s] = "granting"
      PROVE  files[s] \subseteq offered'[s]["reader"]
  <2>1. CASE session[s] = "granting" /\ offered'[s] = offered[s]
    BY <2>1 DEF Resolving
  <2>2. CASE pc[s] \in {"grant", "grantwait"} /\ offered'[s] = Granted(s)
    <3>1. offered'[s]["reader"] = resolved[s]
      BY <2>2 DEF Granted, Roles
    <3> QED
      BY <2>2, <3>1 DEF Resolving
  <2> QED
    BY <1>0, <1>2, <2>1, <2>2 DEF GrantsEntered
<1> QED
  BY <1>0, <1>1, <1>2 DEF Resolving

LEMMA OfferingNext ==
  ASSUME TypeOK, OneMigrates, OneGrants, RunAsRecorded, CaughtUp, Offering,
         [Next]_vars
  PROVE  Offering'
<1>0. files' = files /\ \A s \in Runners : GrantsEntered(s)
  BY LedgerSteps, GrantsEntering DEF Publishes
<1>1. SUFFICES ASSUME NEW q \in Runners, NEW r \in Runners, session'[q] = "granting",
                      pc'[r] \in Checking, "writer" \in present'[r]
               PROVE  files[r] \subseteq offered'[q]["writer"]
  BY <1>0 DEF Offering
<1>2. present'[r] = present[r] /\ pc[r] \in Checking \cup {"grantcommit"}
  BY <1>0, <1>1 DEF GrantsEntered
<1>3. CASE session[q] = "granting" /\ offered'[q] = offered[q]
  <2>1. pc[r] = "grantcommit" => r # q /\ session[r] = "granting"
    BY <1>0, <1>1 DEF GrantsEntered, OneGrants, Checking
  <2>2. pc[r] \in Checking
    BY <1>2, <1>3, <2>1 DEF OneGrants
  <2> QED
    BY <1>1, <1>2, <1>3, <2>2 DEF Offering
<1>4. CASE offered'[q] = Granted(q)
  <2>1. files[r] \subseteq Objects
    BY <1>2, FilesAreObjects DEF Checking, Migrated
  <2> QED
    BY <1>4, <2>1 DEF Granted, Roles
<1> QED
  BY <1>0, <1>1, <1>3, <1>4 DEF GrantsEntered

LEMMA ReportingNext ==
  ASSUME TypeOK, OneMigrates, OneGrants, RunAsRecorded, CaughtUp, Offering, Reporting,
         [Next]_vars
  PROVE  Reporting'
<1>0. /\ files' = files
      /\ \A s \in Runners : GrantsEntered(s)
      /\ UNCHANGED grants \/ \E r \in Runners : Publicizes(r)
  BY LedgerSteps, GrantsEntering DEF Publishes
<1> SUFFICES ASSUME NEW r \in Runners
             PROVE  /\ pc'[r] \notin Late \cup {"failed"} => reported'[r] = {}
                    /\ reported'[r] \subseteq present'[r]
                    /\ pc'[r] \in Late /\ "writer" \in reported'[r]
                         => files[r] \subseteq grants'["writer"]
  BY <1>0 DEF Reporting, Late
<1>1. /\ pc[r] \notin Late \cup {"failed"} => reported[r] = {}
      /\ reported[r] \subseteq present[r]
      /\ pc[r] \in Late /\ "writer" \in reported[r]
           => files[r] \subseteq grants["writer"]
  BY DEF Reporting, Late
<1>2. GrantsEntered(r)
  BY <1>0
<1>3. pc'[r] \notin Late \cup {"failed"} => reported'[r] = {}
  BY <1>1, <1>2 DEF GrantsEntered
<1>4. reported'[r] \subseteq present'[r]
  <2>1. CASE present'[r] = present[r]
    BY <1>1, <1>2, <2>1 DEF GrantsEntered
  <2>2. CASE present'[r] # present[r]
    BY <1>1, <1>2, <2>2 DEF GrantsEntered, Late
  <2> QED
    BY <2>1, <2>2
<1>5. ASSUME pc'[r] \in Late, "writer" \in reported'[r]
      PROVE  files[r] \subseteq grants'["writer"]
  <2>1. present'[r] = present[r] /\ "writer" \in present[r]
    BY <1>2, <1>4, <1>5 DEF GrantsEntered, Checking, Late
  <2>2. /\ pc[r] \in Late \cup {"checkwriter"}
        /\ files[r] \subseteq grants["writer"]
    <3>1. CASE pc[r] \in Late
      BY <1>1, <1>2, <1>5, <3>1 DEF GrantsEntered, Late
    <3>2. CASE pc[r] = "resolve" /\ reported'[r] = reported[r]
      BY <1>1, <1>5, <3>2 DEF Late
    <3>3. CASE pc[r] = "checkwriter" /\ Objects \subseteq grants["writer"]
      BY <3>3, FilesAreObjects DEF Migrated
    <3> QED
      BY <1>2, <1>5, <3>1, <3>2, <3>3 DEF GrantsEntered
  <2>3. CASE UNCHANGED grants
    BY <2>2, <2>3
  <2>4. ASSUME NEW q \in Runners, Publicizes(q)
        PROVE  files[r] \subseteq grants'["writer"]
    <3>1. files[r] \subseteq offered[q]["writer"]
      BY <2>1, <2>2, <2>4 DEF Publicizes, Offering, Checking, Late
    <3>2. grants'["writer"] = IF "writer" \in present[q] THEN offered[q]["writer"]
                              ELSE grants["writer"]
      BY <2>4 DEF Publicizes, Roles
    <3> QED
      BY <2>2, <3>1, <3>2
  <2> QED
    BY <1>0, <2>3, <2>4
<1> QED
  BY <1>3, <1>4, <1>5

-----------------------------------------------------------------------------
(* Theorems.                                                               *)

LEMMA NextIInv == IInv /\ [Next]_vars => IInv'
<1> SUFFICES ASSUME IInv, [Next]_vars PROVE IInv'
  OBVIOUS
<1> USE DEF IInv
<1>1. TypeOK' /\ OneMigrates' /\ OneGrants' /\ StepsKnown'
  BY TypeNext, OneMigratesNext, OneGrantsNext, StepsKnownNext
<1>2. Unambiguous' /\ LedgerAscends' /\ RunAsRecorded' /\ CaughtUp'
  BY UnambiguousNext, LedgerAscendsNext, RunAsRecordedNext, CaughtUpNext
<1>3. PricesOfCaughtUp' /\ NeverDrifts' /\ RacersAgree'
  BY PricesNext, NeverDriftsNext, RacersAgreeNext
<1>4. Resolving' /\ Offering' /\ Reporting'
  BY ResolvingNext, OfferingNext, ReportingNext
<1> QED
  BY <1>1, <1>2, <1>3, <1>4

\* The invariant holds in every reachable state.
THEOREM Inductive == Spec => []IInv
<1> QED
  BY InitIInv, NextIInv, PTL DEF Spec

\* Every variable keeps its kind of value: in particular a transaction never
\* holds more than one file.
THEOREM TypeCorrect == Spec => []TypeOK
<1>1. IInv => TypeOK
  BY DEF IInv
<1> QED
  BY Inductive, <1>1, PTL

\* The ledger is in ascending version order, each version once.
THEOREM LedgerInOrder == Spec => []LedgerAscends
<1>1. IInv => LedgerAscends
  BY DEF IInv
<1> QED
  BY Inductive, <1>1, PTL

\* What has been carried out is what the ledger records.
THEOREM RunExactlyOnce == Spec => []RunAsRecorded
<1>1. IInv => RunAsRecorded
  BY DEF IInv
<1> QED
  BY Inductive, <1>1, PTL

\* A run past applyMigrations finds its own files first in the ledger.
THEOREM RunsAreCaughtUp == Spec => []CaughtUp
<1>1. IInv => CaughtUp
  BY DEF IInv
<1> QED
  BY Inductive, <1>1, PTL

\* The price list in the database is one of a checkout that was caught up.
THEOREM PricesFollow == Spec => []PricesOfCaughtUp
<1>1. IInv => PricesOfCaughtUp
  BY DEF IInv
<1> QED
  BY Inductive, <1>1, PTL

\* Runs of one checkout never refuse each other.
THEOREM RacersDoAgree == Spec => []RacersAgree
<1>1. IInv => RacersAgree
  BY DEF IInv
<1> QED
  BY Inductive, <1>1, PTL

\* A run that printed the writer as granted left it every object of its files.
THEOREM WriterDoesKeep == Spec => []WriterKeeps
<1>1. IInv => WriterKeeps
  BY DEF IInv, Reporting, WriterKeeps
<1> QED
  BY Inductive, <1>1, PTL

\* A file joins the ledger behind files of its own checkout only.
THEOREM HistoryIsOne == Spec => OneHistory
<1>1. ASSUME IInv, [Next]_vars, ledger' # ledger
      PROVE  \E r \in Runners : Elements(ledger') \subseteq files[r]
  <2>1. TypeOK /\ OneMigrates /\ StepsKnown
    BY <1>1 DEF IInv
  <2>2. PICK r \in Runners : Publishes(r)
    BY <1>1, <2>1, LedgerSteps
  <2>3. PICK f \in Missed(files[r]) : Applied' = Applied \cup {f}
    BY <1>1, <2>1, <2>2, Published
  <2>4. Applied \subseteq files[r] /\ f \in files[r]
    BY <2>1, <2>2, Published DEF Drifts, Missed
  <2> QED
    BY <2>3, <2>4 DEF Applied, Elements
<1> DEFINE Step == ledger' # ledger =>
                     \E r \in Runners : Elements(ledger') \subseteq files[r]
<1>2. IInv /\ [Next]_vars => [Step]_vars
  BY <1>1
<1> QED
  BY Inductive, <1>2, PTL DEF Spec, OneHistory

\* The reader keeps what every checkout has.
THEOREM ReaderDoesKeepCommon == Spec => ReaderKeepsCommon
<1>1. ASSUME IInv, [Next]_vars
      PROVE  grants["reader"] \cap Common \subseteq grants'["reader"]
  <2>1. TypeOK /\ OneMigrates /\ OneGrants /\ Resolving
    BY <1>1 DEF IInv
  <2>2. UNCHANGED grants \/ \E r \in Runners : Publicizes(r)
    BY <1>1, <2>1, GrantsEntering
  <2>3. ASSUME NEW r \in Runners, Publicizes(r)
        PROVE  grants["reader"] \cap Common \subseteq grants'["reader"]
    <3>1. files[r] \subseteq offered[r]["reader"]
      BY <2>1, <2>3 DEF Publicizes, Resolving
    <3>2. Common \subseteq files[r]
      BY DEF Common
    <3>3. grants'["reader"] = IF "reader" \in present[r] THEN offered[r]["reader"]
                              ELSE grants["reader"]
      BY <2>3 DEF Publicizes, Roles
    <3> QED
      BY <3>1, <3>2, <3>3
  <2> QED
    BY <2>2, <2>3
<1> DEFINE Step == grants["reader"] \cap Common \subseteq grants'["reader"]
<1>2. IInv /\ [Next]_vars => [Step]_vars
  BY <1>1
<1> QED
  BY Inductive, <1>2, PTL DEF Spec, ReaderKeepsCommon

-----------------------------------------------------------------------------
(* The history.                                                            *)

\* What a runner publishes is the next file of its checkout.
LEMMA PublishedIsNext ==
  ASSUME TypeOK, StepsKnown, Unambiguous, NEW r \in Runners, Publishes(r),
         NEW f \in Missed(files[r]),
         \A g \in Missed(files[r]) : VersionOf[f] <= VersionOf[g]
  PROVE  History!IsNext(f, files[r])
<1>1. files[r] \in SUBSET File
  BY FilesAreFiles
<1>2. ~Drifts(files[r]) /\ ~HasDuplicate(files[r])
  BY Published DEF Unambiguous, PastReading, Publishes, Committing
<1>3. History!Past = Applied
  BY DEF History!Past, Applied, Elements
<1>4. Applied \subseteq files[r]
  BY <1>2 DEF Drifts
<1>5. f \in files[r] \ Applied
  BY DEF Missed, Versions
<1>6. ASSUME NEW g \in Applied PROVE VersionOf[g] < VersionOf[f]
  <2>1. ~(VersionOf[f] < VersionOf[g])
    BY <1>2 DEF Drifts
  <2>2. VersionOf[f] # VersionOf[g]
    BY DEF Missed, Versions
  <2> QED
    BY <1>1, <1>4, <1>5, <2>1, <2>2, MigrationsAssumption
<1>7. ASSUME NEW g \in files[r] \ (Applied \cup {f}) PROVE VersionOf[f] < VersionOf[g]
  <2>1. VersionOf[g] # VersionOf[f] /\ \A h \in Applied : VersionOf[g] # VersionOf[h]
    BY <1>2, <1>4, <1>5, <1>7 DEF HasDuplicate
  <2>2. g \in Missed(files[r])
    BY <1>7, <2>1 DEF Missed, Versions
  <2> QED
    BY <1>1, <1>5, <1>7, <2>1, <2>2, MigrationsAssumption
<1> QED
  BY <1>3, <1>4, <1>5, <1>6, <1>7 DEF History!IsNext

\* Racing, failing and cut off, runners of any checkouts take the database
\* through a MigrationHistory (applyMigrations, applyStep).
THEOREM Refinement == Spec => ImplementsHistory
<1>1. Init => History!Init
  BY DEF Init, History!Init
<1>2. IInv /\ [Next]_vars => [History!Next]_History!vars
  <2> SUFFICES ASSUME IInv, [Next]_vars PROVE [History!Next]_History!vars
    OBVIOUS
  <2>1. TypeOK /\ OneMigrates /\ StepsKnown /\ Unambiguous
    BY DEF IInv
  <2>2. CASE UNCHANGED <<ledger, schema>>
    BY <2>2 DEF History!vars
  <2>3. ASSUME NEW r \in Runners, Publishes(r), ~UNCHANGED <<ledger, schema>>
        PROVE  History!Next
    <3>1. PICK f \in Missed(files[r]) :
            /\ ledger' = Append(ledger, f) /\ schema' = Append(schema, f)
            /\ \A g \in Missed(files[r]) : VersionOf[f] <= VersionOf[g]
      BY <2>1, <2>3, Published
    <3>2. files[r] \in Directories /\ f \in files[r]
      BY <2>1 DEF TypeOK, Missed
    <3>3. History!IsNext(f, files[r])
      BY <2>1, <2>3, <3>1, PublishedIsNext
    <3> QED
      BY <3>1, <3>2, <3>3 DEF History!Next, History!Apply
  <2> QED
    BY <2>1, <2>2, <2>3, LedgerSteps
<1> QED
  BY <1>1, <1>2, Inductive, PTL DEF Spec, ImplementsHistory, History!Spec

-----------------------------------------------------------------------------
(* Getting done.                                                           *)

LEMMA AheadValues ==
  /\ Ahead["failed"] = 0 /\ Ahead["done"] = 0 /\ Ahead["rollback"] = 1
  /\ Ahead["expose"] = 1 /\ Ahead["checkreader"] = 2 /\ Ahead["checkwriter"] = 3
  /\ Ahead["grantcommit"] = 4 /\ Ahead["grantwait"] = 6 /\ Ahead["grant"] = 7
  /\ Ahead["resolve"] = 8 /\ Ahead["roles"] = 9 /\ Ahead["prices"] = 10
  /\ Ahead["commit"] = 11 /\ Ahead["record"] = 12 /\ Ahead["run"] = 13
  /\ Ahead["inspect"] = 14 /\ Ahead["lock"] = 16 /\ Ahead["read"] = 17
BY DEF Ahead

\* What is left of the round r is in.
Round(r) == Ahead[pc[r]] + (IF session[r] = "none" THEN 0 ELSE 1)

LEMMA RoundType ==
  ASSUME TypeOK, NEW r \in Runners
  PROVE  Round(r) \in 0..18
<1>1. pc[r] \in Places
  BY DEF TypeOK
<1>2. Ahead[pc[r]] \in 0..17
  BY <1>1, AheadValues DEF Places
<1> QED
  BY <1>2 DEF Round

\* The files the ledger lacks of a checkout are finitely many.
LEMMA MissedFinite ==
  ASSUME TypeOK, NEW r \in Runners
  PROVE  IsFiniteSet(Missed(files[r])) /\ Cardinality(Missed(files[r])) \in Nat
<1>1. files[r] \in Directories
  BY DEF TypeOK
<1>2. IsFiniteSet(files[r])
  BY <1>1, MigrationsAssumption
<1>3. Missed(files[r]) \subseteq files[r]
  BY DEF Missed
<1> QED
  BY <1>2, <1>3, FS_Subset, FS_CardinalityType

\* They never become more, and fewer for a runner that publishes one of them.
LEMMA MissedShrinks ==
  ASSUME TypeOK, OneMigrates, StepsKnown, [Next]_vars, NEW s \in Runners
  PROVE  /\ Cardinality(Missed(files[s])') \in Nat
         /\ Cardinality(Missed(files[s])') <= Cardinality(Missed(files[s]))
         /\ Publishes(s) /\ recorded[s] # <<>> =>
              Cardinality(Missed(files[s])') < Cardinality(Missed(files[s]))
<1>1. files' = files /\ Applied \subseteq Applied'
  <2>1. CASE UNCHANGED <<ledger, schema, files>>
    BY <2>1 DEF Applied, Elements
  <2>2. ASSUME NEW r \in Runners, Publishes(r)
        PROVE  files' = files /\ Applied \subseteq Applied'
    <3>1. ledger' = ledger => Applied' = Applied
      BY DEF Applied, Elements
    <3> QED
      BY <2>2, <3>1, Published DEF Publishes
  <2> QED
    BY <2>1, <2>2, LedgerSteps
<1>2. Missed(files[s])' \subseteq Missed(files[s])
  BY <1>1 DEF Missed, Versions
<1>3. IsFiniteSet(Missed(files[s]))
  BY MissedFinite
<1>4. ASSUME Publishes(s), recorded[s] # <<>>
      PROVE  Missed(files[s])' # Missed(files[s])
  <2>1. PICK f \in Missed(files[s]) : Applied' = Applied \cup {f}
    BY <1>4, Published
  <2>2. f \notin Missed(files[s])'
    BY <2>1 DEF Missed, Versions
  <2> QED
    BY <2>1, <2>2
<1> QED
  BY <1>2, <1>3, <1>4, FS_Subset, FS_CardinalityType

\* r comes closer to the end of its round, or has applied a file; nobody else
\* is sent back.
Advances(r) ==
  /\ \A q \in Runners : q # r => Round(q)' <= Round(q)
  /\ Round(r)' < Round(r) \/ (Publishes(r) /\ recorded[r] # <<>>)

\* A step of r alone, to a place with less ahead.
LEMMA StepAdvances ==
  ASSUME TypeOK, NEW r \in Runners, NEW next \in Places,
         pc' = [pc EXCEPT ![r] = next],
         \A q \in Runners : q # r => session'[q] = session[q],
         \/ session'[r] \in {session[r], "none"} /\ Ahead[next] < Ahead[pc[r]]
         \/ Ahead[next] + 1 < Ahead[pc[r]]
  PROVE  Advances(r)
<1>1. ASSUME NEW q \in Runners, q # r PROVE Round(q)' = Round(q) /\ Round(q) \in Nat
  <2>1. pc'[q] = pc[q] /\ session'[q] = session[q]
    BY <1>1 DEF TypeOK
  <2>2. Round(q)' = Round(q)
    BY <2>1 DEF Round
  <2>3. Round(q) \in 0..18
    BY RoundType
  <2> QED
    BY <2>2, <2>3
<1>2. Ahead[pc[r]] \in Nat /\ Ahead[next] \in Nat
  <2>1. \A place \in Places : Ahead[place] \in Nat
    BY AheadValues DEF Places
  <2> QED
    BY <2>1 DEF TypeOK
<1>3. pc'[r] = next
  BY DEF TypeOK
<1>4. Round(r)' < Round(r)
  BY <1>2, <1>3 DEF Round
<1> QED
  BY <1>1, <1>4 DEF Advances

\* Where the queries take a run.
LEMMA Downhill ==
  /\ {Ahead["failed"], Ahead["lock"]} \subseteq {n \in Nat : n < Ahead["read"]}
  /\ Ahead["inspect"] + 1 < Ahead["lock"]
  /\ {Ahead["rollback"], Ahead["commit"], Ahead["run"]} \subseteq
       {n \in Nat : n < Ahead["inspect"]}
  /\ {Ahead["rollback"], Ahead["record"]} \subseteq {n \in Nat : n < Ahead["run"]}
  /\ {Ahead["rollback"], Ahead["commit"]} \subseteq {n \in Nat : n < Ahead["record"]}
  /\ Ahead["prices"] < Ahead["commit"]
  /\ Ahead["failed"] < Ahead["rollback"]
  /\ Ahead["roles"] < Ahead["prices"]
  /\ Ahead["resolve"] < Ahead["roles"]
  /\ {Ahead["expose"], Ahead["grant"]} \subseteq {n \in Nat : n < Ahead["resolve"]}
  /\ Ahead["grantwait"] < Ahead["grant"]
  /\ Ahead["grantcommit"] + 1 < Ahead["grantwait"]
  /\ Ahead["grantcommit"] + 1 < Ahead["grant"]
  /\ Ahead["checkwriter"] < Ahead["grantcommit"]
  /\ Ahead["checkreader"] < Ahead["checkwriter"]
  /\ Ahead["expose"] < Ahead["checkreader"]
  /\ Ahead["done"] < Ahead["expose"]
BY AheadValues

LEMMA RoundNext ==
  ASSUME TypeOK, OneMigrates, OneGrants, [Next]_vars
  PROVE  \/ UNCHANGED <<pc, session>> /\ (UNCHANGED vars \/ roles' # roles)
         \/ \E r \in Runners : Advances(r)
<1>0. /\ pc \in [Runners -> Places]
      /\ session \in [Runners -> {"none", "migrating", "granting"}]
  BY DEF TypeOK
<1>1. ASSUME NEW r \in Runners, ReadFiles(r) PROVE Advances(r)
  <2>1. /\ pc[r] = "read" /\ session' = session
        /\ pc' = [pc EXCEPT ![r] = "failed"] \/ pc' = [pc EXCEPT ![r] = "lock"]
    BY <1>1 DEF ReadFiles, Fail
  <2> QED
    BY <2>1, StepAdvances, Downhill DEF Places
<1>2. ASSUME NEW r \in Runners, Lock(r) PROVE Advances(r)
  <2>1. /\ pc[r] = "lock" /\ pc' = [pc EXCEPT ![r] = "inspect"]
        /\ session' = [session EXCEPT ![r] = "migrating"]
    BY <1>2 DEF Lock, At
  <2>2. \A q \in Runners : q # r => session'[q] = session[q]
    BY <1>0, <2>1
  <2> QED
    BY <2>1, <2>2, StepAdvances, Downhill DEF Places
<1>3. ASSUME NEW r \in Runners, Inspect(r) PROVE Advances(r)
  <2>1. /\ pc[r] = "inspect" /\ session' = session
        /\ \/ pc' = [pc EXCEPT ![r] = "rollback"] \/ pc' = [pc EXCEPT ![r] = "commit"]
           \/ pc' = [pc EXCEPT ![r] = "run"]
    BY <1>3 DEF Inspect
  <2> QED
    BY <2>1, StepAdvances, Downhill DEF Places
<1>4. ASSUME NEW r \in Runners, Run(r) \/ RunFails(r) PROVE Advances(r)
  <2>1. /\ pc[r] = "run" /\ session' = session
        /\ pc' = [pc EXCEPT ![r] = "rollback"] \/ pc' = [pc EXCEPT ![r] = "record"]
    BY <1>4 DEF Run, RunFails, At
  <2> QED
    BY <2>1, StepAdvances, Downhill DEF Places
<1>5. ASSUME NEW r \in Runners, Record(r) PROVE Advances(r)
  <2>1. /\ pc[r] = "record" /\ session' = session
        /\ pc' = [pc EXCEPT ![r] = "rollback"] \/ pc' = [pc EXCEPT ![r] = "commit"]
    BY <1>5 DEF Record
  <2> QED
    BY <2>1, StepAdvances, Downhill DEF Places
<1>6. ASSUME NEW r \in Runners, Commit(r) PROVE Advances(r)
  <2>1. Publishes(r)
    BY <1>0, <1>6 DEF Commit, At, Publishes, Committing, OneMigrates, Holding, Places
  <2>0. /\ pc[r] = "commit" /\ session' = [session EXCEPT ![r] = "none"]
        /\ session'[r] = "none"
        /\ \A q \in Runners : q # r => session'[q] = session[q]
    BY <1>0, <1>6 DEF Commit, At, PublishStep, Close
  <2>2. CASE recorded[r] = <<>>
    <3>1. pc' = [pc EXCEPT ![r] = "prices"]
      BY <1>6, <2>2 DEF Commit, At
    <3> QED
      BY <2>0, <3>1, StepAdvances, Downhill DEF Places
  <2>3. CASE recorded[r] # <<>>
    <3>1. pc' = [pc EXCEPT ![r] = "lock"]
      BY <1>6, <2>3 DEF Commit, At
    <3>2. ASSUME NEW q \in Runners, q # r PROVE Round(q)' <= Round(q)
      <4>1. pc'[q] = pc[q] /\ session'[q] = session[q]
        BY <1>0, <2>0, <3>1, <3>2
      <4> QED
        BY <4>1, RoundType DEF Round
    <3> QED
      BY <2>1, <2>3, <3>2 DEF Advances
  <2> QED
    BY <2>2, <2>3
<1>7. ASSUME NEW r \in Runners, Rollback(r) PROVE Advances(r)
  <2>1. /\ pc[r] = "rollback" /\ pc' = [pc EXCEPT ![r] = "failed"]
        /\ session' = [session EXCEPT ![r] = "none"]
    BY <1>7 DEF Rollback, At, Close
  <2>2. session'[r] = "none" /\ \A q \in Runners : q # r => session'[q] = session[q]
    BY <1>0, <2>1
  <2> QED
    BY <2>1, <2>2, StepAdvances, Downhill DEF Places
<1>8. ASSUME NEW r \in Runners, UpsertPrices(r) \/ ExistingRoles(r) PROVE Advances(r)
  <2>1. CASE UpsertPrices(r)
    BY <2>1, StepAdvances, Downhill DEF UpsertPrices, At, Places
  <2>2. CASE ExistingRoles(r)
    BY <2>2, StepAdvances, Downhill DEF ExistingRoles, At, Places
  <2> QED
    BY <1>8, <2>1, <2>2
<1>9. ASSUME NEW r \in Runners, Resolve(r) PROVE Advances(r)
  <2>1. /\ pc[r] = "resolve" /\ session' = session
        /\ pc' = [pc EXCEPT ![r] = "expose"] \/ pc' = [pc EXCEPT ![r] = "grant"]
    BY <1>9 DEF Resolve, At
  <2> QED
    BY <2>1, StepAdvances, Downhill DEF Places
<1>10. ASSUME NEW r \in Runners, Grant(r) PROVE Advances(r)
  <2>1. /\ pc[r] \in {"grant", "grantwait"} /\ pc' = [pc EXCEPT ![r] = "grantcommit"]
        /\ session' = [session EXCEPT ![r] = "granting"]
    BY <1>10 DEF Grant
  <2>2. \A q \in Runners : q # r => session'[q] = session[q]
    BY <1>0, <2>1
  <2>3. Ahead["grantcommit"] + 1 < Ahead[pc[r]]
    BY <2>1, Downhill
  <2> QED
    BY <2>1, <2>2, <2>3, StepAdvances DEF Places
<1>11. ASSUME NEW r \in Runners, GrantBlocks(r) PROVE Advances(r)
  <2>1. /\ pc[r] = "grant" /\ session' = session
        /\ pc' = [pc EXCEPT ![r] = "grantwait"]
    BY <1>11 DEF GrantBlocks, At
  <2> QED
    BY <2>1, StepAdvances, Downhill DEF Places
<1>12. ASSUME NEW r \in Runners, CommitGrants(r) \/ ServerCommitsGrants(r)
       PROVE  Advances(r)
  <2>1. /\ session' = [session EXCEPT ![r] = "none"]
        /\ pc[r] \in {"grantcommit", "failed"}
        /\ \A q \in Runners :
             pc'[q] = IF pc[q] = "grantwait" THEN "failed"
                      ELSE IF q = r /\ pc[r] = "grantcommit" THEN "checkwriter"
                      ELSE pc[q]
    BY <1>12, GrantsMoves DEF Granters
  <2>2. session[r] = "granting"
    BY <1>12 DEF CommitGrants, ServerCommitsGrants, OneGrants
  <2>3. ASSUME NEW q \in Runners, q # r PROVE Round(q)' <= Round(q)
    <3>1. /\ session'[q] = session[q] /\ pc[q] \in Places
          /\ pc'[q] = pc[q] \/ pc'[q] = "failed"
      BY <1>0, <2>1, <2>3
    <3>2. /\ Ahead[pc'[q]] \in Nat /\ Ahead[pc[q]] \in Nat
          /\ Ahead[pc'[q]] <= Ahead[pc[q]]
      BY <3>1, AheadValues DEF Places
    <3> QED
      BY <3>1, <3>2 DEF Round
  <2>4. Round(r)' < Round(r)
    <3>1. /\ session'[r] = "none"
          /\ \/ pc[r] = "failed" /\ pc'[r] = "failed"
             \/ pc[r] = "grantcommit" /\ pc'[r] = "checkwriter"
      BY <1>0, <2>1
    <3>2. /\ Ahead[pc'[r]] \in Nat /\ Ahead[pc[r]] \in Nat
          /\ Ahead[pc'[r]] <= Ahead[pc[r]]
      BY <3>1, AheadValues
    <3> QED
      BY <2>2, <3>1, <3>2 DEF Round
  <2> QED
    BY <2>3, <2>4 DEF Advances
<1>13. ASSUME NEW r \in Runners, CheckWriter(r) \/ CheckReader(r) \/ Expose(r)
       PROVE  Advances(r)
  <2>1. CASE CheckWriter(r)
    BY <2>1, StepAdvances, Downhill DEF CheckWriter, At, Places
  <2>2. CASE CheckReader(r)
    BY <2>2, StepAdvances, Downhill DEF CheckReader, At, Places
  <2>3. CASE Expose(r)
    BY <2>3, StepAdvances, Downhill DEF Expose, At, Places
  <2> QED
    BY <1>13, <2>1, <2>2, <2>3
<1>14. ASSUME NEW r \in Runners, LoseConnection(r) PROVE Advances(r)
  <2>1. /\ pc[r] \in Places \ {"read", "done", "failed"} /\ session' = session
        /\ pc' = [pc EXCEPT ![r] = "failed"]
    BY <1>0, <1>14 DEF LoseConnection, Fail
  <2>2. Ahead["failed"] < Ahead[pc[r]]
    BY <2>1, AheadValues DEF Places
  <2> QED
    BY <2>1, <2>2, StepAdvances, Downhill DEF Places
<1>15. ASSUME NEW r \in Runners, ServerDrops(r) \/ ServerCommitsStep(r)
       PROVE  Advances(r)
  <2>1. /\ session[r] # "none" /\ session' = [session EXCEPT ![r] = "none"]
        /\ pc' = pc
    BY <1>15 DEF ServerDrops, ServerCommitsStep, PublishStep, Close
  <2>2. ASSUME NEW q \in Runners, q # r PROVE Round(q)' <= Round(q)
    <3>1. session'[q] = session[q]
      BY <1>0, <2>1, <2>2
    <3> QED
      BY <2>1, <3>1, RoundType DEF Round
  <2>3. Round(r)' < Round(r)
    <3>1. Ahead[pc[r]] \in Nat /\ session'[r] = "none"
      BY <1>0, <2>1, AheadValues DEF Places
    <3> QED
      BY <2>1, <3>1 DEF Round
  <2> QED
    BY <2>2, <2>3 DEF Advances
<1>16. ASSUME NEW role \in Roles, CreateRole(role)
       PROVE  UNCHANGED <<pc, session>> /\ roles' # roles
  BY <1>16 DEF CreateRole
<1> QED
  BY <1>1, <1>2, <1>3, <1>4, <1>5, <1>6, <1>7, <1>8, <1>9, <1>10, <1>11, <1>12,
     <1>13, <1>14, <1>15, <1>16 DEF Next, Migrate, GrantRoles, ServerEnds, Over, vars

\* No step sends a run back, and each takes one forward: a finite number of
\* runs can take finitely many steps, through any races and failures
\* (applyMigrations' loop, one round of lock and inspection per file).
THEOREM RunsDoAdvance == Spec => RunsAdvance
<1> DEFINE Missing(r) == Cardinality(Missed(files[r]))
<1> DEFINE Step == /\ \A r \in Runners : Remaining(r)' <= Remaining(r)
                   /\ roles' = roles => \E r \in Runners : Remaining(r)' < Remaining(r)
<1>1. ASSUME IInv, [Next]_vars, ~UNCHANGED vars PROVE Step
  <2>1. TypeOK /\ TypeOK' /\ OneMigrates /\ OneGrants /\ StepsKnown
    BY <1>1, TypeNext DEF IInv
  <2>2. \A r \in Runners : Remaining(r) = 20 * Missing(r) + Round(r)
    <3> SUFFICES ASSUME NEW r \in Runners PROVE Remaining(r) = 20 * Missing(r) + Round(r)
      OBVIOUS
    <3>1. Missing(r) \in Nat /\ pc[r] \in Places
      BY <2>1, MissedFinite DEF TypeOK
    <3>2. Ahead[pc[r]] \in Nat
      BY <3>1, AheadValues DEF Places
    <3> QED
      BY <3>1, <3>2 DEF Remaining, Round
  <2>3. \A r \in Runners : Remaining(r)' = 20 * Missing(r)' + Round(r)'
    <3> SUFFICES ASSUME NEW r \in Runners
                 PROVE  Remaining(r)' = 20 * Missing(r)' + Round(r)'
      OBVIOUS
    <3>1. Missing(r)' \in Nat /\ pc'[r] \in Places
      BY <1>1, <2>1, MissedShrinks DEF TypeOK
    <3>2. Ahead[pc'[r]] \in Nat
      BY <3>1, AheadValues DEF Places
    <3> QED
      BY <3>1, <3>2 DEF Remaining, Round
  <2>4. \A r \in Runners :
          /\ Missing(r) \in Nat /\ Missing(r)' \in Nat /\ Missing(r)' <= Missing(r)
          /\ Publishes(r) /\ recorded[r] # <<>> => Missing(r)' < Missing(r)
          /\ Round(r) \in 0..18 /\ Round(r)' \in 0..18
    <3>1. \A r \in Runners : Round(r)' \in 0..18
      <4>1. ASSUME NEW r \in Runners PROVE Round(r)' \in 0..18
        <5>1. pc'[r] \in Places
          BY <2>1 DEF TypeOK
        <5>2. Ahead[pc'[r]] \in 0..17
          BY <5>1, AheadValues DEF Places
        <5> QED
          BY <5>2 DEF Round
      <4> QED
        BY <4>1
    <3> QED
      BY <1>1, <2>1, <3>1, MissedFinite, MissedShrinks, RoundType
  <2> HIDE DEF Missing
  <2>5. CASE UNCHANGED <<pc, session>> /\ roles' # roles
    <3>1. \A r \in Runners : Round(r)' = Round(r)
      BY <2>5 DEF Round
    <3> QED
      BY <2>2, <2>3, <2>4, <2>5, <3>1
  <2>6. ASSUME NEW r \in Runners, Advances(r) PROVE Step
    <3>1. Remaining(r)' < Remaining(r) /\ Remaining(r)' <= Remaining(r)
      <4>1. \/ Missing(r)' < Missing(r)
            \/ Missing(r)' <= Missing(r) /\ Round(r)' < Round(r)
        BY <2>4, <2>6 DEF Advances
      <4>2. /\ Missing(r) \in Nat /\ Missing(r)' \in Nat
            /\ Round(r) \in 0..18 /\ Round(r)' \in 0..18
        BY <2>4
      <4>3. 20 * Missing(r)' + Round(r)' < 20 * Missing(r) + Round(r)
        BY <4>1, <4>2
      <4> QED
        BY <2>2, <2>3, <4>2, <4>3
    <3>2. ASSUME NEW q \in Runners, q # r PROVE Remaining(q)' <= Remaining(q)
      <4>1. Missing(q)' <= Missing(q) /\ Round(q)' <= Round(q)
        BY <2>4, <2>6, <3>2 DEF Advances
      <4>2. /\ Missing(q) \in Nat /\ Missing(q)' \in Nat
            /\ Round(q) \in 0..18 /\ Round(q)' \in 0..18
        BY <2>4
      <4>3. 20 * Missing(q)' + Round(q)' <= 20 * Missing(q) + Round(q)
        BY <4>1, <4>2
      <4> QED
        BY <2>2, <2>3, <4>3
    <3> QED
      BY <3>1, <3>2
  <2> QED
    BY <1>1, <2>1, <2>5, <2>6, RoundNext
<1>2. IInv /\ [Next]_vars => [Step]_vars
  BY <1>1
<1> HIDE DEF Step
<1>3. [][Step]_vars => RunsAdvance
  BY PTL DEF RunsAdvance, Step
<1> QED
  BY <1>2, <1>3, Inductive, PTL DEF Spec

\* Until all runs have ended some run can go on by itself, so the waits for
\* the advisory lock and for the grants never close a circle.
THEOREM NoneStuck == Spec => []SomeoneMoves
<1>1. IInv => SomeoneMoves
  <2> SUFFICES ASSUME IInv, NEW r \in Runners,
                      ~(pc[r] \in {"done", "failed"} /\ session[r] = "none")
               PROVE  \E q \in Runners : MayMove(q)
    BY DEF SomeoneMoves, Finished
  <2>1. OneMigrates /\ OneGrants /\ TypeOK
    BY DEF IInv
  <2>2. ASSUME NEW q \in Runners, session[q] # "none" PROVE MayMove(q)
    <3>1. session[q] \in {"migrating", "granting"}
      BY <2>1, <2>2 DEF TypeOK
    <3>2. pc[q] \in Holding \cup Granters
      BY <2>1, <3>1 DEF OneMigrates, OneGrants, Granters
    <3> QED
      BY <2>2, <3>2 DEF MayMove, Holding, Granters
  <2>3. CASE \A q \in Runners : session[q] = "none"
    BY <2>3 DEF MayMove, LockFree, GrantFree
  <2> QED
    BY <2>2, <2>3
<1> QED
  BY <1>1, Inductive, PTL
=============================================================================
